SPECIFICATION FairSpec
CONSTANTS
  PIPESIZE = 2
  WRAP = 4
  Byte = {x, y}
  Writer = {w1, w2}
  Reader = {r1}
  NoProc = NoProc
  Victim = {w1, r1}
  MaxN = 2
CHECK_DEADLOCK FALSE
INVARIANTS ResultsTrue NoUseAfterFree
PROPERTIES ImplementsByteQueue SleepersWake
