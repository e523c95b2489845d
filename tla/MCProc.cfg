SPECIFICATION Spec
CONSTANTS
  NPROC = 3
  Cpu = {c1, c2}
  NoCpu = NoCpu
  MaxPid = 3
  KillPids = {0, 1, 2, 3}
SYMMETRY Symmetry
CHECK_DEADLOCK FALSE
INVARIANTS OwnStack NoMissedExit
