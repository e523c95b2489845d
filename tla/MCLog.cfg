SPECIFICATION MCSpec
CONSTANTS
  p1 = p1
  p2 = p2
  p3 = p3
  b1 = b1
  b2 = b2
  b3 = b3
  Proc = {p1, p2, p3}
  Block = {b1, b2, b3}
  Val = {0, 1}
  Writes <- MCWrites
  None = None
  MAXOPBLOCKS = 1
  LOGSIZE = 2
  NLOG = 3
INVARIANTS LogFits
PROPERTIES ImplementsAtomicDisk BeginWakes
