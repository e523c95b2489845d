SPECIFICATION FairSpec
CONSTANTS
  User = {u1, u2}
  NoUser = NoUser
  Buf = {b1, b2}
  NoBuf = NoBuf
  Block = {k1, k2, k3}
  NoBlock = NoBlock
  Val = {0, 1}
  MaxDirty = 1
  Outcome = {TRUE}
CHECK_DEADLOCK FALSE
INVARIANTS HeldIsValid
PROPERTIES ImplementsBlockStore RequestsDone
