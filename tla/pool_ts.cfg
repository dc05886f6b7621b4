SPECIFICATION Spec
CONSTANTS
  Holder = {t1, t2, t3}
  Kind = {"ts", "fixed", "po2", "pos"}
  Half = 128
  Arguments <- Calls
INVARIANTS
  TypeOK
  OneInside
  LockNotLost
  CountConserved
  BlocksApart
PROPERTIES
  LockReturned
CHECK_DEADLOCK FALSE
