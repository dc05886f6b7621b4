SPECIFICATION Spec
CONSTANTS
  Holder = {t1, t2}
  Kind = {"ts"}
  Half = 128
  Arguments <- Calls
INVARIANTS
  OneOwner
CHECK_DEADLOCK FALSE
