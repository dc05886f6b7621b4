SPECIFICATION Spec
CONSTANTS
  Client = {c1, c2}
  Id = {1, 2}
  None = None
INVARIANTS
  TypeOK
  OnlyOverlappingMix
CHECK_DEADLOCK FALSE
