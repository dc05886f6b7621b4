SPECIFICATION Spec
CONSTANTS
  Process = {p1, p2, p3}
  NamePeriod = 2
  MaxTime = 3
INVARIANTS
  TypeOK
  NamesAreHeld
  IdsDistinct
CHECK_DEADLOCK FALSE
