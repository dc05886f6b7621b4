SPECIFICATION Spec
CONSTANTS
  Length = 4
  Width = 8
  Unlinks = {"held", "free"}
  EvfdFails = TRUE
  MaxAfter = 4
INVARIANTS
  TypeOK
  WellFormed
PROPERTIES
  ImplementsQueue
CHECK_DEADLOCK FALSE
