SPECIFICATION Spec
CONSTANTS
  Length = 2
  Width = 8
  Unlinks = {"held"}
  EvfdFails = FALSE
  MaxAfter = 1
PROPERTIES
  AllocatedCanBeUnlinked
CHECK_DEADLOCK FALSE
