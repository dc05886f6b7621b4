SPECIFICATION Spec
CONSTANTS
  max_blocks = 3
  Bits = 6
  NumSub <- Sizes
INVARIANTS
  TypeOK
  NoOverlap
  Accounting
  OnlyWholeBlocksKept
CHECK_DEADLOCK FALSE
