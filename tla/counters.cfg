SPECIFICATION Spec
CONSTANTS
  Kind = {"plain", "circular"}
  Sample <- Samples
  MaxSamples = {1, 3}
  INTMAX_MAX = 9
  MaxColl = 2
  MaxAdded = 4
INVARIANTS
  TypeOK
  RingKeepsNewest
  StatsDescribeSamples
CHECK_DEADLOCK FALSE
