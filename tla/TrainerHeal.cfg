SPECIFICATION FairSpec
CONSTANTS
  NumCells = 2
  MaxAttempts = 3
  MaxRollouts = 2
  MaxGenerations = 2
  DriverCalls = {"publish", "all"}
  AtomicExchange = TRUE
  ChecksNan = TRUE
INVARIANTS
  GroupInv
  EveryRolloutAppliedOnce
  WeightsInv
  GivesUpForCause
PROPERTIES
  PublishedNeverGoesBack
  CallsEnd
CHECK_DEADLOCK FALSE
