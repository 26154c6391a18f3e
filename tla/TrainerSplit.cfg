SPECIFICATION Spec
CONSTANTS
  NumCells = 3
  MaxAttempts = 2
  MaxRollouts = 1
  MaxGenerations = 0
  DriverCalls = {}
  AtomicExchange = FALSE
  ChecksNan = TRUE
INVARIANTS
  ReplicasAgree
CHECK_DEADLOCK FALSE
