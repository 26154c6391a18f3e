SPECIFICATION Spec
CONSTANTS
  NumCells = 2
  MaxAttempts = 2
  MaxRollouts = 1
  MaxGenerations = 0
  DriverCalls = {}
  AtomicExchange = TRUE
  ChecksNan = FALSE
INVARIANTS
  DiscardedTakesNoStep
CHECK_DEADLOCK FALSE
