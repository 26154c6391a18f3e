SPECIFICATION Spec
CONSTANTS
  Runs = 2
  Points = 2
  Spare <- MixedSpare
  RetainFinal <- MixedRetain
  Demand <- MixedDemand
PROPERTY ExportIsImmutable
CHECK_DEADLOCK FALSE
