SPECIFICATION FairSpec
CONSTANTS
  Runs = 2
  Points = 2
  Spare <- MixedSpare
  RetainFinal <- MixedRetain
  Demand <- MixedDemand
INVARIANTS JobsInv FinishedMeansEvaluated
PROPERTIES LossIsNoticed RunsEnd
CHECK_DEADLOCK FALSE
