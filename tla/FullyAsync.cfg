SPECIFICATION FairSpec
CONSTANTS
    GroupSize = 2
    GroupBudget = 1
    BatchSize = 2
    Capacity = 1
    MaxStaleness = 0
    Retry = TRUE
    NumRollout = 3
    UpdateInterval = 2
    SaveInterval = 2
    EvalInterval = 2
    MaxFaults = 1
    MaxCrashes = 1
INVARIANTS GroupsInv FreshEnough NothingTrainedTwice
PROPERTY RunEnds
