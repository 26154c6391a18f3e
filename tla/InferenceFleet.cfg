SPECIFICATION FairSpec
CONSTANTS
    Cells = {c1, c2}
    Checked = {c1}
    Renewed = {c1}
    Threshold = 2
    MaxIncarnation = 2
    MaxUpdates = 2
    MaxScripts = 2
    MaxFaults = 1
INVARIANTS
    FleetInv
    RoutedHaveWeights
    VerdictIsCurrent
PROPERTIES
    UpdatesSettle
CHECK_DEADLOCK FALSE
