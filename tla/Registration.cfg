SPECIFICATION FairSpec
CONSTANTS
    Cells = {x, y}
    Reporters = {r1, r2}
    NoOne = NoOne
    MaxInfos = 2
    MaxCrashes = 1
    MaxFaults = 1
INVARIANTS
    HubInv
PROPERTIES
    InfosNeverGoBack
    FleetConverges
CHECK_DEADLOCK FALSE
