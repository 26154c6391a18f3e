SPECIFICATION FairSpec
CONSTANTS
    Cells = {c1}
    Checked = {c1}
    Renewed = {c1}
    Threshold = 2
    MaxIncarnation = 1
    MaxUpdates = 1
    MaxScripts = 2
    MaxFaults = 0
PROPERTIES
    TakeOversSucceed
CHECK_DEADLOCK FALSE
