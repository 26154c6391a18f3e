SPECIFICATION FairSpec
CONSTANTS
    Calls = {a, b}
    Serial = {a, b}
    MaxBoots = 3
INVARIANTS
    CallsInv
PROPERTIES
    CallsEnd
CHECK_DEADLOCK FALSE
