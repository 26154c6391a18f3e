SPECIFICATION LoopFairSpec
CONSTANTS
    Objects = {x, y}
    Parents = {p, q}
    Unmapped = Unmapped
    Gone = Gone
    MaxChanges = 3
    MaxFailures = 1
INVARIANTS
    LoopInv
PROPERTIES
    Converges
