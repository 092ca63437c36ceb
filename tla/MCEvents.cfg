SPECIFICATION FairSpec
CONSTANTS
    Clients = {c1}
    Capacity = 2
    BatchLimit = 1
    MaxBatches = 2
    Term = 1
    MaxClock = 2
    MaxEvents = 4
    MaxRestarts = 1
    MaxLost = 1
INVARIANTS MirrorIsCurrent RefusedOnlyAfterLoss
PROPERTY CatchesUp
