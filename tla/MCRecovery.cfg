SPECIFICATION FairSpec
CONSTANTS
    ResultCapacity = 1
    TombstoneCapacity = 1
    MaxRuns = 2
    MaxGenerations = 1
    MaxClaims = 2
    MaxUserWrites = 1
    MaxNonce = 2
    MaxSequence = 3
INVARIANT RecordsAreTruthful
PROPERTY InterruptedIsSettled
