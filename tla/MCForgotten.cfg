SPECIFICATION Spec
CONSTANTS
    ResultCapacity = 1
    TombstoneCapacity = 1
    MaxRuns = 2
    MaxGenerations = 1
    MaxClaims = 2
    MaxUserWrites = 1
    MaxNonce = 3
    MaxSequence = 4
INVARIANT WrittenAtMostOnce
