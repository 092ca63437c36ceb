SPECIFICATION Spec
CONSTANTS
    ResultCapacity = 1
    TombstoneCapacity = 0
    MaxRuns = 2
    MaxGenerations = 2
    MaxClaims = 2
    MaxUserWrites = 2
    MaxNonce = 2
    MaxSequence = 3
INVARIANTS TypeOK RewrittenOnlyIfForgotten FailedWriteIsNotRepeated RecordsAreTruthful RestoresLatest
