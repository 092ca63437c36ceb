SPECIFICATION Spec
CONSTANTS
    MaxConnections = 2
    MaxEpoch = 2
    MaxLeases = 2
    MaxTransactions = 2
    MaxCrashes = 1
    MaxEvictions = 1
INVARIANTS TypeOK NeverReplayed ReportedOutcomeHolds LeaseOfLiveSession EpochGuardsLease
\* The bounds on connections, epochs and leases stop the threads in the end.
CHECK_DEADLOCK FALSE
