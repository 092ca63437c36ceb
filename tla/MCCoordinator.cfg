CONSTANTS
    Requests <- FourRequests
    Sessions <- TwoClients
    Leases <- ThreeLeases
    Capacity = 2
    Declared = 2
    MaxGeneration = 2
    MaxClock = 1
    NoOutcome = NoOutcome
SPECIFICATION Spec
INVARIANTS TypeOK NoInternalError QueueMatchesJournal OutcomesAreTruthful AtMostOnce
PROPERTIES SupersededIsObsolete WritesAreAuthorised AdmittedIsFinished
