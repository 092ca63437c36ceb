CONSTANTS
    C1 = C1
    C2 = C2
    R1 = R1
    R2 = R2
    L1 = L1
    L2 = L2
    G1 = G1
    G2 = G2
    Mouse = Mouse
    Clients <- MCClients
    LeaseIds <- MCLeaseIds
    Resources <- MCResources
    RequestIds <- MCRequestIds
    Durations = {2}
    MaxLeases = 2
    MaxHistory = 2
    MaxResources = 2
    MaxMonotonic = 3
    NoLease = NoLease
SYMMETRY MCSymmetry
SPECIFICATION Spec
INVARIANTS TypeOK MutualExclusion IndexMatchesGrants GrantStaysAnswerable AnswersAreUnambiguous
PROPERTIES NoTakeover ImplementsOwnership
