CONSTANTS
    C1 = C1
    C2 = C2
    C3 = C3
    R1 = R1
    R2 = R2
    T1 = T1
    T2 = T2
    Tokens <- TwoTokens
    TokenOrder <- InOrder
    NoRecord = NoRecord
    NoOwner = NoOwner
    Clients <- TwoClients
    Lessees <- TwoClients
    RequestIds <- OneRequest
    Timeouts = {2}
    QueueCapacity = 1
    JournalCapacity = 1
    MaxClock = 2
SPECIFICATION Spec
INVARIANTS ExactRetryIsResolved
