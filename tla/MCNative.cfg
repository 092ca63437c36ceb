CONSTANTS
    C1 = C1
    C2 = C2
    C3 = C3
    R1 = R1
    R2 = R2
    T1 = T1
    T2 = T2
    Tokens <- TwoTokens
    TokenOrder <- InOrder
    NoRecord = NoRecord
    NoOwner = NoOwner
    Clients <- ThreeClients
    Lessees <- OneClient
    RequestIds <- OneRequest
    Timeouts = {1}
    QueueCapacity = 3
    JournalCapacity = 1
    MaxClock = 1
SPECIFICATION Spec
INVARIANTS TypeOK RotationIsExact AtMostOneSet
PROPERTIES SetsAreAuthorised EveryCallIsAnswered
