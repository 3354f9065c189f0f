SPECIFICATION Spec
CONSTANTS
    k1 = k1
    k2 = k2
    wrong = wrong
    h1 = h1
    Presented <- MCPresented
    ApiKeys <- MCApiKeys
    Hosts <- MCHosts
    RequireKey = TRUE
    MaxRequests = 2
    Window = 3
    TicksPerSecond = 2
    KnownLimit = 1
    MaxTime = 8
INVARIANTS
    TypeOK
PROPERTIES
    KeepsThePromise
    RetryAfterIsEnough
