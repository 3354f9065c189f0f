SPECIFICATION FairSpec
CONSTANTS
    c1 = c1
    c2 = c2
    p1 = p1
    p2 = p2
    NoCaller = NoCaller
    NoProfile = NoProfile
    Callers <- MCCallers
    Profiles <- MCProfiles
    NumTiers = 2
    Ttl = 1
    MaxEntries = 1
INVARIANTS TypeOK OneFetchPerProfile CacheWithinLimit
PROPERTIES NoWastedFetch WaitersDoNotAbort EveryRequestIsAnswered
