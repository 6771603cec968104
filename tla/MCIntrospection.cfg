\* Two requests, two tokens that compete for one cache entry; one is revoked.
CONSTANTS
    Callers = {c1, c2}
    Tokens = {t1, t2}
    NoToken = NoToken
    CacheTTL = 2
    Timeout = 1
    MaxEntries = 1
    Leeway = 2
    MaxTime = 4
    MaxRevoked = 1
    Expiries = {1, 9}
SPECIFICATION FairSpec
CHECK_DEADLOCK FALSE
INVARIANTS
    RevocationDelay
    ActiveWithinLifetime
    NeverAskedTwice
PROPERTIES
    EvictsTheEarliest
    CallsReturn
    ImplementsCheck
