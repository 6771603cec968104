\* Two requests race over one kid that comes or goes; a fetch has one retry and one
\* client may go away.
CONSTANTS
    Callers = {c1, c2}
    Kids = {k1}
    NoKid = NoKid
    CacheTTL = 2
    RefreshCooldown = 2
    FailureCooldown = 1
    FetchTimeout = 1
    MaxAttempts = 2
    MaxTime = 4
    MaxRotations = 1
    MaxCancels = 1
SPECIFICATION FairSpec
CHECK_DEADLOCK FALSE
INVARIANTS
    KeyFreshness
    UnknownIsTruthful
    CooldownHasACause
    RefetchOnlyByEarlierDecision
PROPERTIES
    CallsReturn
    ImplementsLookup
