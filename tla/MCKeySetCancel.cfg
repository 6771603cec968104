\* What README.md says verifier_unavailable means.
CONSTANTS
    Callers = {c1, c2, c3}
    Kids = {k1}
    NoKid = NoKid
    CacheTTL = 1
    RefreshCooldown = 1
    FailureCooldown = 1
    FetchTimeout = 1
    MaxAttempts = 2
    MaxTime = 1
    MaxRotations = 0
    MaxCancels = 1
SPECIFICATION Spec
CHECK_DEADLOCK FALSE
INVARIANTS
    UnavailableHasACause
