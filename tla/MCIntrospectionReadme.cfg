\* What README.md says of the delay of a revocation.
CONSTANTS
    Callers = {c1, c2, c3}
    Tokens = {t1}
    NoToken = NoToken
    CacheTTL = 2
    Timeout = 2
    MaxEntries = 1
    Leeway = 1
    MaxTime = 6
    MaxRevoked = 1
    Expiries = {1, 3, 9}
SPECIFICATION Spec
SYMMETRY Symmetry
CHECK_DEADLOCK FALSE
INVARIANTS
    RevokedWithinTTL
