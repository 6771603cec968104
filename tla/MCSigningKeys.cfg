\* Two public instances and an internal one, two key IDs, two keys.
CONSTANTS
    Instances = {p1, p2, i}
    Public = {p1, p2}
    Destinations = {d}
    Kids = {kid1, kid2}
    Keys = {key1, key2}
    NoKey = NoKey
    NoKeySet = NoKeySet
    MaxAge = 1
    CacheTTL = 1
    TokenTTL = 1
    SwitchWait = 2
    RemoveWait = 1
SPECIFICATION Spec
SYMMETRY Symmetry
CHECK_DEADLOCK FALSE
INVARIANTS
    ContextsVerify
    DestinationsVerify
    RemovedKeysAreForgotten
