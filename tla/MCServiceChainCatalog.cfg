\* The edges the gateway is deployed with.
CONSTANTS
    Entries <- CatalogueEntries
    EdgeLists <- CatalogueEdgeLists
    Forgeries = {}
    Users = {u1}
    Grants = {g1}
    TTL = 3
    Leeway = 1
    SourceLifetimes = {0, 1, 4}
    MaxTime = 3
    MaxIssued = 3
SPECIFICATION Spec
CHECK_DEADLOCK FALSE
INVARIANTS
    DelegationIsShort
