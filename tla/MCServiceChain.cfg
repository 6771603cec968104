\* Every kind of edge between two services, chains of up to three tokens.
CONSTANTS
    Entries <- TwoEntries
    EdgeLists <- TwoEdgeLists
    Forgeries <- TwoForgeries
    Users = {u1, u2}
    Grants = {g1, g2}
    TTL = 2
    Leeway = 1
    SourceLifetimes = {0, 3}
    MaxTime = 2
    MaxIssued = 3
SPECIFICATION Spec
SYMMETRY Symmetry
CHECK_DEADLOCK FALSE
INVARIANTS
    UserChainIntact
    OriginNeverChanges
    TxnNamesTheChain
    ChainConnected
    DelegationEnds
