\* Two listeners, a request with a call back, an IdP that changes once.
CONSTANTS
    Listeners <- Both
    Requests = {r1}
    Metadata <- AllMetadata
    Introspection = "required"
    NoDocument = NoDocument
    MaxChanges = 1
SPECIFICATION FairSpec
CHECK_DEADLOCK FALSE
INVARIANTS
    DrainedOrExpired
    SendsNeverBlock
    OutageIsNotFatal
PROPERTIES
    CallBacksAreServed
    StopsWhenItMust
    EventuallyReady
