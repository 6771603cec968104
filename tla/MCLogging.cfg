\* Three loggers besides the first, five lists of attributes, one group.
CONSTANTS
    Lists <- SmallLists
    Groups = {"g"}
    Levels <- SmallLevels
    Threshold = 4
    Spans = {"s1", "s2"}
    NoSpan = NoSpan
    NoEntry = NoEntry
    MaxHandlers = 4
SPECIFICATION Spec
CHECK_DEADLOCK FALSE
INVARIANTS
    CloudFieldsAreTheHandlers
    EntriesAreFaithful
