SPECIFICATION FairSpec
CONSTANTS
    None = None
    NoTag = NoTag
    NoMeta = NoMeta
    ExtNames = {"a", "b"}
    Numbers = {"1"}
    Constants = {"s"}
    Tags <- MCTags
    Reserved <- MCReserved
    Identifiers <- MCIdentifiers
    Inputs <- Built
INVARIANT NoPanic
CHECK_DEADLOCK FALSE
