SPECIFICATION FairSpec
CONSTANTS
    None = None
    NoTag = NoTag
    NoMeta = NoMeta
    ExtNames = {"a", "b"}
    Numbers = {"1"}
    Constants = {"s"}
    Tags <- MCTags
    Reserved <- MCReserved
    Identifiers <- MCIdentifiers
    Inputs <- MCInputs
INVARIANTS
    TypeOK
    NothingLost
    TrimmedWhereAsked
    AcceptsGrammar
    TreeNests
    RawNeverFails
    AgreesWithShapes
    ExprFollowsGrammar
PROPERTIES
    Finishes
CHECK_DEADLOCK FALSE
