SPECIFICATION Spec
CONSTANTS
    None = None
    Callables <- MCCallables
    FilterNames <- MCFilterNames
    Functions = {f1, f2}
    Contexts <- MCContexts
    Items <- MCItems
    Asked <- MCAsked
    MaxLog = 2
    MaxUsed = 1
    MaxMade = 2
    MaxTurns = 3
SYMMETRY MCSymmetry
INVARIANTS
    TypeOK
    CallsReachLastFunction
    LookupsTellCalls
    ChainsRunEachFilter
    TurnsFollowCalls
    ValuesAreRight
