SPECIFICATION AnyFairSpec
CONSTANTS
    Names <- MCNames
    Bodies <- MCBodies
    Code <- MCCode
    Vars <- MCVars
    MacroNames <- MCMacroNames
    BlockNames <- MCBlockNames
    None = None
    Lib <- MCLibraries
    AsyncLib <- MCAsyncLibraries
    Main = "main"
    MaxItems = 2
    MaxDepth = 24
    Recycles = FALSE
CHECK_DEADLOCK FALSE
INVARIANTS
    TypeOK
    StateFollowsCalls
    CleanWhenDone
    SuperIsRunning
    ChainsAreLineage
    LoopSeen
    ExtCacheCurrent
PROPERTIES
    Ends
