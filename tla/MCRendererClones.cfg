SPECIFICATION AnySpec
CONSTANTS
    Names <- MCNames
    Bodies <- MCBodies
    Code <- MCCode
    Vars <- MCVars
    MacroNames <- MCMacroNames
    BlockNames <- MCBlockNames
    None = None
    Lib <- MCClones
    AsyncLib <- NoLibraries
    Main = "main"
    MaxItems = 2
    MaxDepth = 24
    Recycles = TRUE
CHECK_DEADLOCK FALSE
INVARIANTS
    LoopSeen
