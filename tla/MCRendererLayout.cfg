SPECIFICATION AnySpec
CONSTANTS
    Names <- MCNames
    Bodies <- MCBodies
    Code <- MCCode
    Vars <- MCVars
    MacroNames <- MCMacroNames
    BlockNames <- MCBlockNames
    None = None
    Lib <- MCLayouts
    AsyncLib <- NoLibraries
    Main = "main"
    MaxItems = 2
    MaxDepth = 24
    Recycles = FALSE
CHECK_DEADLOCK FALSE
INVARIANTS
    LayoutIsRoot
