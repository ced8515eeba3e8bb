SPECIFICATION FairSpec
CONSTANTS
    t1 = t1
    t2 = t2
    Threads = {t1, t2}
    Programs <- MCPrograms
    None = None
INVARIANTS
    TypeOK
    LocksMatchFrames
    FunctionsOnOwnThread
    ContextEndsWithRender
    NoDeadlock
PROPERTIES
    DefaultNeverReturns
    CallsReturn
CHECK_DEADLOCK FALSE
