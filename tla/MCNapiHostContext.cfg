SPECIFICATION Spec
CONSTANTS
    t1 = t1
    t2 = t2
    Threads = {t1, t2}
    Programs <- PlainOnly
    None = None
INVARIANTS
    ContextDuringRender
