SPECIFICATION Spec
CONSTANTS
    x1 = x1
    x2 = x2
    t1 = t1
    t2 = t2
    end1 = end1
    raw = raw
    s1 = s1
    s2 = s2
    s3 = s3
    s4 = s4
    h1 = h1
    n1 = n1
    n2 = n2
    k1 = k1
    ExtNames = {x1, x2}
    Tags <- MCTags
    Reserved <- MCReserved
    NoTag = NoTag
    NoMeta = NoMeta
    Envs = {e1, e2}
    Procs = {p1, p2}
    Opts = {o1}
    Registrations <- MCOne
    Sources = {s1, s2}
    ShapeOf <- MCShapeOf
    HashKeys = {h1}
    HashOf <- MCHashOf
    Names = {n1}
    Keys = {n1, k1}
    Canonical <- MCCanonical
    Addrs = {a1, a2}
    Kinds = {"map"}
    Recycles = FALSE
    Host = FALSE
    Home <- MCHome
    None = None
INVARIANTS
    IInv
    AnswerIsCurrent
    HandlersPresent
    CachesShareable
SYMMETRY Symmetry
