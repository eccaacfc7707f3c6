SPECIFICATION Spec
CONSTANTS
    w1 = w1
    w2 = w2
    k1 = k1
    k2 = k2
    g1 = g1
    g2 = g2
    r1 = r1
    r2 = r2
    draft = draft
    t1 = t1
    t2 = t2
    Nobody = Nobody
    Workers = {w1, w2}
    Keys = {k1, k2}
    Roots = {g1, g2}
    Runs = {r1, r2}
    OwnRuns = {r1}
    Texts = {draft, t1, t2}
    Draft = draft
    Requests <- AllBodies
    MaxDepth = 2
    Crashes = TRUE
SYMMETRY WorkerSymmetry
INVARIANTS
    EveryVersionReadable
    DoneStaysDone
    ConflictIsFinal
PROPERTIES
    ImplementsRegister
