\* Two requests at once over three elements and a relation.
SPECIFICATION LockSpec
CONSTANTS
    t1 = t1
    t2 = t2
    t3 = t3
    None = None
    Transactions = {t1, t2}
    Elements = {1, 2, 3}
    RelationIds = {1}
    Pair <- Pairs
    MaxChange = 3
SYMMETRY Symmetric
INVARIANTS
    ActiveEnds
    
CHECK_DEADLOCK FALSE
