SPECIFICATION FairSpec
CONSTANTS
    w1 = w1
    w2 = w2
    k1 = k1
    k2 = k2
    r1 = r1
    r2 = r2
    c1 = c1
    c2 = c2
    Workers = {w1, w2}
    Keys = {k1, k2}
    Runs = {r1}
    Configs = {c1, c2}
    Requests <- TwoKeyBodies
    MaxScopeVersion = 1
    RowLocks = TRUE
    Crashes = FALSE
    Cancels = FALSE
    Deletes = TRUE
PROPERTIES
    EveryRequestAnswered
    ActiveAttemptSettles
    ImplementsLedger
