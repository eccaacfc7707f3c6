\* Three drafts under two keys, two requests at once, one foreshadow.
CONSTANTS
    Drafts = {x1, x2, x3}
    Deliveries = {d1, d2}
    Keys = {k1, k2}
    Foreshadows = {t1}
    Nothing = Nothing
SPECIFICATION RequestSpec
SYMMETRY Symmetric
INVARIANTS
    DoneIsTrue
    RefusedIsFinal
