SPECIFICATION Spec
CONSTANTS
    p1 = p1
    w1 = w1
    w2 = w2
    d1 = d1
    e1 = e1
    Nothing = Nothing
    Processes = {p1}
    Workers = {w1, w2}
    Home <- OneProcess
    Last = 2
    Total = 2
    Totals = {1}
    Drafts = {d1}
    Edits = {e1}
    Regenerates = {"single"}
    SavesWorldview = TRUE
    Fails = TRUE
SYMMETRY Symmetry
INVARIANTS
    CompletedAsPlanned
    ActiveIsOneStream
PROPERTIES
    LastSaveCompletes
