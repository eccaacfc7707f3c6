SPECIFICATION Spec
CONSTANTS
    s1 = s1
    s2 = s2
    s3 = s3
    d1 = d1
    d2 = d2
    c1 = c1
    c2 = c2
    c3 = c3
    None = None
    Saves = {s1, s2, s3}
    Deletions = {d1, d2}
    Contents = {c1, c2, c3}
SYMMETRY Symmetry
INVARIANTS
    ExportSurvives
    StagedIsTold
    NoLostDraft
CHECK_DEADLOCK FALSE
