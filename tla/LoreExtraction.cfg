SPECIFICATION Spec
CONSTANTS
    p1 = p1
    p2 = p2
    k1 = k1
    k2 = k2
    d1 = d1
    d2 = d2
    w1 = w1
    w2 = w2
    n1 = n1
    e1 = e1
    Nothing = Nothing
    Posters = {p1, p2}
    Keys = {k1}
    Docs = {d1, d2}
    Reviewers = {w1, w2}
    Replies <- TwoReplies
    Edits <- TwoEdits
    OldElements <- OneElement
    MaxItems = 2
    MaxRevision = 2
INVARIANTS
    OneCallPerKey
    DecisionsWhole
    AcceptedAsJudged
SYMMETRY Symmetry
CHECK_DEADLOCK FALSE
