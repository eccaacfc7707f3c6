\* Three elements, two relations, suggestions of the scan.
SPECIFICATION Spec
CONSTANTS
    x1 = x1
    x2 = x2
    None = None
    Elements = {1, 2, 3}
    Contents <- OneContent
    RelationIds = {1, 2}
    Keys = {"symmetric"}
    Texts = {x1}
    Decisions = {"confirmed_duplicate"}
    Rules = {"scan"}
    MaxVersion = 1
    MaxWork = 4
    MaxReview = 3
INVARIANTS
    RelationsSound
    MergedLeadsOn
CHECK_DEADLOCK FALSE
VIEW Distinct
