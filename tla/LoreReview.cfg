\* Two elements, one relation, the suggestions of the author, contents that change and come back.
SPECIFICATION Spec
CONSTANTS
    x1 = x1
    x2 = x2
    None = None
    Elements = {1, 2}
    Contents <- SameName
    RelationIds = {1}
    Keys = {"directed"}
    Texts = {x1, x2}
    Decisions = {"confirmed_duplicate"}
    Rules = {"manual"}
    MaxVersion = 3
    MaxWork = 4
    MaxReview = 4
PROPERTIES
    MergedAsJudged
CHECK_DEADLOCK FALSE
VIEW Distinct
