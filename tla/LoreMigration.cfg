\* Two worldviews, rehearsals, two requests with two keys, four changes of decisions, one failure.
SPECIFICATION RehearsalSpec
CONSTANTS
    k1 = k1
    k2 = k2
    t1 = t1
    t2 = t2
    None = None
    Requests = {t1, t2}
    Keys = {k1, k2}
    Worldviews = {"twins", "plain"}
    Items <- TwoWorldviews
    Types = {"character", "location"}
    FieldsOf <- TypeFields
    MaxChanges = 4
    MaxFailures = 1
INVARIANTS
    StillResumable
    UpgradedAsConfirmed
    TwinsWereJudged
    AnswersTrue
    LegacyIsClean
PROPERTIES
    NoWayBack
SYMMETRY Symmetry
VIEW Distinct
