\* Two parts and two chapters, one thread of two plan items.
CONSTANTS
    Parts = {p1, p2}
    Chapters = {c1, c2}
    Threads = {t1}
    None = None
    MaxPosition = 5
    MaxItems = 2
    MaxAssigned = 1
SPECIFICATION Spec
SYMMETRY Symmetric
VIEW ActivePositions
INVARIANTS
    StructureWhole
    PointersLive
    StoryOrder
CHECK_DEADLOCK FALSE
