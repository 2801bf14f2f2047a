\* Runs that follow one another and may die, over any tree.
CONSTANTS
    Publishers = {p1, p2, p3}
    N = 3
    Prior = Prior
    Absent = Absent
    PriorSets <- AnyTree
    Overlap = FALSE
    RestoreFails = FALSE
    MaxCrashes = 2
SPECIFICATION Spec
INVARIANT LastIsOnDisk
PROPERTY FilesStay
CHECK_DEADLOCK FALSE
