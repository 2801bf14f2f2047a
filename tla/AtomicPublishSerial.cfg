\* Runs that follow one another over a complete tree.
CONSTANTS
    Publishers = {p1, p2, p3}
    N = 3
    Prior = Prior
    Absent = Absent
    PriorSets <- Complete
    Overlap = FALSE
    RestoreFails = FALSE
    MaxCrashes = 0
SPECIFICATION Spec
PROPERTY ImplementsAllOrNothing
CHECK_DEADLOCK FALSE
