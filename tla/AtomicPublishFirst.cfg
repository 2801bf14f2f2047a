\* The first publish into a tree without the files.
CONSTANTS
    Publishers = {p1}
    N = 3
    Prior = Prior
    Absent = Absent
    PriorSets <- Empty
    Overlap = FALSE
    RestoreFails = FALSE
    MaxCrashes = 0
SPECIFICATION Spec
INVARIANT NoMix
CHECK_DEADLOCK FALSE
