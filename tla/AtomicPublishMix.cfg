\* Two runs that overlap.
CONSTANTS
    Publishers = {p1, p2}
    N = 3
    Prior = Prior
    Absent = Absent
    PriorSets <- Complete
    Overlap = TRUE
    RestoreFails = FALSE
    MaxCrashes = 0
SPECIFICATION Spec
INVARIANT NoMix
CHECK_DEADLOCK FALSE
