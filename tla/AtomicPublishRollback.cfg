\* A backup that cannot be renamed back.
CONSTANTS
    Publishers = {p1}
    N = 3
    Prior = Prior
    Absent = Absent
    PriorSets <- Complete
    Overlap = FALSE
    RestoreFails = TRUE
    MaxCrashes = 0
SPECIFICATION Spec
INVARIANT LastIsOnDisk
CHECK_DEADLOCK FALSE
