\* Two callers, four calls of any kind, one outage of Postgres or Redis.
CONSTANTS
    Calls = {c1, c2}
    None = None
    PelMemory = FALSE
    Ops <- AllOps
    Limit = 2
    MaxOps = 4
    MaxOutages = 1
SPECIFICATION Spec
SYMMETRY CallSymmetry
INVARIANT SchemaIsSound
INVARIANT MirroredOnce
INVARIANT HandedOnce
INVARIANT StaleIsExcused
CHECK_DEADLOCK FALSE
