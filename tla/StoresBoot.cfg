\* Two callers, four calls of any kind, no outage: does every boot that succeeds leave the database migrated?
CONSTANTS
    Calls = {c1, c2}
    None = None
    PelMemory = FALSE
    Ops <- AllOps
    Limit = 2
    MaxOps = 4
    MaxOutages = 0
SPECIFICATION Spec
PROPERTY BootMigrates
CHECK_DEADLOCK FALSE
