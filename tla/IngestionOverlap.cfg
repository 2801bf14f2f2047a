\* Two overlapping dispatches of one item, both modes, one crash.
CONSTANTS
    Items = {i1}
    Routes = {ra, rb}
    Dispatches = {d1, d2}
    Modes = {"work", "start_development"}
    Absent = Absent
    ConfirmationRequired = TRUE
    MaxCrashes = 1
    Overlap = TRUE
SPECIFICATION Spec
INVARIANT NoFleetUnapproved
INVARIANT OkIsDurable
INVARIANT DispatchIsEarned
PROPERTY NothingMovesBack
CHECK_DEADLOCK FALSE
