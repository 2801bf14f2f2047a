\* Two overlapping requests with one key both reach the bridge.
CONSTANTS
    Requests = {r1, r2}
    Keys = {k1}
    NoKey = NoKey
    None = None
    Calls <- KeyedCalls
    Mock = FALSE
    ConfirmationRequired = TRUE
    Window = 2
    MaxTime = 2
    MaxRestarts = 0
    Overlap = TRUE
SPECIFICATION Spec
INVARIANT OnePerWindow
CHECK_DEADLOCK FALSE
