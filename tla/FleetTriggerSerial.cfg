\* Clients that wait for an answer before they send the key again.
CONSTANTS
    Requests = {r1, r2, r3}
    Keys = {k1}
    NoKey = NoKey
    None = None
    Calls <- KeyedCalls
    Mock = FALSE
    ConfirmationRequired = TRUE
    Window = 2
    MaxTime = 3
    MaxRestarts = 0
    Overlap = FALSE
SPECIFICATION Spec
INVARIANT OnePerWindow
PROPERTY ImplementsKeyedOnce
CHECK_DEADLOCK FALSE
