\* A bare invoke with a key: its refusal is remembered.
CONSTANTS
    Requests = {r1, r2}
    Keys = {k1}
    NoKey = NoKey
    None = None
    Calls <- AllCalls
    Mock = FALSE
    ConfirmationRequired = TRUE
    Window = 2
    MaxTime = 2
    MaxRestarts = 0
    Overlap = FALSE
SPECIFICATION Spec
INVARIANT RefusalNotReplayed
CHECK_DEADLOCK FALSE
