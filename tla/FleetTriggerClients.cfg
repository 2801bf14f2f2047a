\* Clients that overlap, confirm or not, with or without a key; one restart.
CONSTANTS
    Requests = {r1, r2}
    Keys = {k1}
    NoKey = NoKey
    None = None
    Calls <- MixedCalls
    Mock = FALSE
    ConfirmationRequired = TRUE
    Window = 1
    MaxTime = 1
    MaxRestarts = 1
    Overlap = TRUE
SPECIFICATION FairSpec
INVARIANT GateHolds
INVARIANT OkIsEarned
INVARIANT RefusalNotReplayed
INVARIANT ReplayIsFaithful
PROPERTY RetryIsReplayed
PROPERTY Answered
CHECK_DEADLOCK FALSE
