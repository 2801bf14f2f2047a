\* Retains and a recall of two processes over failing backends.
SPECIFICATION Spec
CONSTANTS
    c1 = c1
    c2 = c2
    c3 = c3
    r1 = r1
    api = api
    voice = voice
    None = None
    Calls <- MCCalls
    Recalls <- MCRecalls
    Processes <- MCProcesses
    Home <- MCHome
    Inputs <- MCInputs
    Queries <- MCQueries
    Envs <- MCEnvs
    MaxTurns = 1
    Limit = 2
    MaxFaults = 1
    MaxDeaths = 1
SYMMETRY MCSymmetry
INVARIANTS
    YesIsKept
    NeverBacklog
    WindowKept
    RecallIsComplete
    FailuresCounted
CHECK_DEADLOCK FALSE
