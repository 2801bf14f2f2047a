\* Exports of the gate report and processes that read it.
SPECIFICATION Spec
CONSTANTS
    api = api
    voice = voice
    None = None
    Reports <- MCReports
    MaxMishaps = 2
    N = 2
    Options <- MCOptions
    Processes = {api}
    Queries = {"clapart", "hermes", "atlas"}
    Frames = {"open_briefs"}
    Portfolios <- MCPortfolios
    Contexts <- MCContexts
    Profiles = {"advoi"}
    EnvSlug = "hermes"
INVARIANTS
    ExportIsKept
    CommitIsTold
    ActivatedIsActive
PROPERTY
    TellingAgrees
CHECK_DEADLOCK FALSE
