\* A report whose verdict says no-go.
SPECIFICATION Spec
CONSTANTS
    api = api
    voice = voice
    None = None
    Reports <- MCWords
    MaxMishaps = 2
    N = 2
    Options <- MCOptions
    Processes = {api}
    Queries = {"clapart", "hermes", "atlas"}
    Frames = {"open_briefs"}
    Portfolios <- MCPortfolios
    Contexts <- MCContexts
    Profiles = {"advoi"}
    EnvSlug = "hermes"
INVARIANT NoGoIsDenied
CHECK_DEADLOCK FALSE
