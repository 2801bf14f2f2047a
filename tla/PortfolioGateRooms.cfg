\* The API and the voice agent, each with its own override.
SPECIFICATION Spec
CONSTANTS
    api = api
    voice = voice
    None = None
    Reports <- MCReports
    MaxMishaps = 2
    N = 0
    Options <- MCOptions
    Processes = {api, voice}
    Queries = {"clapart", "hermes", "atlas"}
    Frames = {"open_briefs"}
    Portfolios <- MCPortfolios
    Contexts <- MCContexts
    Profiles = {"advoi"}
    EnvSlug = "hermes"
INVARIANT OneProject
CHECK_DEADLOCK FALSE
