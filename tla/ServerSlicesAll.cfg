\* Two runs of several agents that share the agents' cache.
SPECIFICATION SlicesSpec
CONSTANTS
    None = None
    N = 2
    Asks <- MCAsks
    Catalog <- MCCatalog
    Presets <- MCPresets
    Chains <- MCChains
    Squads = {"fleet-squad", "review-squad"}
    MaxMishaps = 1
INVARIANTS
    PulseCountsAll
    ReviewIsQueued
    FailureStops
CHECK_DEADLOCK FALSE
