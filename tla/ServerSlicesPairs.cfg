\* Frames in pairs: the pulse is in the last pair.
SPECIFICATION SlicesSpec
CONSTANTS
    None = None
    N = 1
    Asks <- MCPairs
    Catalog <- MCCatalog
    Presets <- MCPresets
    Chains <- MCChains
    Squads = {"fleet-squad", "review-squad"}
    MaxMishaps = 1
INVARIANT PulseIsLast
CHECK_DEADLOCK FALSE
