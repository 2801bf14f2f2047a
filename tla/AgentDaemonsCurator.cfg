\* An agent whose daemon does not ask for a refresh.
CONSTANTS
    Agents = {curator}
    Live <- None
    Absent = Absent
    MaxRetries = 1
    MaxChanges = 1
    MaxOutages = 0
    MaxRedis = 0
    MaxControls = 0
    MaxAsks = 0
    MaxBoots = 0
    MaxEvents = 1
SPECIFICATION FairSpec
PROPERTY CachesCatchUp
CHECK_DEADLOCK FALSE
