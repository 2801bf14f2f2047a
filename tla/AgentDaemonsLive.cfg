\* Refreshing agents, with outages, users and control calls.
CONSTANTS
    Agents = {scout}
    Live = {scout}
    Absent = Absent
    MaxRetries = 1
    MaxChanges = 1
    MaxOutages = 2
    MaxRedis = 1
    MaxControls = 2
    MaxAsks = 1
    MaxBoots = 1
    MaxEvents = 4
SPECIFICATION FairSpec
INVARIANT IssueOpenIffFailing
PROPERTY StopSettles
PROPERTY CachesCatchUp
CHECK_DEADLOCK FALSE
