\* Two frames, three batches, a queue and a log of two, one mirror.
CONSTANTS
    f = f
    g = g
    Frames = {f, g}
    Unset = Unset
    Post = Post
    Plans <- SomePlans
    Abroad = {f}
    Chains <- SomeChains
    Mode = "wave"
    Depth = 2
    LogMax = 2
    Clock = 1
    MaxBatches = 3
    MaxMirrors = 1
SPECIFICATION PageSpec
INVARIANT OneDriver
INVARIANT Accounted
INVARIANT PageIsTrue
PROPERTY Served
CHECK_DEADLOCK FALSE
