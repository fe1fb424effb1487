CONSTANTS
    Conns = {c1}
    NoConn = noconn
    MaxClients = 1
    Params = {p}
    BypassParams = {}
    Forms = {"long", "short"}
    CoalesceCap = 1
    FifoCap = 1
    MaxItemsPerTick = 2
    DropLogEvery = 2
    MaxPushes = 1
    Trackers = {k1}
    TrackerCap = 1
    MaxPerTick = 1
    MaxSamples = 2
    Targets = {t1}
    Broadcast = all
    Keys = {p}
    Intervals = {1, 2}
    FirstInterval = 1
    MaxInterval = 2
    MaxQueued = 2
SPECIFICATION MCSpec
INVARIANT ConnectionsClosed
