CONSTANTS
    Conns = {c1, c2, c3}
    NoConn = noconn
    MaxClients = 2
    Params = {p, q}
    BypassParams = {}
    Forms = {"long", "short"}
    CoalesceCap = 1
    FifoCap = 1
    MaxItemsPerTick = 2
    DropLogEvery = 2
    MaxPushes = 4
    Trackers = {k1, k2}
    TrackerCap = 1
    MaxPerTick = 1
    MaxSamples = 2
    Targets = {t1, t2}
    Broadcast = all
    Keys = {p, q}
    Intervals = {1, 2}
    FirstInterval = 1
    MaxInterval = 2
    MaxQueued = 2
SPECIFICATION MCSpec
INVARIANTS TypeOK HandlersOwned LatestSurvives
PROPERTIES RateHeld SlotsReclaimed
