SPECIFICATION Spec
CONSTANTS
    Subscribers = {s1}
    Filters <- MCFilters
    MaxQueueDepth = 2
    MaxPublished = 7
    Workers = {w1, w2}
    QueueDepth = 2
    ArgvMax = 6
    LogKeep = 2
    RawHooks <- MCRawHooks
    Payloads <- MCPayloads
    MaxFires = 2
    Conns = {c1, c2}
    MaxWorkers = 2
    ChanCap = 2
    MaxPerConn = 2
    Requests <- MCRequests
    Sessions <- MCSessions
    Found <- MCFound
    PersistAll = TRUE
    MaxTabs = 3
    MaxRows = 2
    MaxSaves = 2
    Daemons = {"d1", "d2"}
    Names = {"a", "b"}
    Asked <- MCAsked
    Peers = {"p1", "p2", "p3"}
    MaxPending = 2
    Limit = 1
    MaxMessages = 3
INVARIANTS
    LossesAccounted DrainedMeansRun AnswersAreTrue
    PathHoldsWhole RestoresSession ReachableUnlessRaced
PROPERTIES PoolWindsDown DoorAnswers ClientEnds
CHECK_DEADLOCK FALSE
