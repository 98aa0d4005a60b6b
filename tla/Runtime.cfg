SPECIFICATION RuntimeSpec
CONSTANTS
    t1 = t1
    t2 = t2
    w1 = w1
    w2 = w2
    w3 = w3
    Tasks = {t1, t2}
    Workers = {w1, w2}
    MaxWorkers = 2
    MaxRetries <- MCMaxRetries
    NoTask = NoTask
    SyncTasks <- MCSyncTasks
    KeywordTasks = {}
    MaxStops = 1
    MaxExecutions = 3
    Users = {u1, u2}
    Limits = {1, 2}
    Limit = 2
    Window = 3
    Minute = 2
    Costs = {1, 2}
    MaxTime = 5
    RateLimitRequests = 1
    Requests = {r1, r2}
    MaxWindows = 1
INVARIANTS
    TypesOK
    SingleHolder
    TasksAreKept
    RetryBudget
    ExecutionsAccounted
    LimitsHold
PROPERTIES
    OutcomeSticks
    WorkSettles
    NotStarved
CHECK_DEADLOCK FALSE
