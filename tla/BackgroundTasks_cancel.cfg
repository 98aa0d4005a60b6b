SPECIFICATION Spec
CONSTANTS
    Tasks = {t1, t2}
    Workers = {w1}
    MaxWorkers = 1
    MaxRetries <- ByDefault
    NoTask = NoTask
    SyncTasks = {t2}
    KeywordTasks = {}
    MaxStops = 0
CHECK_DEADLOCK FALSE
INVARIANTS
    CancelledStaysCancelled
