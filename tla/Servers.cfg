SPECIFICATION ServersSpec
CONSTANTS
    c1 = c1
    c2 = c2
    c3 = c3
    Calls = {c1, c2, c3}
    Callers = {c1, c2}
    FailureThreshold = 2
    SuccessThreshold = 2
    RecoveryTimeout = 1
    CountBound = 2
    MaxOperations = 1
    Endpoints = 2
    Attempts = 2
    Ids = {i1, i2}
    FailoverThreshold = 2
    RecoveryThreshold = 2
    MaxAdds = 2
    Choices = {1, 2, 3}
    Weight <- Weights
    Cycle = 12
    Virtual = {1, 2}
    Hashes = {0, 1}
    Counts = {0, 1}
    Services = {s1, s2}
    MaxCalls = 3
INVARIANTS
    AllTypesOK
    ChoicesAreSound
PROPERTIES
    TransitionsAreEarned
    ChangesAreEarned
    OpenRejects
    BothKeepPromise
    BothRecover
    CallsAreDone
    HealthIsFound
