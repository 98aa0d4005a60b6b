SPECIFICATION ToolSpec
CONSTANTS
    Calls = {c1, c2}
    FailureThreshold = 2
    SuccessThreshold = 2
    RecoveryTimeout = 1
    CountBound = 2
    MaxOperations = 1
    Endpoints = 2
    Attempts = 2
INVARIANTS
    FailureIsReported
