SPECIFICATION Spec
CONSTANTS
    Calls = {c1, c2, c3}
    FailureThreshold = 2
    SuccessThreshold = 2
    RecoveryTimeout = 2
    CountBound = 3
    MaxOperations = 0
PROPERTIES
    ClosesAfterTrial
