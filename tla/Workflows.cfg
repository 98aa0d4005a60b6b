SPECIFICATION WorkflowsSpec
CONSTANTS
    NumSteps = 3
    MaxParts = 2
    MaxAttempts = 2
    Workflows <- GraphsAndKinds
    i1 = i1
    i2 = i2
    c1 = c1
    c2 = c2
    WorkflowIds = {i1, i2}
    Versions = {1, 2}
    Clients = {c1, c2}
    MaxExecutions = 2
    MaxRestarts = 1
    StepIds = {1, 2, 3, 4}
    Definitions <- SmallDefinitions
INVARIANTS
    TypeOK
    DependenciesFirst
    NoOrphans
    VerdictIsHonest
    WorkIsAccounted
    RegistrationIsExact
    ReportsAreHonest
PROPERTIES
    EndedIsFinal
    KeepsPromise
    ExecutionsEnd
    AnswersHold
