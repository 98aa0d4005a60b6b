SPECIFICATION EngineSpec
CONSTANTS
    NumSteps = 2
    MaxParts = 0
    MaxAttempts = 1
    Workflows <- ToolChains
PROPERTIES
    Termination
