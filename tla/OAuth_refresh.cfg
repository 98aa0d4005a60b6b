SPECIFICATION Spec
CONSTANTS
    Flows = {f1, f2}
    Callbacks = {c1, c2}
    MaxGrants = 3
    MaxCrashes = 1
PROPERTIES
    RefreshIsStored
CHECK_DEADLOCK FALSE
