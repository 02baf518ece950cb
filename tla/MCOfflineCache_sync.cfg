CONSTANTS
    d1 = d1
    d2 = d2
    None = None
    Drawings = {d1, d2}
    Targets <- AllTargets
    MaxVisits = 2
    MaxLogins = 2
    Scenarios <- SyncScenarios
SPECIFICATION Spec
PROPERTY OfflineCopyCatchesUp
CHECK_DEADLOCK FALSE
