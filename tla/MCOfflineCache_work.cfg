CONSTANTS
    d1 = d1
    d2 = d2
    None = None
    Drawings = {d1}
    Targets <- AllTargets
    MaxVisits = 2
    MaxLogins = 2
    Scenarios <- WorkScenarios
SPECIFICATION Spec
INVARIANTS TypeOK OfflineWorkAccounted KeyIsMissedOnlyAfterTrouble SkipsOnlyWhatItHas
PROPERTY UploadsDiscardNothingAnnounced
CHECK_DEADLOCK FALSE
