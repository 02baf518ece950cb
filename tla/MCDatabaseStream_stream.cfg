CONSTANTS
    Keys = {"a", "b", "c", "d", "f", "g"}
    Scalars = {"x", "y", "z"}
    Obj = "object"
    Null = "null"
    Scenarios <- MCScenarios
SPECIFICATION Spec
INVARIANTS
    OthersAgree
    AddedChildrenAreTold
    ValueIsTold
    AtMostOneLate
PROPERTIES
    DiesOnlyOfMangling
    FollowsTheNode
    CatchesUp
CHECK_DEADLOCK FALSE
