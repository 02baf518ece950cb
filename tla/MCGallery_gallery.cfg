CONSTANTS
    Users = {"u1", "u2", "u3"}
    Owner = "u1"
    Sessions = {1, 2}
    Listings = {1}
    Drawings = {"d1", "d2"}
    Appends <- MCAppends
    Tablets = {"t1", "t2"}
    Strokes = {1, 2, 3}
    Scenarios <- MCScenarios
SPECIFICATION Spec
INVARIANTS TypeOK OneMail ListingFailsOnlyOnDeletion DeletedStaysHidden StoryKeepsAppends TabletWorkAccounted
CHECK_DEADLOCK FALSE
