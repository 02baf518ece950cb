CONSTANTS
    ann = ann
    bob = bob
    s1 = s1
    s2 = s2
    NoOne = NoOne
    None = None
    Clients = {ann, bob}
    Owner = ann
    Strokes = {s1}
    MaxOpens = 1
    Scenarios <- Kicks
SPECIFICATION Spec
PROPERTIES ComesToRest BackLeavesPage
CHECK_DEADLOCK FALSE
