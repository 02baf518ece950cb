CONSTANTS
    ann = ann
    bob = bob
    s1 = s1
    s2 = s2
    NoOne = NoOne
    None = None
    Clients = {ann}
    Owner = ann
    Strokes = {s1, s2}
    MaxOpens = 1
    Scenarios <- Twice
SPECIFICATION Spec
INVARIANT PreviousSelectionReleased
CHECK_DEADLOCK FALSE
