CONSTANTS
    ann = ann
    bob = bob
    s1 = s1
    s2 = s2
    None = None
    NoMap = NoMap
    Clients = {ann}
    Strokes = {s1, s2}
    Initially = {{s2}}
    Creator = ann
    Offset <- SameClocks
    MaxEdits <- AnnOnly
    MaxStarts = 1
    RequestsFail = FALSE
SPECIFICATION Spec
INVARIANT MergedListIsMostRecent
CHECK_DEADLOCK FALSE
