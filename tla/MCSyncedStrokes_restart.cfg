CONSTANTS
    ann = ann
    bob = bob
    s1 = s1
    s2 = s2
    None = None
    NoMap = NoMap
    Clients = {ann}
    Strokes = {s1}
    Initially = {{}, {s1}}
    Creator = ann
    Offset <- SkewedClocks
    MaxEdits <- AnnOnly
    MaxStarts = 2
    RequestsFail = TRUE
SPECIFICATION Spec
INVARIANTS TypeOK EditsAccounted QuietViews
PROPERTY AppliedOncePerRequest
CHECK_DEADLOCK FALSE
