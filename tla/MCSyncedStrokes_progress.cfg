CONSTANTS
    ann = ann
    bob = bob
    s1 = s1
    s2 = s2
    None = None
    NoMap = NoMap
    Clients = {ann}
    Strokes = {s1}
    Initially = {{s1}}
    Creator = ann
    Offset <- SkewedClocks
    MaxEdits <- OneEach
    MaxStarts = 2
    RequestsFail = TRUE
SPECIFICATION FairSpec
PROPERTIES UpdatesAreTaken ComesToRest
CHECK_DEADLOCK FALSE
