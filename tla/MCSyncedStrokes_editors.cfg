CONSTANTS
    ann = ann
    bob = bob
    s1 = s1
    s2 = s2
    None = None
    NoMap = NoMap
    Clients = {ann, bob}
    Strokes = {s1}
    Initially = {{s1}}
    Creator = ann
    Offset <- SkewedClocks
    MaxEdits <- TwoAndOne
    MaxStarts = 1
    RequestsFail = FALSE
SPECIFICATION Spec
INVARIANT SoleEditorConverges
PROPERTY OwnEditsInOrder
CHECK_DEADLOCK FALSE
