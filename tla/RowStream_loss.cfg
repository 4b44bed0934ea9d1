\* One stream; its rows are lost, duplicated and reordered.
SPECIFICATION Spec
CONSTANTS
    c1 = c1
    c2 = c2
    v1 = v1
    v2 = v2
    NoImage = NoImage
    Column = {c1, c2}
    Value = {v1, v2}
    DeltaSpan = 2
    StageDepth = 2
    ReceivedDepth = 2
    Heartbeat = TRUE
    MaxRequest = 1
    MaxToken = 1
    MaxRevision = 4
    MaxRows = 2
    MaxFrames = 1
    Disturbance = {}
    MaxMoves = 0
SYMMETRY MCSymmetry
CHECK_DEADLOCK FALSE
INVARIANTS
    DecodesExactly
    AckedWasReceived
    BaseIsKept
PROPERTIES
    PositionAdvances
