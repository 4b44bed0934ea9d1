\* Several streams: the writer hides, shows and reopens the row, and the reader
\* forgets its images as the property set is declared again.
SPECIFICATION Spec
CONSTANTS
    c1 = c1
    c2 = c2
    v1 = v1
    v2 = v2
    NoImage = NoImage
    Column = {c1}
    Value = {v1, v2}
    DeltaSpan = 1
    StageDepth = 1
    ReceivedDepth = 1
    Heartbeat = TRUE
    MaxRequest = 2
    MaxToken = 2
    MaxRevision = 3
    MaxRows = 1
    MaxFrames = 1
    Disturbance = {"hide", "reopen", "rebind"}
    MaxMoves = 2
SYMMETRY MCSymmetry
CHECK_DEADLOCK FALSE
INVARIANTS
    IInv
    Coherent
    OneTokenPerRequest
    ResetsOnlyTheLost
PROPERTIES
    NeverRevived
