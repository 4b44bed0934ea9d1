\* The row converges: every disturbance but a rebind, no restatement at rest.
SPECIFICATION FairSpec
CONSTANTS
    c1 = c1
    c2 = c2
    v1 = v1
    v2 = v2
    NoImage = NoImage
    Column = {c1}
    Value = {v1, v2}
    DeltaSpan = 1
    StageDepth = 1
    ReceivedDepth = 1
    Heartbeat = FALSE
    MaxRequest = 2
    MaxToken = 3
    MaxRevision = 3
    MaxRows = 1
    MaxFrames = 1
    Disturbance = {"hide", "reopen"}
    MaxMoves = 1
CHECK_DEADLOCK FALSE
PROPERTIES
    Converges
