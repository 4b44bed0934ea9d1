\* Every lane has a key of its own; one disturbance of the queue.
SPECIFICATION FairWireSpec
CHECK_DEADLOCK FALSE
CONSTANTS
    l1 = l1
    l2 = l2
    l3 = l3
    k1 = k1
    k2 = k2
    k3 = k3
    f1 = f1
    v1 = v1
    v2 = v2
    a = a
    b = b
    r = r
    q = q
    Unresolved = Unresolved
    Lane = {l1, l2, l3}
    CheckOf <- CollidingCheck
    Field = {f1}
    Parts = {"bases", "queue", "lane"}
    Key = {k1, k2, k3}
    KeyOf <- OwnKeyOf
    Value = {v1}
    Capacity = 2
    MaxRequest = 6
    MaxFrames = 1
    MaxRepeats = 1
    MaxMoves = 0
    MaxRefusals = 1
    QueueRequests = 3
    QueueTokens = 4
    QueueMoves = 1
    LaneCommands = 4
    LaneFlight = 1
PROPERTIES
    StreamsSettle
