\* Two families share a key and two keys a basis of one; queues, echoes, gates and commands.
SPECIFICATION WireSpec
CHECK_DEADLOCK FALSE
CONSTANTS
    l1 = l1
    l2 = l2
    l3 = l3
    k1 = k1
    k2 = k2
    k3 = k3
    f1 = f1
    v1 = v1
    v2 = v2
    a = a
    b = b
    r = r
    q = q
    Unresolved = Unresolved
    Lane = {l1, l2, l3}
    CheckOf <- CollidingCheck
    Field = {f1}
    Parts = {"bases", "queue", "echoes", "wraps", "shared", "lane"}
    Key = {k1, k2}
    KeyOf <- SharedKeyOf
    Value = {v1, v2}
    Capacity = 1
    MaxRequest = 3
    MaxFrames = 2
    MaxRepeats = 1
    MaxMoves = 1
    MaxRefusals = 1
    QueueRequests = 2
    QueueTokens = 3
    QueueMoves = 2
    LaneCommands = 4
    LaneFlight = 2
SYMMETRY Alike
INVARIANTS
    BasesAgree
    OneRequestPerToken
    EchoesAreTrue
    CommandsAreTrue
PROPERTIES
    GateIsTrue
