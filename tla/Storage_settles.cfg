\* One slot; every open, operation, flush and close is answered; every row is stored.
SPECIFICATION FairStorageSpec
CHECK_DEADLOCK FALSE
CONSTANTS
    r1 = r1
    r2 = r2
    slotA = slotA
    slotB = slotB
    v1 = v1
    v2 = v2
    v3 = v3
    binary = binary
    text = text
    Absent = Absent
    Torn = Torn
    Parts = {"database", "settling"}
    QuickOps = 1
    Records = {r1, r2}
    Slots = {slotA}
    Works <- Mixed
    QueueLimit = 3
    Prompt = FALSE
    AnswerCalls = {"submit", "flush", "open"}
    FlushCalls = {}
    Reopens = FALSE
    Ends = FALSE
    MaxOps = 3
    MaxOpens = 1
    MaxFlushes = 1
    MaxCloses = 1
PROPERTIES
    EverythingSettles
