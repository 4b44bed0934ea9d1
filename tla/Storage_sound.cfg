\* Databases whose callbacks open, close and flush; files that crashes and faults interrupt;
\* records that go from one node to the next.
SPECIFICATION StorageSpec
CHECK_DEADLOCK FALSE
CONSTANTS
    r1 = r1
    r2 = r2
    slotA = slotA
    slotB = slotB
    v1 = v1
    v2 = v2
    v3 = v3
    binary = binary
    text = text
    Absent = Absent
    Torn = Torn
    Parts = {"database", "quick", "crashing", "switching", "failing", "handed", "refused", "doubted", "blind"}
    QuickOps = 3
    Records = {r1, r2}
    Slots = {slotA, slotB}
    Works <- Singles
    QueueLimit = 3
    Prompt = FALSE
    AnswerCalls = {"submit", "flush", "open", "close"}
    FlushCalls = {"submit", "flush", "open"}
    Reopens = FALSE
    Ends = TRUE
    MaxOps = 3
    MaxOpens = 2
    MaxFlushes = 1
    MaxCloses = 1
SYMMETRY Alike
INVARIANTS
    OperationsAreOrdered
    ConnectionsAreSound
    ReadsLastWritten
    CleanIsTrue
PROPERTIES
    KeepsUntilRename
    RowsAreKept
