\* Deferred calls, requests, waits, joins and links, each with all its interleavings.
SPECIFICATION PromisesSpec
CONSTANTS
    p1 = p1
    p2 = p2
    key1 = key1
    key2 = key2
    NoPeer = NoPeer
    NoKey = NoKey
    Parts = {"deferred", "ordered", "requests", "chain", "parked", "joins", "admits", "rejoins"}
    Peers = {p1, p2}
    MaxTxns = 2
    MaxMoves = 3
    MaxDepth = 2
    Keys = {key1, key2}
    MaxAsks = 5
    Routes = {1, 2, 3}
    Slow = {1}
    MaxShows = 4
    Tickets = 2
    Habits <- WholeGame
    MaxGameCalls = 4
    Halts = {FALSE}
    MaxDials = 3
SYMMETRY Alike
CHECK_DEADLOCK FALSE
INVARIANTS
    CallsAreKept
    RequestsAreKept
    WaitersAreKept
    AttemptsAreWhole
    AdmissionsAreSound
PROPERTIES
    SettlesOnce
    CalledWhileLive
    JoinsResolveTrue
