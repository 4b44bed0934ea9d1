\* Deferred calls, requests, waits, joins and links all end, whatever the peers and the game do.
SPECIFICATION FairPromisesSpec
CONSTANTS
    p1 = p1
    p2 = p2
    key1 = key1
    key2 = key2
    NoPeer = NoPeer
    NoKey = NoKey
    Parts = {"deferred", "requests", "chain", "joins", "rejoins"}
    Peers = {p1, p2}
    MaxTxns = 2
    MaxMoves = 1
    MaxDepth = 2
    Keys = {key1}
    MaxAsks = 4
    Routes = {1, 2}
    Slow = {1, 2}
    MaxShows = 3
    Tickets = 2
    Habits <- RetryingGame
    MaxGameCalls = 3
    Halts = {TRUE, FALSE}
    MaxDials = 2
CHECK_DEADLOCK FALSE
PROPERTIES
    EveryPromiseSettles
