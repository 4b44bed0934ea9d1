\* A script of the new server claims a route that a client holds leased.
SPECIFICATION EntitiesSpec
CHECK_DEADLOCK FALSE
CONSTANTS
    p0 = p0
    p1 = p1
    p2 = p2
    c1 = c1
    c2 = c2
    NoPeer = NoPeer
    Parts = {"leases"}
    FenceDecisions = 1
    Peers = {p0, p1, p2}
    First = p0
    Founders = {p1, p2}
    ROUTE_LEASE_BLOCK = 2
    ROUTE_LEASE_REFILL_AT = 1
    ReportFits = TRUE
    MaxRoute = 24
    MaxMints = 0
    MaxDiscards = 0
    MaxClaims = 1
    MaxJoins = 0
    MaxMoves = 1
INVARIANTS
    RoutesStayDistinct
