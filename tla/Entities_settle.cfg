\* Leases that are used up, a halt that waits for reports, lanes and claims, with their links.
SPECIFICATION FairEntitiesSpec
CHECK_DEADLOCK FALSE
CONSTANTS
    p0 = p0
    p1 = p1
    p2 = p2
    c1 = c1
    c2 = c2
    NoPeer = NoPeer
    Parts = {"leases", "halt", "fence", "handed"}
    FenceDecisions = 3
    Peers = {p0, p1, p2}
    First = p0
    Founders = {p1}
    ROUTE_LEASE_BLOCK = 3
    ROUTE_LEASE_REFILL_AT = 1
    ReportFits = TRUE
    MaxRoute = 16
    MaxMints = 4
    MaxDiscards = 1
    MaxClaims = 0
    MaxJoins = 1
    MaxMoves = 0
INVARIANTS
    LeasedSpawnAdmitted
PROPERTIES
    LeasesCome
    ControlSettles
