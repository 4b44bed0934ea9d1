\* Leases while the server moves twice, lanes of four tenures, claims that time out.
SPECIFICATION EntitiesSpec
CHECK_DEADLOCK FALSE
CONSTANTS
    p0 = p0
    p1 = p1
    p2 = p2
    c1 = c1
    c2 = c2
    NoPeer = NoPeer
    Parts = {"leases", "fence", "lanes", "claims", "shown"}
    FenceDecisions = 4
    Peers = {p0, p1, p2}
    First = p0
    Founders = {p1, p2}
    ROUTE_LEASE_BLOCK = 2
    ROUTE_LEASE_REFILL_AT = 1
    ReportFits = TRUE
    MaxRoute = 16
    MaxMints = 2
    MaxDiscards = 0
    MaxClaims = 0
    MaxJoins = 1
    MaxMoves = 2
SYMMETRY Alike
INVARIANTS
    LeasesAreSound
    TenuresAreFenced
    ClaimsAreAnswered
PROPERTIES
    RefinesIds
    ResolvesInCharge
