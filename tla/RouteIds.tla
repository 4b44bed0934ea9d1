------------------------------ MODULE RouteIds ------------------------------
(* What the session promises about routes (extension/WIRE.md, ROUTE_LEASE): a route  *)
(* that one peer may mint is minted by no other, and a route some member holds  *)
(* is not given out or minted again.  RouteLease implements it.                 *)
EXTENDS Integers

CONSTANTS Routes, Peers, NoPeer

NoPeerAssumption == NoPeer \notin Peers
Assumptions == NoPeerAssumption

VARIABLES
    owner,          \* the client that may mint a route
    used            \* the routes some member holds
vars == <<owner, used>>

TypeOK == owner \in [Routes -> Peers \cup {NoPeer}] /\ used \subseteq Routes

Free(r) == owner[r] = NoPeer /\ r \notin used

(* The first clients may own routes already.                                    *)
Init == owner \in [Routes -> Peers \cup {NoPeer}] /\ used = {}

(* Free routes are given to clients.  Members may go in the same step: what only *)
(* they held or could mint is free again, for others to be given.               *)
Give == \E gone \in SUBSET Peers :
            /\ used' \in SUBSET used
            /\ owner' \in [Routes -> Peers \cup {NoPeer}]
            /\ \A r \in Routes :
                  \/ owner'[r] = NoPeer
                  \/ owner'[r] = owner[r] /\ owner[r] \notin gone
                  \/ owner[r] \in gone \cup {NoPeer} /\ owner'[r] \notin gone /\ r \notin used'

(* A client mints a route it was given.                                         *)
Mint == \E r \in Routes :
            /\ owner[r] # NoPeer
            /\ owner' = [owner EXCEPT ![r] = NoPeer]
            /\ used' = used \cup {r}

(* The authority mints a route that is free.                                    *)
MintFresh == \E r \in Routes : Free(r) /\ used' = used \cup {r} /\ UNCHANGED owner

Next == Give \/ Mint \/ MintFresh

Spec == Init /\ [][Next]_vars
=============================================================================
