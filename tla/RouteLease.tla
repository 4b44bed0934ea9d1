----------------------------- MODULE RouteLease -----------------------------
(* Routes name entities on every peer.  The server mints them from one counter  *)
(* and leases blocks to the clients (liveness_core.cpp), tops a lease up as the  *)
(* spawns of a client are admitted (api/session/entity.cpp, spawn/pipeline.cpp), *)
(* and when the server moves, the successor learns from the reports of the       *)
(* others what it must not mint again (api/session/transfer.cpp).  Peers keep    *)
(* their identity here; the code renames them as the server moves.               *)
EXTENDS Integers, Sequences, FiniteSets, SequencesExt

CONSTANTS
    Peers, NoPeer,
    First,          \* the peer that serves first
    Founders,       \* its clients at the start
    ROUTE_LEASE_BLOCK, ROUTE_LEASE_REFILL_AT,
    ReportFits,     \* a report goes out in one poll, or its last frame in a later one
    MaxRoute,       \* the routes the refinement speaks of
    MaxMints,       \* bound: routes minted for spawns
    MaxDiscards,    \* bound: bodies freed before their spawn is sent
    MaxClaims,      \* bound: liveness_claim_routes while the reports are awaited
    MaxJoins,       \* bound: joins
    MaxMoves        \* bound: moves of the server

PeersAssumption == /\ IsFiniteSet(Peers) /\ NoPeer \notin Peers
                   /\ First \in Peers /\ Founders \subseteq Peers \ {First}
                   /\ ReportFits \in BOOLEAN
BlockAssumption == /\ ROUTE_LEASE_BLOCK \in Nat \ {0}
                   /\ ROUTE_LEASE_REFILL_AT \in 0 .. ROUTE_LEASE_BLOCK - 1
BoundsAssumption ==
    {MaxRoute, MaxMints, MaxDiscards, MaxClaims, MaxJoins, MaxMoves} \subseteq Nat
Assumptions == PeersAssumption /\ BlockAssumption /\ BoundsAssumption

VARIABLES
    server,         \* the peer that holds server authority
    members,
    counter,        \* NetwLivenessCore::route_counter of each peer
    minted_high,
    lease,          \* NetwLivenessCore::lease: the blocks a client mints from
    by_route,       \* the routes each peer has bound
    grants,         \* NetwLivenessCore::grants of the server, by peer
    halted,         \* resync_holds_halt: the reports of the members are awaited
    awaited,        \* resync_awaited
    halt_leases, halt_joins,
    armed,          \* routes minted for bodies whose spawn is still to be sent
    outbox,         \* resync_outbox
    to_server,      \* what a client sent the server
    to_client,      \* the leases the server sent a client
    spent           \* how much of every bound is used
vars == <<server, members, counter, minted_high, lease, by_route, grants, halted, awaited,
          halt_leases, halt_joins, armed, outbox, to_server, to_client, spent>>

halt == <<halted, awaited, halt_leases, halt_joins>>
links == <<outbox, to_server, to_client>>

Routes == 1 .. MaxRoute
Clients == members \ {server}
Blocks == [next : Nat \ {0}, end : Nat \ {0}]
SpanOf(b) == b.next .. b.end - 1
Spans(bs) == UNION {SpanOf(bs[n]) : n \in DOMAIN bs}

Spend(what, most) == spent[what] < most /\ spent' = [spent EXCEPT ![what] = @ + 1]

-----------------------------------------------------------------------------
(* NetwLivenessCore.                                                            *)

Block(base, count) == [next |-> base, end |-> base + count]
lease_remaining(bs) == Cardinality(Spans(bs))
granted_remaining(bs) == Cardinality(Spans(bs))

(* A lease is used from its first block on, so no other block of it is used up.  *)
lease_spans(bs) == IF bs # <<>> /\ Head(bs).next = Head(bs).end THEN Tail(bs) ELSE bs

\* Mutant of route_floor: the unused end of the lease is left out.
route_floorMinted(p) == Max({counter[p], minted_high[p]} \cup by_route[p])

route_floor(p) ==
    Max({counter[p], minted_high[p]} \cup by_route[p] \cup {lease[p][n].end - 1 : n \in DOMAIN lease[p]})

Holding(bs, r) == {n \in DOMAIN bs : r \in SpanOf(bs[n])}
lease_holds(bs, r) == Holding(bs, r) # {}

\* Mutant of spend_lease: the later blocks of the peer are dropped with the earlier ones.
spend_leaseAll(bs, r) == <<>>

(* The route is taken from the block that holds it; what the peer skipped in     *)
(* that block and in its earlier ones is burnt.                                  *)
spend_lease(bs, r) ==
    LET found == Min(Holding(bs, r))
        later == SubSeq(bs, found + 1, Len(bs))
    IN  IF bs[found].end = r + 1 THEN later ELSE <<[bs[found] EXCEPT !.next = r + 1]>> \o later

Reset(f, gone, empty) == [p \in Peers |-> IF p \in gone THEN empty ELSE f[p]]

abandon_lease(gs, gone) == Reset(gs, gone, <<>>)

-----------------------------------------------------------------------------
(* What a handler of the server leaves behind: the members that stay, the leases     *)
(* granted to ps, one after another in some order, on top of the counters c and the  *)
(* grants gs, and the links of who went are empty.                                   *)

liveness_grant_leases(c, gs, out, ps) ==
    \E turn \in Bijection(ps, 1 .. Cardinality(ps)) :
        LET base(p) == c[server] + 1 + (turn[p] - 1) * ROUTE_LEASE_BLOCK
            Given(f) == [p \in Peers |->
                IF p \in ps THEN Append(f[p], Block(base(p), ROUTE_LEASE_BLOCK)) ELSE f[p]]
        IN /\ counter' = [c EXCEPT ![server] = @ + Cardinality(ps) * ROUTE_LEASE_BLOCK]
           /\ grants' = Given(gs)
           /\ to_client' = Given(out)

(* structure_halt_leave and halt_release: the leases that were asked for during the *)
(* halt and those of the joins.                                                     *)
halt_release(c, gs, out, stay) ==
    /\ halted' = FALSE /\ halt_leases' = {} /\ halt_joins' = {}
    /\ members' = stay \cup halt_joins
    /\ liveness_grant_leases(c, gs, out, (halt_leases \cap stay) \cup halt_joins)

(* The halt goes on without those that left.                                        *)
halt_forget_peers(c, gs, out, stay) ==
    /\ halt_leases' = halt_leases \cap stay
    /\ members' = stay
    /\ UNCHANGED <<halted, halt_joins>>
    /\ counter' = c /\ grants' = gs /\ to_client' = out

\* Mutant of settle_resync: the halt ends with the first report.
settle_resyncEarly(c, gs, out, stay, left) ==
    /\ awaited' = left
    /\ IF halted THEN halt_release(c, gs, out, stay) ELSE halt_forget_peers(c, gs, out, stay)

\* Mutant of settle_resync: a departure that leaves nobody to wait for goes unnoticed.
settle_resyncOnReport(c, gs, out, stay, left) ==
    /\ awaited' = left
    /\ IF halted /\ left = {} /\ stay = members
       THEN halt_release(c, gs, out, stay) ELSE halt_forget_peers(c, gs, out, stay)

(* transfer_settle_resync when "left" is what is still awaited.                      *)
settle_resync(c, gs, out, stay, left) ==
    /\ awaited' = left
    /\ IF halted /\ left = {}
       THEN halt_release(c, gs, out, stay) ELSE halt_forget_peers(c, gs, out, stay)

-----------------------------------------------------------------------------
(* Every peer S learns the route r; the others of the session may never see it.      *)
Learn(S, r) == by_route' = [p \in Peers |-> IF p \in S THEN by_route[p] \cup {r} ELSE by_route[p]]

(* The server spawns, or wraps a node of its scene (reserve_route, not leased).       *)
ServerMints ==
    /\ ~halted      \* asked by the rule of the spawn; reserve_route itself does not ask
    /\ Spend("mints", MaxMints)
    /\ counter' = [counter EXCEPT ![server] = @ + 1]
    /\ \E S \in SUBSET Clients : Learn({server} \cup S, counter[server] + 1)
    /\ UNCHANGED <<server, members, minted_high, lease, grants, halt, armed, links>>

(* liveness_claim_routes asks for server authority and not for the halt.              *)
ClaimRoutes ==
    /\ halted
    /\ Spend("claims", MaxClaims)
    /\ counter' = [counter EXCEPT ![server] = @ + 1]
    /\ Learn({server}, counter[server] + 1)
    /\ UNCHANGED <<server, members, minted_high, lease, grants, halt, armed, links>>

(* A client spawns: the lease must have routes left (spawn/pipeline.cpp), and the      *)
(* route is the next of its first block (reserve_route, leased).                       *)
ClientMints(p) ==
    /\ p \in Clients
    /\ lease_remaining(lease[p]) > 0
    /\ Spend("mints", MaxMints)
    /\ LET left == lease_spans(lease[p])
           r == Head(left).next
       IN /\ lease' = [lease EXCEPT ![p] = [left EXCEPT ![1].next = r + 1]]
          /\ minted_high' = [minted_high EXCEPT ![p] = Max({@, r})]
          /\ armed' = [armed EXCEPT ![p] = Append(@, r)]
          /\ Learn({p}, r)
    /\ UNCHANGED <<server, members, counter, grants, halt, links>>

(* flush_armed_spawn: a client sends the spawn (send_authored_spawn); a peer that       *)
(* became the server meanwhile issues it.                                               *)
FlushArmed(p) ==
    /\ p \in members /\ armed[p] # <<>>
    /\ armed' = [armed EXCEPT ![p] = Tail(@)]
    /\ IF p = server
       THEN (\E S \in SUBSET Clients : Learn(S, Head(armed[p]))) /\ UNCHANGED to_server
       ELSE /\ to_server' = [to_server EXCEPT ![p] = Append(@, [kind |-> "spawn", route |-> Head(armed[p])])]
            /\ UNCHANGED by_route
    /\ UNCHANGED <<server, members, counter, minted_high, lease, grants, halt, outbox, to_client, spent>>

(* The body is freed or taken out of the tree before its spawn is sent.                 *)
DiscardArmed(p) ==
    /\ p \in members /\ armed[p] # <<>>
    /\ Spend("discards", MaxDiscards)
    /\ armed' = [armed EXCEPT ![p] = Tail(@)]
    /\ UNCHANGED <<server, members, counter, minted_high, lease, by_route, grants, halt, links>>

-----------------------------------------------------------------------------
(* The server takes what a client sent.                                                 *)

Received(p, kind) == p \in Clients /\ to_server[p] # <<>> /\ Head(to_server[p]).kind = kind
Consumed(p) == to_server' = [to_server EXCEPT ![p] = Tail(@)]

\* Mutant of Refill: only when exactly the threshold is left.
RefillAt(bs) == granted_remaining(bs) = ROUTE_LEASE_REFILL_AT

Refill(bs) == granted_remaining(bs) <= ROUTE_LEASE_REFILL_AT

(* admit_controller_spawn, liveness_spend_lease: the other peers learn of the spawn.     *)
AdmitSpawn(p) ==
    LET r == Head(to_server[p]).route
        left == spend_lease(grants[p], r)
        asks == IF Refill(left) THEN {p} ELSE {}
    IN
    /\ Received(p, "spawn") /\ lease_holds(grants[p], r)
    /\ Consumed(p)
    /\ \E S \in SUBSET (Clients \ {p}) : Learn({server} \cup S, r)
    /\ halt_leases' = IF halted THEN halt_leases \cup asks ELSE halt_leases
    /\ liveness_grant_leases(counter, [grants EXCEPT ![p] = left], to_client,
                             IF halted THEN {} ELSE asks)
    /\ UNCHANGED <<server, members, minted_high, lease, halted, awaited, halt_joins, armed, outbox, spent>>

(* spawn_admit_frame_default: nobody hears of a spawn no lease covers.                   *)
DropSpawn(p) ==
    /\ Received(p, "spawn") /\ ~lease_holds(grants[p], Head(to_server[p]).route)
    /\ Consumed(p)
    /\ UNCHANGED <<server, members, counter, minted_high, lease, by_route, grants, halt, armed,
                   outbox, to_client, spent>>

mint_above(floor) == [counter EXCEPT ![server] = Max({@, floor})]

(* session_receive_resync: the leases of an awaited sender are restored from its first       *)
(* frame, and the counter is raised above its floor at its last.                              *)
TakeReport(p) ==
    LET frame == Head(to_server[p])
        restored == [grants EXCEPT ![p] = @ \o frame.leases]
    IN
    /\ Received(p, "resync")
    /\ Consumed(p)
    /\ IF p \in awaited /\ frame.last
       THEN settle_resync(mint_above(frame.route_floor), restored, to_client, members,
                          awaited \ {p})
       ELSE /\ grants' = IF p \in awaited THEN restored ELSE grants
            /\ UNCHANGED <<members, counter, halt, to_client>>
    /\ UNCHANGED <<server, minted_high, lease, by_route, armed, outbox, spent>>

(* transfer_send_resync, at a later poll.                                                   *)
SendReport(p) ==
    /\ p \in Clients /\ outbox[p] # <<>>
    /\ outbox' = [outbox EXCEPT ![p] = Tail(@)]
    /\ to_server' = [to_server EXCEPT ![p] = Append(@, Head(outbox[p]))]
    /\ UNCHANGED <<server, members, counter, minted_high, lease, by_route, grants, halt, armed,
                   to_client, spent>>

(* install_lease.                                                                           *)
TakeLease(p) ==
    /\ p \in Clients /\ to_client[p] # <<>>
    /\ to_client' = [to_client EXCEPT ![p] = Tail(@)]
    /\ lease' = [lease EXCEPT ![p] = Append(@, Head(to_client[p]))]
    /\ UNCHANGED <<server, members, counter, minted_high, by_route, grants, halt, armed, outbox,
                   to_server, spent>>

-----------------------------------------------------------------------------
(* session_take_join: a join waits for the reports (halt_park_join).                        *)
Join(p) ==
    /\ p \notin members \cup halt_joins
    /\ Spend("joins", MaxJoins)
    /\ IF halted
       THEN halt_joins' = halt_joins \cup {p} /\ UNCHANGED <<members, counter, grants, to_client>>
       ELSE /\ members' = members \cup {p}
            /\ liveness_grant_leases(counter, grants, to_client, {p})
            /\ UNCHANGED halt_joins
    /\ UNCHANGED <<server, minted_high, lease, by_route, halted, awaited, halt_leases, armed, outbox,
                   to_server>>

(* session_settle_peer_loss and transfer_drop_reporter, of the peers "gone".                 *)
Drop(gone) ==
    /\ minted_high' = Reset(minted_high, gone, 0)
    /\ lease' = Reset(lease, gone, <<>>)
    /\ by_route' = Reset(by_route, gone, {})
    /\ armed' = Reset(armed, gone, <<>>)
    /\ outbox' = Reset(outbox, gone, <<>>)
    /\ to_server' = Reset(to_server, gone, <<>>)
    /\ settle_resync(Reset(counter, gone, 0), abandon_lease(grants, gone),
                     Reset(to_client, gone, <<>>), members \ gone, awaited \ gone)
    /\ UNCHANGED <<server, spent>>

Leave(p) == p \in Clients /\ Drop({p})

(* transfer_watch_resync: the deadline of the reports.                                       *)
Expire == halted /\ awaited # {} /\ Drop(awaited)

(* session_follow_relabel at every peer: q succeeds, and the former server stays as a         *)
(* client or is gone.  What was sent on the old term is dropped on both sides.  The poll that *)
(* brings the move sends the first frames of the report (transfer_send_resync), before the    *)
(* flush of what is armed.                                                                    *)
Move(q) ==
    /\ q \in Clients
    /\ Spend("moves", MaxMoves)
    /\ server' = q
    /\ \E stays \in BOOLEAN :
         LET gone == IF stays THEN {} ELSE {server}
             left == members \ gone
             Frame(p, leases, last) == [kind |-> "resync", leases |-> leases,
                                        route_floor |-> route_floor(p), last |-> last]
             Report(p) == IF ReportFits
                          THEN <<Frame(p, lease_spans(lease[p]), TRUE)>>
                          ELSE <<Frame(p, lease_spans(lease[p]), FALSE), Frame(p, <<>>, TRUE)>>
         IN /\ members' = left
            /\ counter' = Reset([counter EXCEPT ![q] = route_floor(q)], gone, 0)
            /\ minted_high' = Reset(minted_high, gone, 0)
            /\ lease' = [lease EXCEPT ![q] = <<>>]
            /\ by_route' = Reset(by_route, gone, {})
            /\ armed' = Reset(armed, gone, <<>>)
            /\ awaited' = left \ {q}
            /\ halted' = (left # {q})
            /\ to_server' = [p \in Peers |-> IF p \in left \ {q} THEN <<Head(Report(p))>> ELSE <<>>]
            /\ outbox' = [p \in Peers |-> IF p \in left \ {q} THEN Tail(Report(p)) ELSE <<>>]
    /\ halt_leases' = {} /\ halt_joins' = {}
    /\ grants' = [p \in Peers |-> <<>>]
    /\ to_client' = [p \in Peers |-> <<>>]

-----------------------------------------------------------------------------
Init ==
    /\ server = First
    /\ members = Founders \cup {First}
    /\ \E turn \in Bijection(Founders, 1 .. Cardinality(Founders)) :
           lease = [p \in Peers |->
               IF p \in Founders
               THEN <<Block(1 + (turn[p] - 1) * ROUTE_LEASE_BLOCK, ROUTE_LEASE_BLOCK)>>
               ELSE <<>>]
    /\ grants = lease
    /\ counter = [p \in Peers |->
                     IF p = First THEN Cardinality(Founders) * ROUTE_LEASE_BLOCK ELSE 0]
    /\ minted_high = [p \in Peers |-> 0]
    /\ by_route = [p \in Peers |-> {}]
    /\ halted = FALSE /\ awaited = {} /\ halt_leases = {} /\ halt_joins = {}
    /\ armed = [p \in Peers |-> <<>>]
    /\ outbox = [p \in Peers |-> <<>>]
    /\ to_server = [p \in Peers |-> <<>>]
    /\ to_client = [p \in Peers |-> <<>>]
    /\ spent = [what \in {"mints", "discards", "claims", "joins", "moves"} |-> 0]

Next ==
    \/ ServerMints
    \/ ClaimRoutes
    \/ Expire
    \/ \E p \in Peers :
          \/ ClientMints(p)
          \/ FlushArmed(p)
          \/ DiscardArmed(p)
          \/ AdmitSpawn(p)
          \/ DropSpawn(p)
          \/ TakeReport(p)
          \/ SendReport(p)
          \/ TakeLease(p)
          \/ Join(p)
          \/ Leave(p)
          \/ Move(p)

Spec == Init /\ [][Next]_vars

(* Polls take what came, send reports, flush what is armed and watch the deadline.              *)
Fairness ==
    /\ WF_vars(Expire)
    /\ \A p \in Peers :
          /\ WF_vars(FlushArmed(p)) /\ WF_vars(TakeLease(p)) /\ WF_vars(SendReport(p))
          /\ WF_vars(AdmitSpawn(p) \/ DropSpawn(p) \/ TakeReport(p))

FairSpec == Spec /\ Fairness

-----------------------------------------------------------------------------
(* What a client sends the server.                                                              *)
SpawnFrame == [kind : {"spawn"}, route : Nat \ {0}]
ReportFrame == [kind : {"resync"}, leases : Seq(Blocks), route_floor : Nat, last : BOOLEAN]

TypeOK ==
    /\ server \in members /\ members \subseteq Peers
    /\ counter \in [Peers -> Nat] /\ minted_high \in [Peers -> Nat]
    /\ {lease, grants, to_client} \subseteq [Peers -> Seq(Blocks)]
    /\ by_route \in [Peers -> SUBSET (Nat \ {0})]
    /\ armed \in [Peers -> Seq(Nat \ {0})]
    /\ to_server \in [Peers -> Seq(SpawnFrame \cup ReportFrame)]
    /\ outbox \in [Peers -> Seq(ReportFrame)]
    /\ \A p \in Peers \ Clients : lease[p] = <<>> /\ grants[p] = <<>> /\ to_client[p] = <<>>
    /\ \A p \in Peers : ToSet(armed[p]) \subseteq by_route[p]
    /\ awaited \subseteq Clients /\ halted = (awaited # {})
    /\ halt_leases \subseteq Clients
    /\ halt_joins \subseteq Peers \ members

(* What each peer may mint next, with no word from anybody.                                     *)
Mintable(p) == Spans(lease[p]) \cup Spans(to_client[p])
Above(r) == ~halted /\ r > counter[server]

(* extension/WIRE.md, ROUTE_LEASE: "every route in the session stays distinct".  No two peers may     *)
(* mint one route, and no member holds a route that is still to be minted, however leases,       *)
(* departures, reports and moves of the server interleave.                                       *)
RoutesStayDistinct ==
    /\ \A p, q \in Clients : p # q => Mintable(p) \cap Mintable(q) = {}
    /\ \A p \in Clients : \A r \in Mintable(p) : ~Above(r)
    /\ \A p \in members : \A r \in by_route[p] :
           ~Above(r) /\ \A q \in Clients : r \notin Mintable(q)

(* extension/WIRE.md, SESSION_RESYNC: the new server "honours the leases".  A client whose report       *)
(* came is held to hold every route it may mint.                                                  *)
LeasesAreHonoured ==
    \A p \in Clients \ awaited : Mintable(p) \subseteq Spans(grants[p])

(* The leases of a session are sound, as the three parts above say.                               *)
LeasesAreSound == TypeOK /\ RoutesStayDistinct /\ LeasesAreHonoured

(* A spawn under a route of the sender's lease is not dropped by the server.                      *)
HonestSpawnAdmitted ==
    \A p \in Clients :
        Received(p, "spawn") => lease_holds(grants[p], Head(to_server[p]).route)

(* lifecycle/rule.cpp:245, to a client without a lease: "More are granted as its spawns are       *)
(* admitted, so try again shortly."                                                               *)
EveryoneMayMint == \A p \in Clients : Spans(lease[p]) # {}
LeaseComes == []<>EveryoneMayMint

(* Once the server moved, the halt ends: the reports come, their senders go, or the deadline      *)
(* drops them.                                                                                    *)
HaltEnds == []<>~halted

-----------------------------------------------------------------------------
(* The abstract specification: a client owns what it may mint.                                    *)
Owners ==
    LET own == [p \in Clients |-> Mintable(p)]
        owned == UNION Range(own)
    IN [r \in Routes |-> IF r \in owned THEN CHOOSE p \in Clients : r \in own[p] ELSE NoPeer]

Ids == INSTANCE RouteIds WITH owner <- Owners, used <- Routes \cap UNION {by_route[p] : p \in members}

(* Every step of the leases is a step of the abstract allocation of routes, or changes nothing.   *)
RefinesRouteIds == Ids!Spec

(* The same, and TLC need not map the steps that leave the leases alone to see that they stutter. *)
RefinesIds == Ids!Init /\ [][UNCHANGED vars \/ Ids!Next]_(Ids!vars)
=============================================================================
