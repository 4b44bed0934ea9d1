----------------------------- MODULE MCEntities -----------------------------
(***************************************************************************)
(* Entities on small instances: the routes that name them, the lanes of a    *)
(* writer that gains and loses their control, and the claims that decide who *)
(* has it.  The three share no variable.  A behaviour moves the one that     *)
(* "moving" names and leaves the others where they start, so the behaviours  *)
(* of each are all there and their states add up instead of multiplying.     *)
(***************************************************************************)
EXTENDS RouteLease, TLC

CONSTANTS
    Parts,          \* what a run moves
    FenceDecisions, \* bound: decisions about the one lane
    p0, p1, p2,     \* the peers of the leases
    c1, c2          \* the clients of the claims

VARIABLES
    moving,
    decided, installed, lane, dormant, held_lane, parks, to_reader, to_writer, rows, heard, minted,
    control, shown, copy, lastOp, pending, abandoned, up, down, asked, ruled, writes, hides

\* Two clients of the claims are alike, and so are the two founders of the leases: no
\* list of theirs is in an order of its own, and their leases are granted in any.
Alike == Permutations({c1, c2}) \cup Permutations({p1, p2})

\* The same session as it moves while a report takes two polls.
Halting == INSTANCE RouteLease WITH
    Founders <- {p1, p2}, ROUTE_LEASE_BLOCK <- 2, ReportFits <- FALSE, MaxRoute <- 30,
    MaxMints <- 1, MaxDiscards <- 0, MaxMoves <- 2

\* One lane whose tenures are narrow, and two lanes of which one may be parked.
Fence == INSTANCE LaneTenure WITH
    Routes <- {1}, DORMANT_LANE_CAP <- 1, STREAM_BINDING_SPAN <- 3, MaxRowsPerTenure <- 2,
    MaxDecisions <- FenceDecisions, MaxRepairs <- 1, MaxExpiries <- 1
Lanes == INSTANCE LaneTenure WITH
    Routes <- {1, 2}, DORMANT_LANE_CAP <- 1, STREAM_BINDING_SPAN <- 2, MaxRowsPerTenure <- 1,
    MaxDecisions <- 3, MaxRepairs <- 0, MaxExpiries <- 1

\* Claims that time out, an entity that is hidden and shown, and a handler that
\* hands what it is given back to the server.
Claims == INSTANCE ControlClaim WITH
    Peers <- {c1, c2}, Holds <- {"none", "exclusive"}, HandsOn <- {}, MaxPending <- 2,
    MaxAbandoned <- 2, MaxAsked <- 3, MaxWrites <- 0, MaxHides <- 0, decided <- ruled
Shown == INSTANCE ControlClaim WITH
    Peers <- {c1, c2}, Holds <- {"none", "soft", "exclusive"}, HandsOn <- {}, MaxPending <- 2,
    MaxAbandoned <- 2, MaxAsked <- 1, MaxWrites <- 1, MaxHides <- 2, decided <- ruled
Handed == INSTANCE ControlClaim WITH
    Peers <- {c1, c2}, Holds <- {"none"}, HandsOn <- {"server"}, MaxPending <- 2,
    MaxAbandoned <- 2, MaxAsked <- 2, MaxWrites <- 0, MaxHides <- 1, decided <- ruled

ASSUME EntitiesAssumption ==
    /\ Assumptions /\ Halting!Assumptions /\ Fence!Assumptions /\ Lanes!Assumptions
    /\ Claims!Assumptions /\ Shown!Assumptions /\ Handed!Assumptions

leaseVars == vars
laneVars == <<decided, installed, lane, dormant, held_lane, parks, to_reader, to_writer, rows,
              heard, minted>>
claimVars == <<control, shown, copy, lastOp, pending, abandoned, up, down, asked, ruled, writes,
               hides>>
entitiesVars == <<moving, leaseVars, laneVars, claimVars>>

Leasing(which, A) == moving = which /\ A /\ UNCHANGED <<moving, laneVars, claimVars>>
Steering(which, A) == moving = which /\ A /\ UNCHANGED <<moving, leaseVars, claimVars>>
Claiming(which, A) == moving = which /\ A /\ UNCHANGED <<moving, leaseVars, laneVars>>

EntitiesInit ==
    /\ moving \in Parts
    /\ IF moving = "halt" THEN Halting!Init ELSE Init
    /\ IF moving = "lanes" THEN Lanes!Init ELSE Fence!Init
    /\ Claims!Init

EntitiesNext ==
    \/ Leasing("leases", Next) \/ Leasing("halt", Halting!Next)
    \/ Steering("fence", Fence!Next) \/ Steering("lanes", Lanes!Next)
    \/ Claiming("claims", Claims!Next) \/ Claiming("shown", Shown!Next)
    \/ Claiming("handed", Handed!Next)

EntitiesSpec == EntitiesInit /\ [][EntitiesNext]_entitiesVars

(* Links deliver, and the polls of a peer take what came, send what is armed and    *)
(* watch the deadline of the reports.  Nobody owes a claim or a spawn.               *)
FairEntitiesSpec ==
    /\ EntitiesSpec
    /\ \A p \in Peers :
           /\ WF_entitiesVars(Leasing("leases", FlushArmed(p)))
           /\ WF_entitiesVars(Leasing("leases", TakeLease(p)))
           /\ WF_entitiesVars(Leasing("leases", AdmitSpawn(p) \/ DropSpawn(p)))
           /\ WF_entitiesVars(Leasing("halt", Halting!FlushArmed(p)))
           /\ WF_entitiesVars(Leasing("halt", Halting!TakeLease(p)))
           /\ WF_entitiesVars(Leasing("halt", Halting!SendReport(p)))
           /\ WF_entitiesVars(Leasing("halt",
                  Halting!AdmitSpawn(p) \/ Halting!DropSpawn(p) \/ Halting!TakeReport(p)))
    /\ WF_entitiesVars(Leasing("halt", Halting!Expire))
    /\ WF_entitiesVars(Steering("fence", Fence!InstallAtWriter))
    /\ WF_entitiesVars(Steering("fence", Fence!InstallAtReader))
    /\ WF_entitiesVars(Steering("fence", Fence!TakeReady \/ Fence!TakeReset))
    /\ WF_entitiesVars(Steering("fence", Fence!TakeOpen \/ Fence!TakeClose))
    /\ WF_entitiesVars(Steering("fence", Fence!SendRow(1)))
    /\ \A p \in {c1, c2} :
           /\ WF_entitiesVars(Claiming("handed", Handed!Decides(p)))
           /\ WF_entitiesVars(Claiming("handed", Handed!Hears(p)))

-----------------------------------------------------------------------------
(* No row of an earlier tenure is taken, and while no OPEN is sent again the list of   *)
(* parked lanes is the lanes that are parked (store/peers.cpp, wire/stream_book.cpp).  *)
TenuresAreFenced ==
    /\ moving = "fence" => Fence!NoneOfAnEarlierTenure
    /\ moving = "lanes" => Lanes!TenuresAreFenced

(* Copies agree with what was decided; while no copy is freed, a request is answered   *)
(* by the decision about itself and no claim that failed is granted behind its back    *)
(* (entity/control.cpp).                                                               *)
ClaimsAreAnswered ==
    /\ moving = "claims" => Claims!ClaimsAreAnswered
    /\ moving = "shown" => Shown!CopiesAgree

(* A claim resolves on a copy that its peer controls (entity/control.cpp).             *)
ResolvesInCharge ==
    [][/\ moving = "claims" => Claims!InCharge
       /\ moving = "shown" => Shown!InCharge]_claimVars

(* A spawn under a route of its sender's lease is not dropped by the server            *)
(* (spawn/pipeline.cpp, liveness_core.cpp).                                            *)
LeasedSpawnAdmitted == moving = "leases" => HonestSpawnAdmitted

(* A client without a lease gets one and the halt of a move ends                       *)
(* (api/session/entity.cpp, transfer.cpp).                                             *)
LeasesCome == []<>((moving = "leases" => EveryoneMayMint) /\ (moving = "halt" => ~halted))

(* Once the decisions are over, the writer they name is heard by the reader            *)
(* (repl/session_send.cpp), and every copy that is shown comes to the last of them     *)
(* (api/replication_core.cpp).                                                         *)
ControlSettles == <>[]((moving = "fence" => Fence!AllHeard) /\ (moving = "handed" => Handed!CopiesFollow))
=============================================================================
