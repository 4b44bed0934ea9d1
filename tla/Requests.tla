------------------------------ MODULE Requests ------------------------------
(* The requests one peer has in flight: the book of transactions              *)
(* (txn_book.cpp), the promises the game holds (promise.cpp,                   *)
(* group_promise.cpp) and the handlers that settle them                        *)
(* (api/session/rpc.cpp): a reply or a refusal, the sweep of deadlines, the    *)
(* departure of a peer and the end of the session.  Settling a promise runs    *)
(* the game's callbacks inside the handler; they may send requests and drop     *)
(* peers before the handler goes on, so "frames" is the stack of handlers in    *)
(* progress.                                                                   *)
EXTENDS Naturals, Sequences, FiniteSets, SequencesExt, FiniteSetsExt

CONSTANTS
    Peers,      \* the peers that may be asked
    NoPeer,     \* in a handler that is about no one peer
    MaxTxns,    \* bound: requests
    MaxMoves,   \* bound: joins and departures
    MaxDepth    \* bound: handlers nested in callbacks

PeersAssumption == NoPeer \notin Peers
BoundsAssumption == {MaxTxns, MaxMoves, MaxDepth} \subseteq Nat \ {0}
ASSUME RequestsAssumption == PeersAssumption /\ BoundsAssumption

VARIABLES
    promise,    \* the promise of every request ever sent, by transaction
    book,       \* NetwTxnBook::open_txns
    settles,    \* NetwMultiplayer::rpc_settles
    frames,     \* the handlers in progress, innermost last
    present,    \* the peers connected
    calls,      \* calls on their way, or held by the method they called
    replies,    \* replies and refusals on their way
    empties,    \* empty groups whose resolve_all is deferred
    moves,      \* joins and departures so far
    parted      \* history: who left while a group waited for it
vars == <<promise, book, settles, frames, present, calls, replies, empties, moves, parted>>

Txns == 1 .. MaxTxns
Codes == {"OK", "ERR_TIMEOUT", "ERR_UNAVAILABLE", "refused"}
States == {"pending", "completed", "failed"}

Promise == [group : BOOLEAN, addressed : SUBSET Peers, expected : SUBSET Peers,
            results : SUBSET Peers, refusal : Codes, state : States, code : Codes]

Frame == [why : {"reply", "timeout", "left", "ended"}, todo : SUBSET Txns,
          peer : Peers \cup {NoPeer}, running : Txns \cup {0}]

Pending(t) == promise[t].state = "pending"

-----------------------------------------------------------------------------
(* The promises.  Every operation does nothing once the promise settled.       *)

\* Mutant of reject: it does not look whether the promise settled.
rejectAlways(pr, code) == [pr EXCEPT !.state = "failed", !.code = code]

reject(pr, code) == IF pr.state # "pending" THEN pr
                    ELSE [pr EXCEPT !.state = "failed", !.code = code]

resolve(pr) == IF pr.state # "pending" THEN pr ELSE [pr EXCEPT !.state = "completed"]

settle_when_answered(pr) ==
    CASE pr.expected # {} -> pr
      [] pr.expected = {} /\ pr.refusal # "OK" -> reject(pr, pr.refusal)
      [] OTHER -> resolve(pr)

Owes(pr, p) == pr.state = "pending" /\ p \in pr.expected

\* Mutant of forget: the peer stays among the expected.
forgetNone(pr, p) == pr

forget(pr, p) == [pr EXCEPT !.expected = @ \ {p}]

resolve_peer(pr, p) ==
    IF ~Owes(pr, p) THEN pr
    ELSE settle_when_answered([forget(pr, p) EXCEPT !.results = @ \cup {p}])

\* Mutant of refuse_peer: the refusal is not noted.
refuse_peerSilent(pr, p) == IF ~Owes(pr, p) THEN pr ELSE settle_when_answered(forget(pr, p))

refuse_peer(pr, p) ==
    IF ~Owes(pr, p) THEN pr
    ELSE settle_when_answered([forget(pr, p) EXCEPT !.refusal = "refused"])

remove_peer(pr, p) == IF ~Owes(pr, p) THEN pr ELSE settle_when_answered(forget(pr, p))

answered(pr, p, ok) ==
    CASE pr.group /\ ok -> resolve_peer(pr, p)
      [] pr.group /\ ~ok -> refuse_peer(pr, p)
      [] ~pr.group /\ ok -> resolve([pr EXCEPT !.results = {p}])
      [] OTHER -> reject(pr, "refused")

-----------------------------------------------------------------------------
Init ==
    /\ promise = <<>> /\ book = {} /\ settles = {} /\ frames = <<>>
    /\ present = Peers /\ calls = {} /\ replies = {} /\ empties = {}
    /\ moves = 0 /\ parted = {}

top == Last(frames)
SetTop(f) == Append(Front(frames), f)
GameRuns == frames # <<>> => top.running # 0
Idle == frames = <<>>

(* rpc_request_call, rpc_request_call_group: mint, open, send.                 *)
Ask(group, addressed) ==
    LET t == Len(promise) + 1 IN
    /\ GameRuns
    /\ t \in Txns
    /\ promise' = Append(promise,
           [group |-> group, addressed |-> addressed, expected |-> addressed,
            results |-> {}, refusal |-> "OK", state |-> "pending", code |-> "OK"])
    /\ book' = book \cup {t}
    /\ settles' = settles \cup {t}
    /\ calls' = calls \cup ({t} \X (addressed \cap present))
    /\ empties' = IF addressed = {} THEN empties \cup {t} ELSE empties
    /\ UNCHANGED <<frames, present, replies, moves, parted>>

Request(p) == Ask(FALSE, {p})
RequestGroup(recipients) == recipients \subseteq present /\ Ask(TRUE, recipients)

(* The deferred resolve_all of a group nobody is expected to answer.           *)
ResolveEmpty(t) ==
    /\ Idle
    /\ t \in empties
    /\ empties' = empties \ {t}
    /\ promise' = [promise EXCEPT ![t] = resolve(@)]
    /\ UNCHANGED <<book, settles, frames, present, calls, replies, moves, parted>>

(* The other peer: the method returns, fails, or is refused; or never answers. *)
Reply(t, p, ok) ==
    /\ <<t, p>> \in calls
    /\ calls' = calls \ {<<t, p>>}
    /\ replies' = replies \cup {<<t, p, ok>>}
    /\ UNCHANGED <<promise, book, settles, frames, present, empties, moves, parted>>

admits(t, p) == t \in book /\ p \in promise[t].addressed

(* rpc_handle_reply, rpc_handle_reply_failed.                                  *)
HearReply(t, p, ok) ==
    /\ Idle
    /\ <<t, p, ok>> \in replies
    /\ replies' = replies \ {<<t, p, ok>>}
    /\ IF admits(t, p) /\ t \in settles
       THEN /\ promise' = [promise EXCEPT ![t] = answered(@, p, ok)]
            /\ frames' = <<[why |-> "reply", todo |-> {}, peer |-> p, running |-> t]>>
       ELSE UNCHANGED <<promise, frames>>
    /\ UNCHANGED <<book, settles, present, calls, empties, moves, parted>>

\* Mutant of Sweep: what settles an expired request is dropped with it.
SweepBoth(expired) ==
    /\ Idle
    /\ expired # {}
    /\ book' = book \ expired
    /\ settles' = settles \ expired
    /\ frames' = <<[why |-> "timeout", todo |-> expired, peer |-> NoPeer, running |-> 0]>>
    /\ UNCHANGED <<promise, present, calls, replies, empties, moves, parted>>

(* rpc_sweep_transactions: any set of deadlines may have passed by now.        *)
Sweep(expired) ==
    /\ Idle
    /\ expired # {}
    /\ book' = book \ expired
    /\ frames' = <<[why |-> "timeout", todo |-> expired, peer |-> NoPeer, running |-> 0]>>
    /\ UNCHANGED <<promise, settles, present, calls, replies, empties, moves, parted>>

waiting_on(p) == {t \in book : p \in promise[t].addressed}

(* rpc_handle_disconnect, when a peer leaves or a callback drops it.           *)
Depart(p) ==
    /\ GameRuns
    /\ Len(frames) < MaxDepth
    /\ moves < MaxMoves
    /\ p \in present
    /\ present' = present \ {p}
    /\ calls' = {c \in calls : c[2] # p}
    /\ replies' = {r \in replies : r[2] # p}
    /\ frames' = Append(frames,
           [why |-> "left", todo |-> waiting_on(p), peer |-> p, running |-> 0])
    /\ parted' = parted \cup {<<t, p>> : t \in {u \in DOMAIN promise : Owes(promise[u], p)}}
    /\ moves' = moves + 1
    /\ UNCHANGED <<promise, book, settles, empties>>

Join(p) ==
    /\ Idle
    /\ moves < MaxMoves
    /\ p \notin present
    /\ present' = present \cup {p}
    /\ moves' = moves + 1
    /\ UNCHANGED <<promise, book, settles, frames, calls, replies, empties, parted>>

(* rpc_clear_session: it runs deferred, never inside a callback.               *)
ClearSession ==
    /\ Idle
    /\ book # {}
    /\ frames' = <<[why |-> "ended", todo |-> book \cap settles, peer |-> NoPeer, running |-> 0]>>
    /\ book' = {}
    /\ settles' = {}
    /\ UNCHANGED <<promise, present, calls, replies, empties, moves, parted>>

(* One round of a handler's loop up to the callbacks of the promise.           *)
Settled(pr, why, gone) ==
    CASE why = "timeout" -> reject(pr, "ERR_TIMEOUT")
      [] why = "left" /\ pr.group -> remove_peer(pr, gone)
      [] OTHER -> reject(pr, "ERR_UNAVAILABLE")

SettleNext ==
    /\ frames # <<>>
    /\ top.running = 0
    /\ top.todo # {}
    /\ LET t == Min(top.todo)
           found == top.why = "ended" \/ t \in settles
           rest == [top EXCEPT !.todo = @ \ {t}]
       IN  IF found
           THEN /\ promise' = [promise EXCEPT
                       ![t] = Settled(@, top.why, top.peer)]
                /\ settles' = IF top.why = "timeout" THEN settles \ {t} ELSE settles
                /\ frames' = SetTop([rest EXCEPT !.running = t])
           ELSE frames' = SetTop(rest) /\ UNCHANGED <<promise, settles>>
    /\ UNCHANGED <<book, present, calls, replies, empties, moves, parted>>

\* Mutant of rpc_settle_close: the transaction stays in the book.
rpc_settle_closeHalf(t) == settles' = settles \ {t} /\ UNCHANGED book

rpc_settle_close(t) == settles' = settles \ {t} /\ book' = book \ {t}

\* Mutant of CallbacksReturn: a group that still waits is closed with the others.
CallbacksReturnClosing ==
    /\ frames # <<>>
    /\ top.running # 0
    /\ frames' = SetTop([top EXCEPT !.running = 0])
    /\ IF top.why \in {"reply", "left"}
       THEN rpc_settle_close(top.running)
       ELSE UNCHANGED <<book, settles>>
    /\ UNCHANGED <<promise, present, calls, replies, empties, moves, parted>>

(* The callbacks return, and the handler closes the transaction it settled.    *)
CallbacksReturn ==
    /\ frames # <<>>
    /\ top.running # 0
    /\ frames' = SetTop([top EXCEPT !.running = 0])
    /\ IF top.why \in {"reply", "left"} /\ ~Pending(top.running)
       THEN rpc_settle_close(top.running)
       ELSE UNCHANGED <<book, settles>>
    /\ UNCHANGED <<promise, present, calls, replies, empties, moves, parted>>

HandlerEnds ==
    /\ frames # <<>>
    /\ top.running = 0
    /\ top.todo = {}
    /\ frames' = Front(frames)
    /\ UNCHANGED <<promise, book, settles, present, calls, replies, empties, moves, parted>>

Next ==
    \/ \E p \in Peers : Request(p) \/ Depart(p) \/ Join(p)
    \/ \E recipients \in SUBSET Peers : RequestGroup(recipients)
    \/ \E t \in Txns : ResolveEmpty(t)
    \/ \E t \in Txns, p \in Peers, ok \in BOOLEAN : Reply(t, p, ok) \/ HearReply(t, p, ok)
    \/ \E expired \in SUBSET book : Sweep(expired)
    \/ ClearSession
    \/ SettleNext
    \/ CallbacksReturn
    \/ HandlerEnds

(* The session polls, and with it every deadline passes and is swept; a handler *)
(* goes on when the callbacks return.  Nothing is assumed of the other peers.   *)
Fairness ==
    /\ \A t \in Txns : WF_vars(\E expired \in SUBSET book : t \in expired /\ Sweep(expired))
    /\ WF_vars(SettleNext)
    /\ WF_vars(CallbacksReturn)
    /\ WF_vars(HandlerEnds)

Spec == Init /\ [][Next]_vars
FairSpec == Spec /\ Fairness

-----------------------------------------------------------------------------
(* Every variable keeps its shape; the books name requests that were sent, and a *)
(* group expects only peers that have not answered it.                           *)
TypeOK ==
    /\ promise \in Seq(Promise) /\ Len(promise) <= MaxTxns
    /\ \A t \in DOMAIN promise : promise[t].group => promise[t].expected \cap promise[t].results = {}
    /\ {book, settles, empties} \subseteq SUBSET (DOMAIN promise)
    /\ frames \in Seq(Frame)
    /\ present \subseteq Peers
    /\ calls \subseteq (DOMAIN promise) \X Peers
    /\ replies \subseteq (DOMAIN promise) \X Peers \X BOOLEAN
    /\ moves \in 0 .. MaxMoves

(* A request that is not settled is never forgotten: both books hold it, or a   *)
(* handler in progress still has it to settle and finds what settles it, though *)
(* callbacks in between close other requests and drop peers.                    *)
NoneForgotten ==
    \A t \in DOMAIN promise : Pending(t) =>
        \/ t \in book \cap settles
        \/ \E f \in DOMAIN frames :
               /\ t \in frames[f].todo
               /\ frames[f].why = "ended" \/ (frames[f].why = "timeout" /\ t \in settles)

(* The two books of a request agree whenever no handler is in progress          *)
(* (rpc_settle_close, rpc_sweep_transactions and rpc_clear_session each empty    *)
(* both), and what they hold is not settled, but for groups nobody was asked.    *)
BooksAgree ==
    Idle => /\ book = settles
            /\ \A t \in book : ~Pending(t) => promise[t].addressed = {}

(* A group completes only when every peer it asked has answered or left while    *)
(* it was awaited, and none of them refused (NetwGroupPromise::settle_when_      *)
(* answered); a group that fails with a refusal was refused and waits for no one.*)
GroupIsWhole ==
    \A t \in DOMAIN promise : promise[t].group =>
        LET pr == promise[t] IN
        /\ pr.state = "completed" =>
               /\ pr.refusal = "OK"
               /\ \A p \in pr.addressed : p \in pr.results \/ <<t, p>> \in parted
        /\ pr.state = "failed" /\ pr.code = "refused" =>
               pr.refusal = "refused" /\ pr.expected = {}

(* What was asked is kept until it is answered, as the four parts above say.      *)
RequestsAreKept == TypeOK /\ NoneForgotten /\ BooksAgree /\ GroupIsWhole

(* "A promise settles once" (NetwPromise.xml:7): whatever answers, expires,      *)
(* departs or ends later, a settled promise keeps its state, code and results.    *)
SettlesOnce ==
    [][\A t \in DOMAIN promise : ~Pending(t) =>
          \A field \in {"state", "code", "results"} : promise'[t][field] = promise[t][field]]_vars

(* Every request settles while the session polls, whatever the peers do: by its   *)
(* deadline at the latest (rpc_request_call).                                     *)
NoRequestWaits == \A t \in DOMAIN promise : ~Pending(t)
EveryRequestSettles == []<>NoRequestWaits

(* rpc_request_call_group: "A peer that disconnects counts as rejected"           *)
(* (NetwMultiplayer.xml:2117), so no group completes that lost a peer.            *)
DepartureRejects ==
    \A t \in DOMAIN promise : promise[t].state = "completed" =>
        \A p \in Peers : <<t, p>> \notin parted
=============================================================================
