----------------------------- MODULE FreshGate -----------------------------
(* The gate of the unreliable frames (repl/freshness_book.cpp, asked by       *)
(* ReplicationCore::dispatch for each frame of a datagram).  A datagram bears *)
(* a sequence number of its sender, SeqModulus values wide; a stream is a     *)
(* route and a channel of that sender, and takes a datagram only if its       *)
(* number is ahead of the last one taken by less than half the range.  Every  *)
(* frame of a stream within one datagram shares one verdict.                  *)
(* One sender.  The datagrams it sends and what the network does to them are  *)
(* external; "number" is the count the sequence number stands for.            *)
EXTENDS Naturals, Sequences, FiniteSets

CONSTANTS
    Routes, Channels,
    SeqModulus,     \* 2^16: the range of a sequence number
    MaxSent,        \* bound on the datagrams of one link
    MaxFrames,      \* bound on the frames of a datagram
    MaxLag,         \* bound on how far a datagram falls behind a later one
    MaxSilence,     \* bound on the datagrams between two of one stream
    MaxResets       \* bound on the links lost and the routes cleared

ModulusAssumption == SeqModulus \in Nat \ {0} /\ SeqModulus % 2 = 0
BoundsAssumption == {MaxSent, MaxFrames, MaxLag, MaxSilence, MaxResets} \subseteq Nat

Streams == Routes \X Channels
Half == SeqModulus \div 2

\* What a link and a stream do not do: fall so far behind, or stay silent for so
\* long, that a number of theirs looks newer, or older, than it is.
LinkAssumption == MaxLag <= Half /\ MaxSilence < Half
Assumptions == ModulusAssumption /\ BoundsAssumption /\ LinkAssumption

VARIABLES
    sent,           \* how many datagrams the sender has sent on this link
    network,        \* those that may still arrive
    last,           \* FreshnessBook::routes: the number a stream holds, or None
    open,           \* the datagram that is read
    verdicts,       \* FreshnessBook::datagram
    newest,         \* history: the newest datagram each stream took, or 0
    resets
vars == <<sent, network, last, open, verdicts, newest, resets>>

None == SeqModulus
Closed == [number |-> 0, frames |-> <<>>]

Init ==
    /\ sent = 0 /\ network = {} /\ open = Closed /\ verdicts = {}
    /\ last = [s \in Streams |-> None] /\ newest = [s \in Streams |-> 0]
    /\ resets = 0

-----------------------------------------------------------------------------
(* next_send_seq numbers what is sent.  External: what falls more than MaxLag behind   *)
(* is lost.                                                                            *)
Send(frames) ==
    /\ sent < MaxSent
    /\ sent' = sent + 1
    /\ network' = {d \in network : sent + 1 - d.number <= MaxLag}
                    \cup {[number |-> sent + 1, frames |-> frames]}
    /\ UNCHANGED <<last, open, verdicts, newest, resets>>

(* External: the network loses, and it delivers again what it delivered. *)
Lose(d) ==
    /\ network' = network \ {d}
    /\ UNCHANGED <<sent, last, open, verdicts, newest, resets>>

(* receive_carrier with open_datagram.  A datagram brings a stream that was   *)
(* heard before at most MaxSilence ahead of what it took.                     *)
open_datagram(d, again) ==
    /\ open = Closed
    /\ \A k \in 1..Len(d.frames) :
        newest[d.frames[k]] # 0 => d.number <= newest[d.frames[k]] + MaxSilence
    /\ open' = d /\ verdicts' = {}
    /\ network' = IF again THEN network ELSE network \ {d}
    /\ UNCHANGED <<sent, last, newest, resets>>

-----------------------------------------------------------------------------
\* Mutant of accept: what lies behind the last number is taken for newer.
AcceptAnyOther(s, number) ==
    LET ahead == (number + SeqModulus - last[s]) % SeqModulus IN
    last[s] = None \/ ahead # 0

\* Mutant of accept: the numbers are compared as they are.
AcceptsByOrder(s, number) ==
    last[s] = None \/ number > last[s]

(* FreshnessBook::accept *)
accept(s, number) ==
    LET ahead == (number + SeqModulus - last[s]) % SeqModulus IN
    last[s] = None \/ (ahead # 0 /\ ahead < Half)

\* Mutant of dispatch: each frame is judged for itself.
DispatchEach ==
    /\ open.frames # <<>>
    /\ LET s == Head(open.frames)
           seq == open.number % SeqModulus
           fresh == accept(s, seq) IN
        /\ verdicts' = verdicts \cup {<<s, fresh>>}
        /\ last' = IF fresh THEN [last EXCEPT ![s] = seq] ELSE last
        /\ newest' = IF fresh THEN [newest EXCEPT ![s] = open.number] ELSE newest
    /\ open' = IF Len(open.frames) = 1 THEN Closed
               ELSE [open EXCEPT !.frames = Tail(@)]
    /\ UNCHANGED <<sent, network, resets>>

(* The gate of dispatch, with accept_in_datagram. *)
dispatch ==
    /\ open.frames # <<>>
    /\ LET s == Head(open.frames)
           seq == open.number % SeqModulus
           judged == \E v \in verdicts : v[1] = s
           fresh == IF judged THEN <<s, TRUE>> \in verdicts ELSE accept(s, seq) IN
        /\ verdicts' = verdicts \cup {<<s, fresh>>}
        /\ last' = IF fresh THEN [last EXCEPT ![s] = seq] ELSE last
        /\ newest' = IF fresh THEN [newest EXCEPT ![s] = open.number] ELSE newest
    /\ open' = IF Len(open.frames) = 1 THEN Closed
               ELSE [open EXCEPT !.frames = Tail(@)]
    /\ UNCHANGED <<sent, network, resets>>

(* clear_route: the copy on that route is hidden or gone. *)
clear_route(r) ==
    /\ open = Closed /\ resets < MaxResets
    /\ resets' = resets + 1
    /\ last' = [s \in Streams |-> IF s[1] = r THEN None ELSE last[s]]
    /\ newest' = [s \in Streams |-> IF s[1] = r THEN 0 ELSE newest[s]]
    /\ UNCHANGED <<sent, network, open, verdicts>>

\* Mutant of clear_peer: a peer that went leaves its numbers behind.
ClearPeerKeeps ==
    /\ open = Closed /\ resets < MaxResets
    /\ resets' = resets + 1
    /\ last' = last
    /\ newest' = [s \in Streams |-> 0]
    /\ sent' = 0 /\ network' = {}
    /\ UNCHANGED <<open, verdicts>>

(* session_clear_link_delivery: the link is gone, and a peer that comes again *)
(* under the same id counts from one.                                         *)
clear_peer ==
    /\ open = Closed /\ resets < MaxResets
    /\ resets' = resets + 1
    /\ last' = [s \in Streams |-> None]
    /\ newest' = [s \in Streams |-> 0]
    /\ sent' = 0 /\ network' = {}
    /\ UNCHANGED <<open, verdicts>>

Next ==
    \/ \E n \in 1..MaxFrames : \E frames \in [1..n -> Streams] : Send(frames)
    \/ \E d \in network : Lose(d) \/ \E again \in BOOLEAN : open_datagram(d, again)
    \/ dispatch
    \/ \E r \in Routes : clear_route(r)
    \/ clear_peer

Spec == Init /\ [][Next]_vars

-----------------------------------------------------------------------------
TypeOK ==
    /\ sent \in 0..MaxSent /\ resets \in 0..MaxResets
    /\ \A d \in network : d.number \in 1..sent
    /\ last \in [Streams -> 0..SeqModulus]
    /\ \A s \in Streams : last[s] # None => last[s] = newest[s] % SeqModulus

Judges(s, verdict) == <<s, verdict>> \in verdicts' \ verdicts

(* A stream never goes back: a datagram that is taken is newer than every one *)
(* the stream took before, and a repeated one is not taken again.             *)
TakesTheNewer == \A s \in Streams : Judges(s, TRUE) => open.number > newest[s]
NeverGoesBack == [][TakesTheNewer]_vars

(* What is refused is no newer than what was taken before it. *)
LeavesTheOld == \A s \in Streams : Judges(s, FALSE) => open.number <= newest[s]
RefusesOnlyTheOld == [][LeavesTheOld]_vars

(* A datagram is taken for a stream as a whole or not at all. *)
OneVerdict ==
    \A v, w \in verdicts : v[1] = w[1] => v = w

(* Every step of the gate is true, as the three parts above say. *)
GateIsTrue == [][TakesTheNewer /\ LeavesTheOld /\ OneVerdict']_vars
=============================================================================
