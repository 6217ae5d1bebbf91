------------------------------- MODULE IceCtl --------------------------------
(***************************************************************************)
(* The ICE transport of one channel (plugins/sessions_api/ice_ctl.c):      *)
(* candidate pairs, connectivity checks with STUN over UDP, the choice of  *)
(* the address media is sent to, and the life of the transport's thread.   *)
(*                                                                         *)
(* Four threads meet here.  The bus thread starts the ICE thread when the  *)
(* credentials of the peer arrive and installs the peer's candidates.  The *)
(* ICE thread sends and receives checks and learns addresses of its own.   *)
(* A media thread writes packets.  The transport is removed by the bus     *)
(* thread (the peer hangs up) or by the user interface.                    *)
(*                                                                         *)
(* "*ice->c_pairs_top++ = pair" is executed by the bus and by the ICE      *)
(* thread, and no lock is common to both: it is a step that loads the top  *)
(* and two steps, in the order of the compiler's choice, that store the    *)
(* new top and the pair.  A walk over the pairs stops at the first empty   *)
(* slot, so it sees a prefix, and it is one step.                          *)
(*                                                                         *)
(* The peer is another instance of this program.  What it is asked may be  *)
(* lost, delayed, repeated and answered in any order.  The local candidate  *)
(* of a pair only names the interface to send from and is left out.        *)
(***************************************************************************)
EXTENDS Naturals, Sequences, FiniteSets

CONSTANTS Remote,       \* addresses of the peer: a data and a control port each
          DataPort,     \* DataPort[r]: the data port of r's network interface
          EvenPort,     \* addresses with an even port number
          Reachable,    \* addresses from which answers come back
          Srflx,        \* own addresses a STUN server may show
          Media,        \* payload types with a media object
          MaxRemotes,   \* candidates the peer announces, with repetitions
          NoPair        \* NULL

ASSUME PeerAssumption ==
    /\ DataPort \in [Remote -> Remote]
    /\ \A r \in Remote : DataPort[DataPort[r]] = DataPort[r]
    /\ EvenPort \subseteq Remote /\ Reachable \subseteq Remote

ASSUME BoundAssumption ==
    IsFiniteSet(Srflx) /\ MaxRemotes \in Nat /\ NoPair \notin Remote

VARIABLES worker,    \* the ICE thread
          started,   \* bit 1 of regs.cr0: keep the ICE thread going
          remotes,   \* remote candidates, oldest first
          locals,    \* server reflexive local candidates
          slots,     \* c_pairs
          top,       \* c_pairs_top, as the number of pairs below it
          push,      \* push[t]: the pair thread t is storing
          pc,        \* next step of the bus and of the ICE thread
          cand,      \* next remote to be paired with the local candidate being inserted
          hit,       \* remote address of the pair that has just succeeded
          ready,     \* ICE_FLAG_RTP_SUCCEEDED
          last,      \* remote address of c_pair_last_success
          asked,     \* addresses with a check on its way
          cache,     \* media_owner_cache
          refs,      \* references the transport holds of media objects
          removal    \* icectl_on_remove

table == <<remotes, locals, slots, top, push, cand>>
choice == <<hit, ready, last>>
owner == <<cache, refs>>
vars == <<worker, started, table, pc, choice, asked, owner, removal>>

Capacity == MaxRemotes * (1 + Cardinality(Srflx))
CheckStates == {"WAITING", "IN_PROGRESS", "SUCCEEDED"}
Pairs == [remote : Remote, state : CheckStates]
NoPush == [slot |-> 0, pair |-> NoPair, todo |-> {}]
Pushes ==
    [slot : 1 .. Capacity, pair : Pairs, todo : (SUBSET {"top", "pair"}) \ {{}}]
        \cup {NoPush}

\* Fields hold addresses, pairs and steps of the right kind.
TypeOK ==
    /\ worker \in {"none", "loop", "exited"}
    /\ started \in BOOLEAN
    /\ remotes \in Seq(Remote) /\ Len(remotes) <= MaxRemotes
    /\ locals \subseteq Srflx
    /\ slots \in [1 .. Capacity -> Pairs \cup {NoPair}]
    /\ top \in 0 .. Capacity
    /\ push \in [{"bus", "ice"} -> Pushes]
    /\ pc \in [bus : {"idle", "bit", "push"},
               ice : {"idle", "flag", "nominate", "insert", "push"}]
    /\ cand \in 1 .. MaxRemotes + 1
    /\ hit \in Remote \cup {NoPair}
    /\ ready \in BOOLEAN
    /\ last \in Remote \cup {NoPair}
    /\ asked \subseteq Remote
    /\ cache \subseteq Media
    /\ refs \in [Media -> 0 .. 1]
    /\ removal \in {"no", "stop", "join", "done"}

\* icectl_on_create and icectl_on_append: the host candidates are there before
\* any candidate of the peer.
Init ==
    /\ worker = "none"
    /\ started = FALSE
    /\ remotes = <<>>
    /\ locals = {}
    /\ slots = [i \in 1 .. Capacity |-> NoPair]
    /\ top = 0
    /\ push = [t \in {"bus", "ice"} |-> NoPush]
    /\ pc = [bus |-> "idle", ice |-> "idle"]
    /\ cand = 1
    /\ hit = NoPair
    /\ ready = FALSE
    /\ last = NoPair
    /\ asked = {}
    /\ cache = {}
    /\ refs = [p \in Media |-> 0]
    /\ removal = "no"

-----------------------------------------------------------------------------
(* The stack of pairs. *)

\* The walk "pair < ice->c_pairs_top && *pair"
Visible == {i \in 1 .. top : \A j \in 1 .. i : slots[j] # NoPair}

First(S) == CHOOSE i \in S : \A j \in S : i <= j

NewPair(r) == [remote |-> r, state |-> "WAITING"]

\* The thread has loaded c_pairs_top.
Loaded(t, r) ==
    push' = [push EXCEPT ![t] = [slot |-> top + 1, pair |-> NewPair(r),
                                 todo |-> {"top", "pair"}]]

\* One of the two stores; the last one ends the statement.
Store(t, after) ==
    \E what \in push[t].todo :
        /\ IF what = "top"
           THEN top' = push[t].slot /\ UNCHANGED slots
           ELSE slots' = [slots EXCEPT ![push[t].slot] = push[t].pair] /\ UNCHANGED top
        /\ IF push[t].todo = {what}
           THEN push' = [push EXCEPT ![t] = NoPush] /\ pc' = [pc EXCEPT ![t] = after]
           ELSE push' = [push EXCEPT ![t].todo = @ \ {what}] /\ UNCHANGED pc

-----------------------------------------------------------------------------
(* The bus thread. *)

BusAt(step) == pc.bus = step /\ removal = "no"

\* icectl_assign with ufrag and pwd: __icectl_worker_start creates the thread;
\* when that fails, the next message tries again.
Assign ==
    /\ BusAt("idle")
    /\ ~started
    /\ worker' = "loop"
    /\ pc' = [pc EXCEPT !.bus = "bit"]
    /\ UNCHANGED <<started, table, choice, asked, owner, removal>>

\* "started state": the bit is set once the thread is running.
SetStarted ==
    /\ pc.bus = "bit"
    /\ started' = TRUE
    /\ pc' = [pc EXCEPT !.bus = "idle"]
    /\ UNCHANGED <<worker, table, choice, asked, owner, removal>>

\* icectl_on_child_append of "candidate": __icectl_insert_remote_candidate
\* pairs it with the first local candidate.
Install(r) ==
    /\ BusAt("idle")
    /\ Len(remotes) < MaxRemotes
    /\ remotes' = Append(remotes, r)
    /\ Loaded("bus", r)
    /\ pc' = [pc EXCEPT !.bus = "push"]
    /\ UNCHANGED <<worker, started, locals, slots, top, cand, choice, asked, owner, removal>>

BusPush ==
    /\ pc.bus = "push"
    /\ Store("bus", "idle")
    /\ UNCHANGED <<worker, started, remotes, locals, cand, choice, asked, owner, removal>>

-----------------------------------------------------------------------------
(* The ICE thread. *)

IceAt(step) == worker = "loop" /\ pc.ice = step

Goto(step) == pc' = [pc EXCEPT !.ice = step]

\* __icectl_worker leaves its loop when it finds the bit clear after a round of
\* the event loop.
WorkerExit ==
    /\ IceAt("idle")
    /\ ~started
    /\ worker' = "exited"
    /\ UNCHANGED <<started, table, pc, choice, asked, owner, removal>>

Unfinished == {i \in Visible : slots[i].state \in {"WAITING", "IN_PROGRESS"}}

\* Mutation: a check is sent once and never again.
ResendOnce ==
    LET S == {i \in Visible : slots[i].state = "WAITING"} IN
    /\ slots' = [i \in DOMAIN slots |->
                    IF i \in S THEN [slots[i] EXCEPT !.state = "IN_PROGRESS"] ELSE slots[i]]
    /\ asked' = asked \cup {slots[i].remote : i \in S}

\* __icestun_resend_candidates: every pair that has not succeeded is checked
\* again.
Resend ==
    /\ slots' = [i \in DOMAIN slots |->
                    IF i \in Unfinished THEN [slots[i] EXCEPT !.state = "IN_PROGRESS"]
                    ELSE slots[i]]
    /\ asked' = asked \cup {slots[i].remote : i \in Unfinished}

\* __icectl_Periodic
Periodic ==
    /\ IceAt("idle")
    /\ Resend
    /\ UNCHANGED <<worker, started, remotes, locals, top, push, cand, pc, choice, owner, removal>>

\* Mutation: the answer leaves from the socket the check arrived at.
AnswerFromSame(r) == r

\* __on_packet_in of a STUN request, at the peer: is_rtp = ~(flags & 0x1) is
\* never zero, so the answer to a check of either port leaves from the data port.
AnswerFrom(r) == DataPort[r]

\* __on_packet_in of a STUN response, which may come twice: the first pair in progress with the
\* address the answer came from has succeeded.
OnAnswer(r) ==
    LET from == AnswerFrom(r)
        S == {i \in Visible : slots[i].state = "IN_PROGRESS" /\ slots[i].remote = from}
    IN
    /\ IceAt("idle")
    /\ r \in asked \cap Reachable
    /\ IF S = {} THEN UNCHANGED <<slots, hit, pc>>
       ELSE /\ slots' = [slots EXCEPT ![First(S)].state = "SUCCEEDED"]
            /\ IF ready THEN UNCHANGED <<hit, pc>>
               ELSE hit' = from /\ Goto("flag")
    /\ UNCHANGED <<worker, started, remotes, locals, top, push, cand, ready, last, asked, owner, removal>>

SetFlag ==
    /\ IceAt("flag")
    /\ ready' = TRUE
    /\ Goto("nominate")
    /\ UNCHANGED <<worker, started, table, hit, last, asked, owner, removal>>

\* Mutation: every success that finds the flag clear is chosen.
NominateAgain ==
    /\ IceAt("nominate")
    /\ last' = hit
    /\ hit' = NoPair
    /\ Goto("idle")
    /\ UNCHANGED <<worker, started, table, ready, asked, owner, removal>>

Nominate ==
    /\ IceAt("nominate")
    /\ last' = IF last = NoPair THEN hit ELSE last
    /\ hit' = NoPair
    /\ Goto("idle")
    /\ UNCHANGED <<worker, started, table, ready, asked, owner, removal>>

\* Mutation: the address is not looked for among the local candidates.
OnMappedAgain(a) ==
    /\ IceAt("idle")
    /\ locals' = locals \cup {a}
    /\ cand' = 1
    /\ Goto("insert")
    /\ UNCHANGED <<worker, started, remotes, slots, top, push, choice, asked, owner, removal>>

\* A STUN server shows an address that no local candidate has: it becomes one,
\* and __icectl_insert_local_candidate pairs it with the remote candidates.
OnMapped(a) ==
    /\ IceAt("idle")
    /\ a \notin locals
    /\ locals' = locals \cup {a}
    /\ cand' = 1
    /\ Goto("insert")
    /\ UNCHANGED <<worker, started, remotes, slots, top, push, choice, asked, owner, removal>>

\* The loop over the remotes
InsertNext ==
    /\ IceAt("insert")
    /\ IF cand <= Len(remotes)
       THEN /\ Loaded("ice", remotes[cand])
            /\ cand' = cand + 1
            /\ Goto("push")
       ELSE /\ cand' = 1
            /\ Goto("idle")
            /\ UNCHANGED push
    /\ UNCHANGED <<worker, started, remotes, locals, slots, top, choice, asked, owner, removal>>

IcePush ==
    /\ IceAt("push")
    /\ Store("ice", "insert")
    /\ UNCHANGED <<worker, started, remotes, locals, cand, choice, asked, owner, removal>>

\* route_rtp_packet_in: the media object of a payload type is looked up once
\* and kept.
OnRtp(p) ==
    /\ IceAt("idle")
    /\ p \notin cache
    /\ cache' = cache \cup {p}
    /\ refs' = [refs EXCEPT ![p] = @ + 1]
    /\ UNCHANGED <<worker, started, table, pc, choice, asked, removal>>

-----------------------------------------------------------------------------
(* The media thread and the removal. *)

\* icectl_try_write: with the flag set and no address chosen yet, a pair that
\* succeeded and has an even port is chosen.  Media goes to the chosen address.
TryWrite ==
    LET S == {i \in Visible : slots[i].state = "SUCCEEDED" /\ slots[i].remote \in EvenPort} IN
    /\ ready /\ last = NoPair
    /\ removal # "done"
    /\ S # {}
    /\ last' = slots[First(S)].remote
    /\ UNCHANGED <<worker, started, table, pc, hit, ready, asked, owner, removal>>

\* icectl_on_remove, of a transport whose thread was created
Remove ==
    /\ removal = "no"
    /\ worker # "none"
    /\ ready' = FALSE
    /\ removal' = "stop"
    /\ UNCHANGED <<worker, started, table, pc, hit, last, asked, owner>>

\* Mutation: the thread is not told to stop.
StopKeepsBit ==
    /\ removal = "stop"
    /\ removal' = "join"
    /\ UNCHANGED <<worker, started, table, pc, choice, asked, owner>>

\* __icectl_worker_stop
Stop ==
    /\ removal = "stop"
    /\ started' = FALSE
    /\ removal' = "join"
    /\ UNCHANGED <<worker, table, pc, choice, asked, owner>>

\* Mutation: the references are put before the thread has ended.
ReleaseEarly ==
    /\ removal = "join"
    /\ refs' = [p \in Media |-> IF p \in cache THEN refs[p] - 1 ELSE refs[p]]
    /\ removal' = "done"
    /\ UNCHANGED <<worker, started, table, pc, choice, asked, cache>>

\* Mutation: a reference is put for every entry of the cache, set or not.
ReleaseAll ==
    /\ removal = "join"
    /\ worker = "exited"
    /\ refs' = [p \in Media |-> refs[p] - 1]
    /\ removal' = "done"
    /\ UNCHANGED <<worker, started, table, pc, choice, asked, cache>>

\* pthread_join, and the references of the cache are put.
Release ==
    /\ removal = "join"
    /\ worker = "exited"
    /\ refs' = [p \in Media |-> IF p \in cache THEN refs[p] - 1 ELSE refs[p]]
    /\ removal' = "done"
    /\ UNCHANGED <<worker, started, table, pc, choice, asked, cache>>

\* UDP: a check, or the answer to it, is lost.
Lose(r) ==
    /\ r \in asked
    /\ asked' = asked \ {r}
    /\ UNCHANGED <<worker, started, table, pc, choice, owner, removal>>

-----------------------------------------------------------------------------

BusStep == SetStarted \/ BusPush
IceStep == SetFlag \/ Nominate \/ InsertNext \/ IcePush
RemoveStep == Stop \/ Release

Next ==
    \/ Assign \/ BusStep \/ \E r \in Remote : Install(r)
    \/ Periodic \/ WorkerExit \/ IceStep
    \/ \E r \in Remote : OnAnswer(r) \/ Lose(r)
    \/ \E a \in Srflx : OnMapped(a)
    \/ \E p \in Media : OnRtp(p)
    \/ TryWrite \/ Remove \/ RemoveStep

\* Threads are scheduled, the timer of the event loop fires again and again,
\* and of checks that are sent again and again one is answered.
Fairness ==
    /\ WF_vars(BusStep) /\ WF_vars(IceStep \/ WorkerExit) /\ WF_vars(RemoveStep)
    /\ SF_vars(Periodic)
    /\ \A r \in Remote : SF_vars(OnAnswer(r))

Spec == Init /\ [][Next]_vars /\ Fairness

-----------------------------------------------------------------------------
(* Properties. *)

\* Media goes to a data port of the peer: the pairs of its control ports are
\* checked as well and the first pair that succeeds is chosen whatever its port,
\* but a control port never answers for itself.
MediaToDataPort == last # NoPair => DataPort[last] = last

\* The address media is sent to is chosen once: neither the ICE thread nor a
\* media thread that finds the flag set before the choice is made, nor a
\* success during the removal, changes it.
ChoiceKept == [][last # NoPair => last' = last]_vars

\* Two threads push pairs without a common lock; the stack never holds more
\* than one pair for each remote candidate with the host candidates and one
\* with each address learned later, which is what c_pairs must have room for.
PairsFit ==
    /\ top <= Len(remotes) * (1 + Cardinality(locals))
    /\ \A t \in {"bus", "ice"} : push[t].slot <= Len(remotes) * (1 + Cardinality(locals))

\* After icectl_on_remove the thread is gone and no media object is held.
NothingLeft ==
    removal = "done" => worker = "exited" /\ \A p \in Media : refs[p] = 0

CheckableData ==
    \E i \in Visible : slots[i].remote \in Reachable /\ DataPort[slots[i].remote] = slots[i].remote

\* A pair with a data port that is reachable gets media going, however many
\* checks are lost, if the ICE thread keeps running and the pair stays in the
\* stack (a push of the other thread may take it off again).
Connects == <>[](CheckableData /\ worker = "loop") => <>(last # NoPair)

\* icectl_on_remove returns, unless the bus thread is about to set the bit that
\* keeps the ICE thread going.
RemoveReturns == removal = "stop" /\ pc.bus # "bit" ~> removal = "done"

=============================================================================
