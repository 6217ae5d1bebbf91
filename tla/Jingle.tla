------------------------------- MODULE Jingle --------------------------------
(***************************************************************************)
(* One media call between two instances of the program: the Jingle object  *)
(* of each side (plugins/jingle/xep_0166.c), the session object it drives  *)
(* (plugins/sessions_api/session_api.c, sessions.c) and the ICE thread     *)
(* below it (ice_ctl.c), connected by the two directions of an XMPP        *)
(* stream, which keep the order of what is sent.                           *)
(*                                                                         *)
(* Each side runs four threads: "ui" places the call and hangs up, "bus"   *)
(* runs the loop of the XMPP stream and handles what the peer sends, the   *)
(* worker of the session runs the session's event loop, and the ICE thread *)
(* runs the transport's.  A handler is split where another thread can see  *)
(* it half done: x_session_start and x_session_close are sequences of      *)
(* steps, and pc[e][t] is the step that thread t of e takes next.          *)
(*                                                                         *)
(* The channels of a session are one channel, an address is a candidate,   *)
(* and media descriptions, payload lists, credentials and the "result"     *)
(* replies to each request are left out.                                   *)
(*                                                                         *)
(* regs.cr0 is changed by two threads without a lock: where they can meet, *)
(* a change is a step that loads it into reg[e][t] and a step that stores  *)
(* it, so that one thread can undo what the other did in between.          *)
(*                                                                         *)
(* fault[e] collects the places where e did something whose outcome C does *)
(* not define; a side with a fault takes no further step.                  *)
(***************************************************************************)
EXTENDS Naturals, Sequences

CONSTANTS Cand,         \* candidate addresses
          Host,         \* Host[e]: candidates of e's network interfaces
          Reflexive,    \* Reflexive[e]: candidates e can learn from STUN answers
          HangsUp,      \* sides with a user interface that can hang up
          SpawnMayFail  \* sides where pthread_create may fail for the worker

End == {"caller", "callee"}
Peer(e) == CHOOSE p \in End : p # e
Threads == {"ui", "bus"}

\* Every side has a network interface, and addresses are not shared.
ASSUME CandAssumption ==
    /\ Host \in [End -> (SUBSET Cand) \ {{}}]
    /\ Reflexive \in [End -> SUBSET Cand]
    /\ \A e \in End : Host[e] \cap Reflexive[e] = {}

ASSUME SideAssumption == HangsUp \subseteq End /\ SpawnMayFail \subseteq End

VARIABLES sess,       \* the session object: not there, open, or closed
          active,     \* xcs->state = SESSION_ACTIVE
          state,      \* regs.state of the jingle object
          cr0,        \* regs.cr0 of the jingle object, as a set of flags
          listening,  \* the jingle object is subscribed to the session
          hungup,     \* the user of this side has hung up
          pc,         \* next step of each thread
          reg,        \* cr0 as each thread loaded it
          runbit,     \* bit 1 of the session's cr: keep the worker going
          worker,     \* the session worker
          ice,        \* the ICE thread
          found,      \* the candidate the ICE thread is announcing
          local,      \* local-candidate objects of the transport
          sent,       \* candidates sent to the peer
          got,        \* candidates of the peer that were installed
          net,        \* net[e]: messages on their way to e
          fault       \* undefined outcomes met

session == <<sess, active, runbit, worker>>
jingle == <<state, cr0, listening>>
transport == <<ice, found, local>>
vars == <<session, jingle, transport, hungup, pc, reg, sent, got, net, fault>>

Flags == {"PENDING", "RUNNING", "STOPPED", "REMOTE_CANDIDATE"}
Actions == {"session-initiate", "transport-info", "session-accept",
            "session-terminate"}
Messages == [action : Actions, cands : SUBSET Cand]

StartSteps == {"run", "activate", "notify", "info"}
ReceiveSteps == {"store-info", "store-accept"}
AnswerSteps == {"answer", "answered", "store-answer"}
CloseSteps == {"stop", "join", "destroyed", "mark", "unsubscribe", "channels",
               "reap", "unlink"}
Faults == {"late",      \* a handler used a session that was closed before
           "torn",      \* a handler used a session that is being torn down
           "rejoin",    \* a thread was joined twice
           "nothread",  \* a thread that was never created was joined
           "cell",      \* a listener cell was freed while it was in use
           "tree"}      \* a candidate was put into a tree that is destroyed

\* Fields hold flags, steps, candidates and messages of the right kind, and no
\* thread works on a session that was never opened.
TypeOK ==
    /\ sess \in [End -> {"none", "open", "closed"}]
    /\ active \in [End -> BOOLEAN]
    /\ state \in [End -> {"GNEW", "OUTCOMING", "INCOMING"}]
    /\ cr0 \in [End -> SUBSET Flags]
    /\ listening \in [End -> BOOLEAN]
    /\ hungup \in [End -> BOOLEAN]
    /\ pc \in [End -> [Threads -> {"idle"} \cup StartSteps \cup ReceiveSteps
                               \cup AnswerSteps \cup CloseSteps]]
    /\ reg \in [End -> [Threads -> SUBSET Flags]]
    /\ runbit \in [End -> BOOLEAN]
    /\ worker \in [End -> {"none", "running", "exited", "joined"}]
    /\ ice \in [End -> {"off", "loop", "check", "deliver", "joined"}]
    /\ found \in [End -> SUBSET Cand]
    /\ local \in [End -> SUBSET Cand]
    /\ sent \in [End -> SUBSET Cand]
    /\ got \in [End -> SUBSET Cand]
    /\ net \in [End -> Seq(Messages)]
    /\ fault \in [End -> SUBSET Faults]
    /\ \A e \in End, t \in Threads : pc[e][t] # "idle" => sess[e] # "none"

Ok(e) == fault[e] = {}

At(e, t, step) == Ok(e) /\ pc[e][t] = step

Load(e, t) == reg' = [reg EXCEPT ![e][t] = cr0[e]]

Drop(e, t) == reg' = [reg EXCEPT ![e][t] = {}]

Goto(e, t, step) == pc' = [pc EXCEPT ![e][t] = step]

Fault(e, f) == fault' = [fault EXCEPT ![e] = @ \cup {f}]

\* _send_set_req_: the stream is written by one message at a time.
SendTo(n, e, a, cs) == [n EXCEPT ![e] = Append(@, [action |-> a, cands |-> cs])]

\* x_session_close has destroyed something below the session, or everything.
\* x_session_open finds the session all the same: while it is torn down it is
\* still linked, and _RMOV leaves the list of the holder beginning with it.
Gone(e) ==
    \/ sess[e] = "closed"
    \/ \E t \in Threads : pc[e][t] \in {"reap", "unlink"}

\* A handler goes through such a session to what was destroyed below it.
UsesGone(e) == Gone(e) /\ Fault(e, IF sess[e] = "closed" THEN "late" ELSE "torn")

\* icectl_assign: the credentials of the peer start the ICE thread, once.
IceStarted(e) == IF ice[e] = "off" THEN "loop" ELSE ice[e]

Init ==
    /\ sess = [e \in End |-> "none"]
    /\ active = [e \in End |-> FALSE]
    /\ state = [e \in End |-> "GNEW"]
    /\ cr0 = [e \in End |-> {}]
    /\ listening = [e \in End |-> FALSE]
    /\ hungup = [e \in End |-> FALSE]
    /\ pc = [e \in End |-> [t \in Threads |-> "idle"]]
    /\ reg = [e \in End |-> [t \in Threads |-> {}]]
    /\ runbit = [e \in End |-> FALSE]
    /\ worker = [e \in End |-> "none"]
    /\ ice = [e \in End |-> "off"]
    /\ found = [e \in End |-> {}]
    /\ local = [e \in End |-> {}]
    /\ sent = [e \in End |-> {}]
    /\ got = [e \in End |-> {}]
    /\ net = [e \in End |-> <<>>]
    /\ fault = [e \in End |-> {}]

-----------------------------------------------------------------------------
(* Opening and starting a session. *)

\* gobee_place_call up to x_session_start: x_session_open creates the session,
\* the path listener of the jingle plugin finds no jingle object for it,
\* creates one and subscribes it; adding the transport to the channel collects
\* the host candidates, whose announcement an inactive session ignores.
PlaceCall ==
    /\ At("caller", "ui", "idle")
    /\ sess["caller"] = "none"
    /\ sess' = [sess EXCEPT !["caller"] = "open"]
    /\ state' = [state EXCEPT !["caller"] = "OUTCOMING"]
    /\ listening' = [listening EXCEPT !["caller"] = TRUE]
    /\ local' = [local EXCEPT !["caller"] = Host["caller"]]
    /\ Goto("caller", "ui", "run")
    /\ UNCHANGED <<active, runbit, worker, cr0, ice, found, hungup, reg, sent, got, net, fault>>

\* session_assign, $state = active: the worker is told to run and created; if
\* that fails the session is activated all the same.
StartRun(e, t) ==
    /\ At(e, t, "run")
    /\ \/ /\ runbit' = [runbit EXCEPT ![e] = TRUE]
          /\ worker' = [worker EXCEPT ![e] = "running"]
       \/ /\ e \in SpawnMayFail
          /\ UNCHANGED <<runbit, worker>>
    /\ Goto(e, t, "activate")
    /\ UNCHANGED <<sess, active, jingle, transport, hungup, reg, sent, got, net, fault>>

StartActivate(e, t) ==
    /\ At(e, t, "activate")
    /\ active' = [active EXCEPT ![e] = TRUE]
    /\ Goto(e, t, "notify")
    /\ UNCHANGED <<sess, runbit, worker, jingle, transport, hungup, reg, sent, got, net, fault>>

\* "session-activate" at the jingle object, first half: the caller's side
\* sends session-initiate (__jingle_session_send_initiate).
StartNotify(e, t) ==
    /\ At(e, t, "notify")
    /\ IF listening[e] /\ state[e] = "OUTCOMING"
       THEN /\ cr0' = [cr0 EXCEPT ![e] = {"PENDING"}]
            /\ net' = SendTo(net, Peer(e), "session-initiate", {})
       ELSE UNCHANGED <<cr0, net>>
    /\ Goto(e, t, IF listening[e] THEN "info" ELSE "idle")
    /\ UNCHANGED <<session, state, listening, transport, hungup, reg, sent, got, fault>>

\* A handler of the callee goes on to the test whether it is time to answer.
GotoAnswer(e, t) == Goto(e, t, IF state[e] = "INCOMING" THEN "answer" ELSE "idle")

\* Mutation: only the candidates of the network interfaces are sent.
StartInfoHostOnly(e, t) ==
    /\ At(e, t, "info")
    /\ net' = SendTo(net, Peer(e), "transport-info", Host[e])
    /\ sent' = [sent EXCEPT ![e] = @ \cup Host[e]]
    /\ GotoAnswer(e, t)
    /\ UNCHANGED <<session, jingle, transport, hungup, reg, got, fault>>

\* Second half: __jingle_session_send_transport_info sends the candidates
\* that are in the transport now.
StartInfo(e, t) ==
    /\ At(e, t, "info")
    /\ \/ UsesGone(e) /\ Goto(e, t, "idle") /\ UNCHANGED <<net, sent>>
       \/ /\ ~Gone(e)
          /\ net' = SendTo(net, Peer(e), "transport-info", local[e])
          /\ sent' = [sent EXCEPT ![e] = @ \cup local[e]]
          /\ GotoAnswer(e, t)
          /\ UNCHANGED fault
    /\ UNCHANGED <<session, jingle, transport, hungup, reg, got>>

-----------------------------------------------------------------------------
(* Answering a call, at the end of "session-activate" and of transport-info. *)

\* It is time: the callee has not answered and knows an address of the caller.
MayAccept(flags) == {"PENDING", "REMOTE_CANDIDATE"} \subseteq flags

\* __jingle_session_send_accept, which looks the session up again.
Answer(e, t) ==
    /\ At(e, t, "answer")
    /\ \/ /\ ~MayAccept(cr0[e])
          /\ Goto(e, t, "idle")
          /\ UNCHANGED <<net, fault>>
       \/ /\ MayAccept(cr0[e])
          /\ UsesGone(e)
          /\ Goto(e, t, "idle")
          /\ UNCHANGED net
       \/ /\ MayAccept(cr0[e])
          /\ ~Gone(e)
          /\ net' = SendTo(net, Peer(e), "session-accept", {})
          /\ Goto(e, t, "answered")
          /\ UNCHANGED fault
    /\ UNCHANGED <<session, jingle, transport, hungup, reg, sent, got>>

\* Only then, when the peer may have the answer already, cr0 is changed: the
\* assignments that clear PENDING and set RUNNING are one load and one store.
AnswerLoad(e, t) ==
    /\ At(e, t, "answered")
    /\ Load(e, t)
    /\ Goto(e, t, "store-answer")
    /\ UNCHANGED <<session, jingle, transport, hungup, sent, got, net, fault>>

\* Mutation: the answer is sent but the call is not marked as running.
StoreAnswerForgets(e, t) ==
    /\ At(e, t, "store-answer")
    /\ cr0' = [cr0 EXCEPT ![e] = reg[e][t] \ {"PENDING"}]
    /\ Drop(e, t)
    /\ Goto(e, t, "idle")
    /\ UNCHANGED <<session, state, listening, transport, hungup, sent, got, net, fault>>

StoreAnswer(e, t) ==
    /\ At(e, t, "store-answer")
    /\ cr0' = [cr0 EXCEPT ![e] = (reg[e][t] \ {"PENDING"}) \cup {"RUNNING"}]
    /\ Drop(e, t)
    /\ Goto(e, t, "idle")
    /\ UNCHANGED <<session, state, listening, transport, hungup, sent, got, net, fault>>

-----------------------------------------------------------------------------
(* Messages from the peer: jingle_parse_commit on the bus thread. *)

Receives(e, a) ==
    /\ At(e, "bus", "idle")
    /\ net[e] # <<>>
    /\ Head(net[e]).action = a

Consumed(e) == [net EXCEPT ![e] = Tail(@)]

\* Mutation: the session is looked up without X_CREAT.
OnInitiateNoCreate(e) ==
    /\ Receives(e, "session-initiate")
    /\ cr0' = [cr0 EXCEPT ![e] = {"PENDING"}]
    /\ net' = Consumed(e)
    /\ Goto(e, "bus", "run")
    /\ UNCHANGED <<session, state, listening, transport, hungup, reg, sent, got, fault>>

\* __jingle_session_on_initiate, for a session id that is new here.
OnInitiate(e) ==
    /\ Receives(e, "session-initiate")
    /\ sess[e] = "none"
    /\ sess' = [sess EXCEPT ![e] = "open"]
    /\ state' = [state EXCEPT ![e] = "INCOMING"]
    /\ listening' = [listening EXCEPT ![e] = TRUE]
    /\ local' = [local EXCEPT ![e] = Host[e]]
    /\ ice' = [ice EXCEPT ![e] = IceStarted(e)]
    /\ cr0' = [cr0 EXCEPT ![e] = {"PENDING"}]
    /\ net' = Consumed(e)
    /\ Goto(e, "bus", "run")
    /\ UNCHANGED <<active, runbit, worker, found, hungup, reg, sent, got, fault>>

\* __jingle_session_on_transport_info.  x_session_channel_open looks the
\* session up again and finds it even after x_session_close.
OnTransportInfo(e) ==
    /\ Receives(e, "transport-info")
    /\ \/ UsesGone(e) /\ UNCHANGED <<got, ice, reg, pc>>
       \/ LET cs == Head(net[e]).cands IN
          /\ ~Gone(e)
          /\ got' = [got EXCEPT ![e] = @ \cup cs]
          /\ ice' = [ice EXCEPT ![e] = IceStarted(e)]
          /\ reg' = [reg EXCEPT ![e]["bus"] =
                        cr0[e] \cup (IF cs = {} THEN {} ELSE {"REMOTE_CANDIDATE"})]
          /\ Goto(e, "bus", "store-info")
          /\ UNCHANGED fault
    /\ net' = Consumed(e)
    /\ UNCHANGED <<session, jingle, found, local, hungup, sent>>

\* Mutation: only "session-activate" makes the callee answer.
StoreInfoSilent(e) ==
    /\ At(e, "bus", "store-info")
    /\ cr0' = [cr0 EXCEPT ![e] = reg[e]["bus"]]
    /\ Drop(e, "bus")
    /\ Goto(e, "bus", "idle")
    /\ UNCHANGED <<session, state, listening, transport, hungup, sent, got, net, fault>>

\* The flag is stored, and the callee looks whether it is time to answer.
StoreInfo(e) ==
    /\ At(e, "bus", "store-info")
    /\ cr0' = [cr0 EXCEPT ![e] = reg[e]["bus"]]
    /\ Drop(e, "bus")
    /\ GotoAnswer(e, "bus")
    /\ UNCHANGED <<session, state, listening, transport, hungup, sent, got, net, fault>>

\* __jingle_session_on_accept
OnAccept(e) ==
    /\ Receives(e, "session-accept")
    /\ Load(e, "bus")
    /\ Goto(e, "bus", "store-accept")
    /\ net' = Consumed(e)
    /\ UNCHANGED <<session, jingle, transport, hungup, sent, got, fault>>

\* The flags come first, then the session is looked up.
StoreAccept(e) ==
    /\ At(e, "bus", "store-accept")
    /\ cr0' = [cr0 EXCEPT ![e] = (reg[e]["bus"] \ {"PENDING"}) \cup {"RUNNING"}]
    /\ \/ UsesGone(e) /\ UNCHANGED ice
       \/ ~Gone(e) /\ ice' = [ice EXCEPT ![e] = IceStarted(e)] /\ UNCHANGED fault
    /\ Drop(e, "bus")
    /\ Goto(e, "bus", "idle")
    /\ UNCHANGED <<session, state, listening, found, local, hungup, sent, got, net>>

\* Mutation: a terminate from the peer is not remembered.
OnTerminateNoMark(e) ==
    /\ Receives(e, "session-terminate")
    /\ Goto(e, "bus", IF "STOPPED" \notin cr0[e] THEN "stop" ELSE "idle")
    /\ net' = Consumed(e)
    /\ UNCHANGED <<session, jingle, transport, hungup, reg, sent, got, fault>>

\* __jingle_session_on_terminate
OnTerminate(e) ==
    /\ Receives(e, "session-terminate")
    /\ cr0' = [cr0 EXCEPT ![e] = @ \cup {"STOPPED"}]
    /\ Goto(e, "bus", IF "STOPPED" \notin cr0[e] /\ sess[e] # "none"
                      THEN "stop" ELSE "idle")
    /\ net' = Consumed(e)
    /\ UNCHANGED <<session, state, listening, transport, hungup, reg, sent, got, fault>>

-----------------------------------------------------------------------------
(* Closing a session: x_session_close, x_object_destroy_tree, _RMOV. *)

\* The user hangs up a call that is active (GobeeConnection::endCall).
HangUp(e) ==
    /\ e \in HangsUp
    /\ At(e, "ui", "idle")
    /\ sess[e] = "open" /\ active[e]
    /\ hungup' = [hungup EXCEPT ![e] = TRUE]
    /\ Goto(e, "ui", "stop")
    /\ UNCHANGED <<reg, session, jingle, transport, sent, got, net, fault>>

\* Mutation: the stop condition of the worker is not cleared.
CloseStopKeepsBit(e, t) ==
    /\ At(e, t, "stop")
    /\ Goto(e, t, "join")
    /\ UNCHANGED <<session, jingle, transport, hungup, reg, sent, got, net, fault>>

\* session_remove: clear the stop condition of the worker and join it.
CloseStop(e, t) ==
    /\ At(e, t, "stop")
    /\ runbit' = [runbit EXCEPT ![e] = FALSE]
    /\ Goto(e, t, "join")
    /\ IF worker[e] = "none" THEN Fault(e, "nothread")
       ELSE IF worker[e] = "joined" \/ \E u \in Threads : pc[e][u] = "join"
       THEN Fault(e, "rejoin")
       ELSE UNCHANGED fault
    /\ UNCHANGED <<sess, active, worker, jingle, transport, hungup, reg, sent, got, net>>

\* Mutation: the worker is not waited for.
CloseJoinNoWait(e, t) ==
    /\ At(e, t, "join")
    /\ Goto(e, t, "destroyed")
    /\ UNCHANGED <<session, jingle, transport, hungup, reg, sent, got, net, fault>>

CloseJoin(e, t) ==
    /\ At(e, t, "join")
    /\ worker[e] = "exited"
    /\ worker' = [worker EXCEPT ![e] = "joined"]
    /\ Goto(e, t, "destroyed")
    /\ UNCHANGED <<sess, active, runbit, jingle, transport, hungup, reg, sent, got, net, fault>>

\* "session-destroy" at the jingle object: is the peer to be told?
CloseDestroyed(e, t) ==
    /\ At(e, t, "destroyed")
    /\ IF listening[e] /\ "STOPPED" \notin cr0[e] THEN Load(e, t) ELSE UNCHANGED reg
    /\ Goto(e, t, IF ~listening[e] THEN "channels"
                  ELSE IF "STOPPED" \in cr0[e] THEN "unsubscribe"
                  ELSE "mark")
    /\ UNCHANGED <<session, jingle, transport, hungup, sent, got, net, fault>>

\* __jingle_session_send_terminate
CloseMark(e, t) ==
    /\ At(e, t, "mark")
    /\ cr0' = [cr0 EXCEPT ![e] = reg[e][t] \cup {"STOPPED"}]
    /\ net' = SendTo(net, Peer(e), "session-terminate", {})
    /\ Drop(e, t)
    /\ Goto(e, t, "unsubscribe")
    /\ UNCHANGED <<session, state, listening, transport, hungup, sent, got, fault>>

\* _USBSCRB frees the cell of the listener list; a multicast of the ICE thread
\* may be at it.
CloseUnsubscribe(e, t) ==
    /\ At(e, t, "unsubscribe")
    /\ IF ice[e] = "deliver" THEN Fault(e, "cell") ELSE UNCHANGED fault
    /\ listening' = [listening EXCEPT ![e] = FALSE]
    /\ Goto(e, t, "channels")
    /\ UNCHANGED <<session, state, cr0, transport, hungup, reg, sent, got, net>>

\* The loop of x_object_destroy_tree below the session: the candidates of the
\* transport go first, while the ICE thread is still running.
CloseChannels(e, t) ==
    /\ At(e, t, "channels")
    /\ local' = [local EXCEPT ![e] = {}]
    /\ Goto(e, t, "reap")
    /\ UNCHANGED <<session, jingle, ice, found, hungup, reg, sent, got, net, fault>>

\* icectl_on_remove of the transport: stop the ICE thread and join it.
CloseReap(e, t) ==
    /\ At(e, t, "reap")
    /\ ice[e] \in {"off", "loop"}
    /\ IF ice[e] = "off" THEN Fault(e, "nothread") ELSE UNCHANGED fault
    /\ ice' = [ice EXCEPT ![e] = "joined"]
    /\ Goto(e, t, "unlink")
    /\ UNCHANGED <<session, jingle, found, local, hungup, reg, sent, got, net>>

\* _RMOV(xcs).  The list of the session holder still begins with the session.
CloseUnlink(e, t) ==
    /\ At(e, t, "unlink")
    /\ sess' = [sess EXCEPT ![e] = "closed"]
    /\ Goto(e, t, "idle")
    /\ UNCHANGED <<active, runbit, worker, jingle, transport, hungup, reg, sent, got, net, fault>>

-----------------------------------------------------------------------------
(* The session worker and the ICE thread. *)

\* __session_worker leaves its loop when it sees the bit cleared.
WorkerExit(e) ==
    /\ Ok(e)
    /\ worker[e] = "running" /\ ~runbit[e]
    /\ worker' = [worker EXCEPT ![e] = "exited"]
    /\ UNCHANGED <<sess, active, runbit, jingle, transport, hungup, reg, pc, sent, got, net, fault>>

\* __on_packet_in: a STUN answer shows a new address, which becomes a child of
\* the transport.
IceInsert(e) ==
    /\ Ok(e)
    /\ ice[e] = "loop"
    /\ \E c \in Reflexive[e] \ local[e] :
          /\ found' = [found EXCEPT ![e] = {c}]
          /\ local' = [local EXCEPT ![e] = @ \cup {c}]
    /\ ice' = [ice EXCEPT ![e] = "check"]
    /\ IF \E t \in Threads : pc[e][t] = "reap" THEN Fault(e, "tree") ELSE UNCHANGED fault
    /\ UNCHANGED <<session, jingle, hungup, reg, pc, sent, got, net>>

\* icectl_on_child_append announces it; session_tx drops the announcement if
\* the session is not active, else it multicasts it to its listeners.
IceCheck(e) ==
    /\ Ok(e)
    /\ ice[e] = "check"
    /\ IF active[e] /\ listening[e]
       THEN ice' = [ice EXCEPT ![e] = "deliver"] /\ UNCHANGED found
       ELSE /\ ice' = [ice EXCEPT ![e] = "loop"]
            /\ found' = [found EXCEPT ![e] = {}]
    /\ UNCHANGED <<session, jingle, local, hungup, reg, pc, sent, got, net, fault>>

\* jingle_msg_recv, "candidate-new": __jingle_session_send_candidate.
IceDeliver(e) ==
    /\ Ok(e)
    /\ ice[e] = "deliver"
    /\ IF cr0[e] # {}
       THEN /\ net' = SendTo(net, Peer(e), "transport-info", found[e])
            /\ sent' = [sent EXCEPT ![e] = @ \cup found[e]]
       ELSE UNCHANGED <<net, sent>>
    /\ found' = [found EXCEPT ![e] = {}]
    /\ ice' = [ice EXCEPT ![e] = "loop"]
    /\ UNCHANGED <<session, jingle, local, hungup, reg, pc, got, fault>>

-----------------------------------------------------------------------------

StartStep(e, t) ==
    StartRun(e, t) \/ StartActivate(e, t) \/ StartNotify(e, t) \/ StartInfo(e, t)

AnswerStep(e, t) == Answer(e, t) \/ AnswerLoad(e, t) \/ StoreAnswer(e, t)

CloseStep(e, t) ==
    \/ CloseStop(e, t) \/ CloseJoin(e, t) \/ CloseDestroyed(e, t) \/ CloseMark(e, t)
    \/ CloseUnsubscribe(e, t) \/ CloseChannels(e, t) \/ CloseReap(e, t)
    \/ CloseUnlink(e, t)

Receive(e) ==
    \/ OnInitiate(e) \/ OnTransportInfo(e) \/ StoreInfo(e)
    \/ OnAccept(e) \/ StoreAccept(e) \/ OnTerminate(e)

Announce(e) == IceCheck(e) \/ IceDeliver(e)

\* What thread t of e does next.
ThreadStep(e, t) ==
    /\ Ok(e)
    /\ \/ pc[e][t] \in StartSteps /\ StartStep(e, t)
       \/ pc[e][t] \in AnswerSteps /\ AnswerStep(e, t)
       \/ pc[e][t] \in CloseSteps /\ CloseStep(e, t)
       \/ t = "bus" /\ pc[e][t] \in {"idle"} \cup ReceiveSteps /\ Receive(e)

Next ==
    \/ PlaceCall
    \/ \E e \in End :
          \/ HangUp(e) \/ WorkerExit(e) \/ IceInsert(e) \/ Announce(e)
          \/ \E t \in Threads : ThreadStep(e, t)

\* Threads that are not blocked are scheduled; nobody has to call or hang up,
\* and no STUN server has to answer.
Fairness ==
    \A e \in End :
        /\ WF_vars(WorkerExit(e)) /\ WF_vars(Announce(e))
        /\ \A t \in Threads : WF_vars(ThreadStep(e, t))

Spec == Init /\ [][Next]_vars /\ Fairness

-----------------------------------------------------------------------------
(* Properties. *)

\* The callee has told the caller that it answers and has yet to mark the call
\* as running.
Answering(e) == pc[e]["bus"] \in {"answered", "store-answer"}

\* When the caller considers the call running, it has installed an address of
\* the callee and the callee has answered: it considers the call running too or
\* is about to, between __jingle_session_send_accept and the two assignments
\* behind it.  Only a callee whose user is hanging up can answer without having
\* sent an address, or stop considering the call running.  The callee in turn
\* considers it running only with an address of the caller.
RunningAgreement ==
    /\ "RUNNING" \in cr0["caller"] /\ ~hungup["callee"] =>
          /\ got["caller"] # {}
          /\ "RUNNING" \in cr0["callee"] \/ Answering("callee")
    /\ "RUNNING" \in cr0["callee"] => got["callee"] # {}

\* No local candidate is forgotten between the list that
\* __jingle_session_send_transport_info sends and the announcements that
\* session_tx ignores on an inactive session: once both have finished, the peer
\* was told of every candidate in the transport.
NoCandidateLost ==
    \A e \in End :
        (/\ active[e] /\ listening[e] /\ ice[e] \in {"off", "loop"}
         /\ \A t \in Threads : pc[e][t] \notin StartSteps)
        => local[e] \subseteq sent[e]

\* session-terminate is sent only by a side whose own user hung up ("session
\* closed by us"), never as an echo of the peer's session-terminate.
TerminateIsOurs ==
    \A e \in End :
        (\E i \in DOMAIN net[Peer(e)] : net[Peer(e)][i].action = "session-terminate")
        => hungup[e]

\* A session that x_session_close has finished with has no thread left.
NoOrphanThread ==
    \A e \in End : sess[e] = "closed" => worker[e] = "joined" /\ ice[e] = "joined"

\* A call that was placed and that nobody hangs up ends up running on both
\* sides.  (What the property is conditional on here and in HangUpReaches is
\* never undone, so this is the same as ~>.)
CallIsAnswered ==
    []<>(sess["caller"] # "none" => \/ \A e \in End : "RUNNING" \in cr0[e]
                                    \/ \E e \in End : hungup[e] \/ ~Ok(e))

\* Once a user hangs up, x_session_close returns there and the other side
\* closes its session too; only a side that met a fault, or was not hung up and
\* waits for one that did, is left out.
HangUpReaches ==
    []<>((\E e \in End : hungup[e]) =>
            \A e \in End : \/ sess[e] = "closed"
                           \/ ~Ok(e)
                           \/ ~hungup[e] /\ ~Ok(Peer(e)))

\* The call as each user sees it.
Phase(e) ==
    IF sess[e] = "none" THEN "idle"
    ELSE IF sess[e] = "closed" THEN "over"
    ELSE IF hungup[e] \/ "STOPPED" \in cr0[e] THEN "ending"
    ELSE IF "RUNNING" \in cr0[e] THEN "talking"
    ELSE IF Answering(e) THEN "answering"
    ELSE "ringing"

Abstract == INSTANCE Call WITH
    phase <- [e \in End |-> Phase(e)],
    left <- {e \in End : hungup[e]}

\* The two sides, with all their threads, the races on cr0 and the messages
\* that cross, make a call as Call describes it: the caller talks only to a
\* callee that has picked up, which may have yet to mark the call as running;
\* no side goes back to an earlier phase, or is thrown out of a call that no
\* user left.
MakesACall == Abstract!Spec

\* "Closes and releases session object": no message that arrives after
\* x_session_close has finished with a session leads a handler into it.
ClosedIsReleased == \A e \in End : "late" \notin fault[e]

=============================================================================
