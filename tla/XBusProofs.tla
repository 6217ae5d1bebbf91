----------------------------- MODULE XBusProofs ------------------------------
(***************************************************************************)
(* Proofs about XBus: the type invariant, that client and server take      *)
(* turns until the login is done, that no password goes out before TLS,    *)
(* that the user is announced once, and that XBus implements Login.        *)
(*                                                                         *)
(* What the server sends is read one event at a time, so between two       *)
(* answers the cursor of the parser and what is still on the wire must fit *)
(* together.  The invariant says how with small automata: the cursor is at *)
(* a state of one of them, and the wire leads from there to another.       *)
(***************************************************************************)
EXTENDS XBus, ListFacts

-----------------------------------------------------------------------------
(* Trails: the wire read as a path through an automaton. *)

\* Where the cursor is, by the state of the automaton.
At == [bus |-> <<>>, stream |-> <<"stream">>, offered |-> <<"stream">>,
       ready |-> <<"stream">>,
       offer |-> <<"stream", "features">>, features |-> <<"stream", "features">>,
       starttls |-> <<"stream", "features", "starttls">>,
       mechanisms |-> <<"stream", "features", "mechanisms">>,
       bind |-> <<"stream", "features", "bind">>,
       proceed |-> <<"stream", "proceed">>, refused |-> <<"stream", "tls-failure">>,
       success |-> <<"stream", "success">>, failure |-> <<"stream", "failure">>,
       iq |-> <<"stream", "iq">>, iqbind |-> <<"stream", "iq", "bind">>]
States == {"bus", "stream", "offered", "ready", "offer", "features", "starttls",
           "mechanisms", "bind", "proceed", "refused", "success", "failure", "iq", "iqbind"}

\* A trail of moves <<state, op, name, state>> from q to z reads the events w.
Trail(M, q, w, z) ==
    /\ w \in Seq(Events)
    /\ \E tr \in [0 .. Len(w) -> States] :
          /\ tr[0] = q /\ tr[Len(w)] = z
          /\ \A i \in 1 .. Len(w) : <<tr[i - 1], w[i].op, w[i].name, tr[i]>> \in M

\* The server's header and its features before login.  A server that asks for
\* TLS first lists starttls before anything else.
OfferMoves(tlsFirst) ==
    {<<"bus", "open", "stream", "stream">>,
     <<"stream", "open", "features", "offer">>,
     <<"offer", "open", "starttls", "starttls">>,
     <<"offer", "close", "features", "offered">>,
     <<"starttls", "close", "starttls", "features">>,
     <<"features", "open", "starttls", "starttls">>,
     <<"features", "open", "mechanisms", "mechanisms">>,
     <<"mechanisms", "leaf", "PLAIN", "mechanisms">>,
     <<"mechanisms", "leaf", "DIGEST-MD5", "mechanisms">>,
     <<"mechanisms", "close", "mechanisms", "features">>,
     <<"features", "close", "features", "offered">>}
    \cup (IF tlsFirst THEN {} ELSE {<<"offer", "open", "mechanisms", "mechanisms">>})

\* An answer to starttls or auth.
AnswerMoves(a) ==
    CASE a = "proceed" -> {<<"offered", "open", "proceed", "proceed">>,
                           <<"proceed", "close", "proceed", "bus">>}
      [] a = "refused" -> {<<"offered", "open", "tls-failure", "refused">>,
                           <<"refused", "close", "tls-failure", "offered">>}
      [] a = "success" -> {<<"offered", "open", "success", "success">>,
                           <<"success", "close", "success", "bus">>}
      [] a = "failure" -> {<<"offered", "open", "failure", "failure">>,
                           <<"failure", "close", "failure", "bus">>}
Answers == {"proceed", "refused", "success", "failure"}

\* The server's header and its features after login.
BindMoves ==
    {<<"bus", "open", "stream", "stream">>,
     <<"stream", "open", "features", "features">>,
     <<"features", "open", "bind", "bind">>,
     <<"bind", "close", "bind", "features">>,
     <<"features", "close", "features", "ready">>}

\* The same, and the answers to bind and session; a jid is only in the answer of
\* a server that has bound a resource.
SessionMoves(bound) ==
    BindMoves \cup
    {<<"ready", "open", "iq", "iq">>,
     <<"iq", "open", "bind", "iqbind">>,
     <<"iqbind", "close", "bind", "iq">>,
     <<"iq", "close", "iq", "ready">>}
    \cup (IF bound THEN {<<"iqbind", "leaf", "jid", "iqbind">>} ELSE {})

-----------------------------------------------------------------------------
(* The inductive invariant. *)

\* The objects of a stream that are used to bind a resource: a jid only comes
\* in an iq, and the bind of an iq only after the one of the features.
Sound(s) ==
    /\ s.jid \subseteq {"iq"}
    /\ "iq" \in s.jid => s.bind["iq"] # "absent"
    /\ s.bind["iq"] # "absent" => s.bind["features"] # "absent"

\* The streams below the bus: what the parser works in is the first one, and
\* the ones behind it are as they were made.
Tree ==
    /\ streams \in Seq(Streams)
    /\ \A i \in DOMAIN streams : streams[i].rc > 0 /\ (i > 1 => streams[i] = NewStream)
    /\ IF conn = "off" THEN streams = <<>> ELSE streams # <<>> /\ Sound(First)

\* What the server knows of the connection.
Server ==
    /\ srv \in [offer : Offers, mechs : Mechanisms, open : BOOLEAN, tls : BOOLEAN,
                authed : BOOLEAN, rejects : 0 .. MaxRejects,
                bound : BOOLEAN, refusals : Nat]
    /\ srv.bound => srv.authed
    /\ conn = "up" /\ srv.tls => tls

\* The connection is not encrypted yet although its server asks for TLS.
Plain == conn = "up" /\ AsksForTls /\ ~tls

Silent == out = <<>> /\ shown = 0

\* A header was written.
Calling ==
    /\ conn = "up" /\ out = <<"header">> /\ wire = <<>> /\ path = <<>> /\ shown = 0
    /\ srv.authed => ~Plain /\ First.msgslot = "none"
    /\ Plain => First.listed = {} /\ First.msgslot = "none"

\* The message that features_tx kept was written.
Asking ==
    /\ conn = "up" /\ out \in {<<"starttls">>, <<"auth">>} /\ wire = <<>>
    /\ path = <<"stream">> /\ shown = 0
    /\ ~srv.authed /\ First.msgslot = "none"
    /\ Plain => out = <<"starttls">>

\* Features are read, or were left on the wire by a connection that broke.
Offered(q) ==
    /\ Silent /\ ~srv.authed
    /\ path = At[q]
    /\ \E z \in States : Trail(OfferMoves(Plain), q, wire, z)
    /\ Plain => /\ q \in {"bus", "stream", "offer"} =>
                       First.listed = {} /\ First.msgslot = "none"
                /\ q \in {"starttls", "features", "mechanisms"} =>
                       First.msgslot = "starttls"

\* The answer to starttls or auth is read.
Answered(a, q) ==
    /\ Silent
    /\ srv.authed = (a = "success")
    /\ path = At[q]
    /\ \E z \in States : Trail(AnswerMoves(a), q, wire, z)
    /\ First.msgslot = "none"
    /\ a \in {"success", "failure"} => ~Plain

\* After login, no resource has been asked for on this connection.
Binding(q) ==
    /\ Silent /\ srv.authed /\ ~Plain
    /\ path = At[q]
    /\ \E z \in States : Trail(BindMoves, q, wire, z) /\ (conn = "up" => z = "ready")
    /\ First.msgslot = "none"

\* After login, a resource has been asked for.
Session(q) ==
    /\ srv.authed /\ ~Plain
    /\ out \in Seq({"bind", "session", "presence"}) /\ (conn # "up" => out = <<>>)
    /\ path = At[q]
    /\ \E z \in States : /\ Trail(SessionMoves(srv.bound), q, wire, z)
                         /\ conn = "up" => z = "ready"
    /\ First.msgslot = "none"
    /\ First.bind["features"] # "absent"
    /\ q = "iqbind" => First.bind["iq"] # "absent"
    /\ "iq" \in First.jid => srv.bound
    /\ shown \in {0, 1}
    /\ shown = 1 => srv.bound /\ First.bind["iq"] = "BIND_OK"

Phase ==
    \/ Calling
    \/ Asking
    \/ \E q \in States : Offered(q)
    \/ \E a \in Answers, q \in States : Answered(a, q)
    \/ \E q \in States : Binding(q)
    \/ \E q \in States : Session(q)

IInv ==
    /\ conn \in {"off", "up", "lost"}
    /\ tls \in BOOLEAN
    /\ restarts \in 0 .. MaxRestarts
    /\ conn = "off" => wire = <<>> /\ path = <<>>
    /\ Tree
    /\ Server
    /\ Phase

-----------------------------------------------------------------------------
(* Facts about trails. *)

\* An empty wire leads nowhere.
LEMMA TrailEmpty ==
    ASSUME NEW M, NEW q \in States
    PROVE  Trail(M, q, <<>>, q)
  <1> DEFINE tr == [i \in 0 .. 0 |-> q]
  <1>1. tr \in [0 .. 0 -> States] /\ tr[0] = q
    OBVIOUS
  <1>2. << >> \in Seq(Events) /\ Len(<< >>) = 0
    OBVIOUS
  <1>3. \A i \in 1 .. 0 : <<tr[i - 1], << >>[i].op, << >>[i].name, tr[i]>> \in M
    OBVIOUS
  <1> HIDE DEF tr
  <1> QED
    BY <1>1, <1>2, <1>3 DEF Trail

\* One event is one move.
LEMMA TrailOne ==
    ASSUME NEW M, NEW q \in States, NEW r \in States, NEW e \in Events,
           <<q, e.op, e.name, r>> \in M
    PROVE  Trail(M, q, <<e>>, r)
  <1> DEFINE tr == [i \in 0 .. 1 |-> IF i = 0 THEN q ELSE r]
  <1>1. tr \in [0 .. 1 -> States] /\ tr[0] = q /\ tr[1] = r
    OBVIOUS
  <1>2. <<e>> \in Seq(Events) /\ Len(<<e>>) = 1 /\ <<e>>[1] = e
    OBVIOUS
  <1> HIDE DEF tr
  <1>3. \A i \in 1 .. 1 : <<tr[i - 1], <<e>>[i].op, <<e>>[i].name, tr[i]>> \in M
    <2> SUFFICES ASSUME NEW i \in 1 .. 1
                 PROVE  <<tr[i - 1], <<e>>[i].op, <<e>>[i].name, tr[i]>> \in M
      OBVIOUS
    <2>1. i = 1 /\ i - 1 = 0
      OBVIOUS
    <2>2. tr[i - 1] = q /\ tr[i] = r /\ <<e>>[i] = e
      BY <1>1, <1>2, <2>1
    <2> QED
      BY <2>2
  <1> QED
    BY <1>1, <1>2, <1>3 DEF Trail

\* More moves allow every trail that fewer allow.
LEMMA TrailMore ==
    ASSUME NEW M, NEW N, M \subseteq N, NEW q, NEW z, NEW w, Trail(M, q, w, z)
    PROVE  Trail(N, q, w, z)
  BY DEF Trail

\* Reading an event is the first move of the trail.
LEMMA TrailHead ==
    ASSUME NEW M, NEW q, NEW z, NEW w, Trail(M, q, w, z), w # <<>>
    PROVE  \E r \in States : /\ <<q, Head(w).op, Head(w).name, r>> \in M
                             /\ Trail(M, r, Tail(w), z)
  <1>1. w \in Seq(Events) /\ Len(w) \in Nat /\ Len(w) > 0
    BY EmptySeq, LenProperties DEF Trail
  <1> DEFINE n == Len(w)
             v == Tail(w)
  <1>2. PICK tr \in [0 .. n -> States] :
           /\ tr[0] = q /\ tr[n] = z
           /\ \A i \in 1 .. n : <<tr[i - 1], w[i].op, w[i].name, tr[i]>> \in M
    BY DEF Trail
  <1>3. v \in Seq(Events) /\ Len(v) = n - 1 /\ \A i \in 1 .. n - 1 : v[i] = w[i + 1]
    BY <1>1, HeadTailProperties
  <1>4. Head(w) = w[1]
    BY <1>1
  <1> HIDE DEF n, v
  <1> DEFINE t == [i \in 0 .. n - 1 |-> tr[i + 1]]
  <1>5. n \in Nat /\ n > 0 /\ n - 1 \in Nat /\ 1 \in 1 .. n /\ 1 - 1 = 0 /\ n - 1 + 1 = n
    BY <1>1 DEF n
  <1>6. t \in [0 .. n - 1 -> States] /\ t[0] = tr[1] /\ t[n - 1] = z
    <2>1. \A i \in 0 .. n - 1 : i + 1 \in 0 .. n
      BY <1>5
    <2> QED
      BY <1>2, <1>5, <2>1
  <1>7. <<q, w[1].op, w[1].name, tr[1]>> \in M /\ tr[1] \in States
    BY <1>2, <1>5
  <1>8. \A i \in 1 .. n - 1 : <<t[i - 1], v[i].op, v[i].name, t[i]>> \in M
    <2> SUFFICES ASSUME NEW i \in 1 .. n - 1
                 PROVE  <<t[i - 1], v[i].op, v[i].name, t[i]>> \in M
      OBVIOUS
    <2>1. i \in 0 .. n - 1 /\ i - 1 \in 0 .. n - 1 /\ i + 1 \in 1 .. n /\ i - 1 + 1 = i
          /\ (i + 1) - 1 = i
      BY <1>5
    <2>2. t[i - 1] = tr[i] /\ t[i] = tr[i + 1] /\ v[i] = w[i + 1]
      BY <1>3, <2>1
    <2>3. <<tr[(i + 1) - 1], w[i + 1].op, w[i + 1].name, tr[i + 1]>> \in M
      BY <1>2, <2>1
    <2> HIDE DEF t
    <2> QED
      BY <2>1, <2>2, <2>3
  <1> HIDE DEF t
  <1>9. Trail(M, tr[1], v, z)
    BY <1>3, <1>6, <1>8 DEF Trail
  <1> QED
    BY <1>4, <1>7, <1>9 DEF v

\* What is left of the wire when the connection breaks is a trail as well.
LEMMA TrailPrefix ==
    ASSUME NEW M, NEW q, NEW z, NEW w, Trail(M, q, w, z), NEW k \in 0 .. Len(w)
    PROVE  \E y \in States : Trail(M, q, SubSeq(w, 1, k), y)
  <1> DEFINE n == Len(w)
             v == SubSeq(w, 1, k)
  <1>1. w \in Seq(Events) /\ n \in Nat
    BY LenProperties DEF Trail
  <1>2. PICK tr \in [0 .. n -> States] :
           /\ tr[0] = q /\ tr[n] = z
           /\ \A i \in 1 .. n : <<tr[i - 1], w[i].op, w[i].name, tr[i]>> \in M
    BY DEF Trail
  <1>3. /\ v \in Seq(Events) /\ Len(v) = k + 1 - 1
        /\ \A i \in 1 .. k + 1 - 1 : v[i] = w[1 + i - 1]
    <2>1. k \in Nat /\ 1 <= k + 1 /\ k <= Len(w) /\ 1 \in Nat /\ 1 <= 1
      BY <1>1
    <2> QED
      BY <1>1, <2>1, Part
  <1>4. k \in 0 .. n
    OBVIOUS
  <1> HIDE DEF n, v
  <1> DEFINE t == [i \in 0 .. k |-> tr[i]]
  <1>5. t \in [0 .. k -> States] /\ t[0] = q /\ t[k] \in States
    <2>1. \A i \in 0 .. k : i \in 0 .. n
      BY <1>1, <1>4
    <2>2. 0 \in 0 .. k /\ k \in 0 .. k
      BY <1>1, <1>4
    <2> QED
      BY <1>2, <2>1, <2>2
  <1>6. \A i \in 1 .. k : <<t[i - 1], v[i].op, v[i].name, t[i]>> \in M
    <2> SUFFICES ASSUME NEW i \in 1 .. k
                 PROVE  <<t[i - 1], v[i].op, v[i].name, t[i]>> \in M
      OBVIOUS
    <2>1. i \in 0 .. k /\ i - 1 \in 0 .. k /\ i \in 1 .. n /\ i \in 1 .. k + 1 - 1 /\ 1 + i - 1 = i
      BY <1>1, <1>4
    <2>2. t[i - 1] = tr[i - 1] /\ t[i] = tr[i] /\ v[i] = w[i]
      BY <1>3, <2>1
    <2>3. <<tr[i - 1], w[i].op, w[i].name, tr[i]>> \in M
      BY <1>2, <2>1
    <2> HIDE DEF t
    <2> QED
      BY <2>2, <2>3
  <1>7. Len(v) = k
    BY <1>1, <1>3, <1>4
  <1> HIDE DEF t
  <1>8. Trail(M, q, v, t[k])
    BY <1>3, <1>5, <1>6, <1>7 DEF Trail
  <1> QED
    BY <1>5, <1>8 DEF v

\* What is sent behind the wire goes on where the wire ends.
LEMMA TrailConcat ==
    ASSUME NEW M, NEW q, NEW y, NEW z, NEW v, NEW w, Trail(M, q, v, y), Trail(M, y, w, z)
    PROVE  Trail(M, q, v \o w, z)
  <1> DEFINE m == Len(v)
             n == Len(w)
             u == v \o w
  <1>1. v \in Seq(Events) /\ w \in Seq(Events) /\ m \in Nat /\ n \in Nat
    BY LenProperties DEF Trail
  <1>2. PICK a \in [0 .. m -> States] :
           /\ a[0] = q /\ a[m] = y
           /\ \A i \in 1 .. m : <<a[i - 1], v[i].op, v[i].name, a[i]>> \in M
    BY DEF Trail
  <1>3. PICK b \in [0 .. n -> States] :
           /\ b[0] = y /\ b[n] = z
           /\ \A i \in 1 .. n : <<b[i - 1], w[i].op, w[i].name, b[i]>> \in M
    BY DEF Trail
  <1>4. /\ u \in Seq(Events) /\ Len(u) = m + n
        /\ \A i \in 1 .. m + n : u[i] = IF i <= m THEN v[i] ELSE w[i - m]
    BY <1>1, ConcatProperties, Zenon
  <1> HIDE DEF m, n, u
  <1> DEFINE t == [i \in 0 .. m + n |-> IF i <= m THEN a[i] ELSE b[i - m]]
  <1>5. t \in [0 .. m + n -> States]
    <2>1. \A i \in 0 .. m + n : (i <= m => i \in 0 .. m) /\ (~(i <= m) => i - m \in 0 .. n)
      BY <1>1
    <2> QED
      BY <1>2, <1>3, <2>1
  <1>6. t[0] = q /\ t[m + n] = z
    <2>1. 0 \in 0 .. m + n /\ m + n \in 0 .. m + n /\ 0 <= m /\ m + n - m = n
          /\ (m + n <= m => n = 0 /\ m + n = m)
      BY <1>1
    <2>2. \A i \in 0 .. m + n : t[i] = IF i <= m THEN a[i] ELSE b[i - m]
      OBVIOUS
    <2>5. t[0] = a[0] /\ t[m + n] = IF m + n <= m THEN a[m + n] ELSE b[n]
      <3> HIDE DEF t
      <3>1. t[0] = IF 0 <= m THEN a[0] ELSE b[0 - m]
        BY <2>1, <2>2
      <3>2. \A k \in 0 .. m + n : k = m + n => t[k] = IF k <= m THEN a[k] ELSE b[n]
        <4> SUFFICES ASSUME NEW k \in 0 .. m + n, k = m + n
                     PROVE  t[k] = IF k <= m THEN a[k] ELSE b[n]
          OBVIOUS
        <4>1. t[k] = IF k <= m THEN a[k] ELSE b[k - m]
          BY <2>2
        <4>2. k - m = n
          BY <1>1
        <4> QED
          BY <4>1, <4>2
      <3> QED
        BY <1>1, <2>1, <3>1, <3>2
    <2> HIDE DEF t
    <2>3. CASE m + n <= m
      BY <1>2, <1>3, <2>1, <2>3, <2>5
    <2>4. CASE ~(m + n <= m)
      BY <1>2, <1>3, <2>1, <2>4, <2>5
    <2> QED
      BY <2>3, <2>4
  <1>7. \A i \in 1 .. m + n : <<t[i - 1], u[i].op, u[i].name, t[i]>> \in M
    <2> SUFFICES ASSUME NEW i \in 1 .. m + n
                 PROVE  <<t[i - 1], u[i].op, u[i].name, t[i]>> \in M
      OBVIOUS
    <2>0. i \in 0 .. m + n /\ i - 1 \in 0 .. m + n
      BY <1>1
    <2>1. /\ t[i] = IF i <= m THEN a[i] ELSE b[i - m]
          /\ t[i - 1] = IF i - 1 <= m THEN a[i - 1] ELSE b[(i - 1) - m]
          /\ u[i] = IF i <= m THEN v[i] ELSE w[i - m]
      BY <1>4, <2>0
    <2> HIDE DEF t
    <2>2. CASE i <= m
      <3>1. i \in 1 .. m /\ i - 1 <= m
        BY <1>1, <2>2
      <3>2. t[i] = a[i] /\ t[i - 1] = a[i - 1] /\ u[i] = v[i]
        BY <2>1, <2>2, <3>1
      <3> QED
        BY <1>2, <3>1, <3>2
    <2>3. CASE ~(i <= m)
      <3>1. i - m \in 1 .. n /\ (i - m) - 1 = (i - 1) - m
            /\ (i - 1 <= m => i - 1 = m /\ (i - m) - 1 = 0)
        BY <1>1, <2>3
      <3>2. t[i] = b[i - m] /\ u[i] = w[i - m]
        BY <2>1, <2>3
      <3>3. t[i - 1] = b[(i - m) - 1]
        <4>1. a[m] = b[0]
          BY <1>2, <1>3
        <4>2. CASE i - 1 <= m
          BY <2>1, <3>1, <4>1, <4>2
        <4>3. CASE ~(i - 1 <= m)
          BY <2>1, <3>1, <4>3
        <4> QED
          BY <4>2, <4>3
      <3>4. <<b[(i - m) - 1], w[i - m].op, w[i - m].name, b[i - m]>> \in M
        BY <1>3, <3>1
      <3> QED
        BY <3>2, <3>3, <3>4
    <2> QED
      BY <2>2, <2>3
  <1> HIDE DEF t
  <1> QED
    BY <1>4, <1>5, <1>6, <1>7 DEF Trail, u

\* FlattenSeq is defined by recursion over the list: the function exists.
LEMMA FlattenFunction ==
    ASSUME NEW ws \in Seq(Seq(Events)), ws # <<>>
    PROVE  \E g \in [1 .. Len(ws) -> Seq(Events)] :
              /\ g[1] = ws[1]
              /\ \A i \in 2 .. Len(ws) : g[i] = g[i - 1] \o ws[i]
              /\ FlattenSeq(ws) = g[Len(ws)]
  <1> DEFINE n == Len(ws)
             Upto(g, k) == g[1] = ws[1] /\ \A i \in 2 .. k : g[i] = g[i - 1] \o ws[i]
             Good(k) == \E g \in [1 .. k -> Seq(Events)] : Upto(g, k)
             Bad == {k \in 1 .. n : ~Good(k)}
  <1>1. n \in Nat /\ n > 0 /\ \A i \in 1 .. n : ws[i] \in Seq(Events)
    BY EmptySeq, LenProperties, ElementOfSeq
  <1> HIDE DEF n, Good
  <1>2. Bad = {}
    <2> SUFFICES ASSUME Bad # {} PROVE FALSE
      OBVIOUS
    <2>1. Bad \in SUBSET Nat
      BY <1>1
    <2>2. PICK k \in Bad : \A j \in Bad : k <= j
      BY <2>1, LeastExists
    <2>3. k \in 1 .. n /\ k \in Nat /\ ws[k] \in Seq(Events)
      BY <1>1, <2>2
    <2>4. CASE k = 1
      <3> DEFINE g == [i \in 1 .. 1 |-> ws[1]]
      <3>1. g \in [1 .. k -> Seq(Events)] /\ g[1] = ws[1]
        BY <2>3, <2>4
      <3>2. \A i \in 2 .. k : g[i] = g[i - 1] \o ws[i]
        BY <2>4
      <3> HIDE DEF g
      <3> QED
        BY <2>2, <3>1, <3>2 DEF Good
    <2>5. CASE k # 1
      <3>1. k - 1 \in 1 .. n /\ k - 1 \in Nat /\ ~(k <= k - 1) /\ k \in 2 .. n
        BY <1>1, <2>3, <2>5
      <3>2. k - 1 \notin Bad
        BY <2>2, <3>1
      <3>3. PICK g \in [1 .. k - 1 -> Seq(Events)] : Upto(g, k - 1)
        BY <3>1, <3>2 DEF Good
      <3> DEFINE c == g[k - 1] \o ws[k]
      <3>4. c \in Seq(Events)
        <4>1. g[k - 1] \in Seq(Events)
          BY <3>1, <3>3
        <4> QED
          BY <2>3, <4>1, ConcatProperties
      <3> HIDE DEF c
      <3> DEFINE h == [i \in 1 .. k |-> IF i = k THEN c ELSE g[i]]
      <3>5. h \in [1 .. k -> Seq(Events)]
        <4>1. \A i \in 1 .. k : i # k => i \in 1 .. k - 1
          BY <2>3
        <4> QED
          BY <3>3, <3>4, <4>1
      <3>6. h[1] = ws[1]
        BY <2>3, <2>5, <3>3
      <3>7. \A i \in 2 .. k : h[i] = h[i - 1] \o ws[i]
        <4> SUFFICES ASSUME NEW i \in 2 .. k PROVE h[i] = h[i - 1] \o ws[i]
          OBVIOUS
        <4>1. i \in 1 .. k /\ i - 1 \in 1 .. k /\ i - 1 # k /\ (i # k => i \in 2 .. k - 1)
          BY <2>3
        <4>2. h[i - 1] = g[i - 1]
          BY <4>1
        <4>3. CASE i = k
          BY <4>1, <4>2, <4>3 DEF c
        <4>4. CASE i # k
          <5>1. h[i] = g[i]
            BY <4>1, <4>4
          <5> HIDE DEF h
          <5> QED
            BY <3>3, <4>1, <4>2, <4>4, <5>1
        <4> QED
          BY <4>3, <4>4
      <3> HIDE DEF h
      <3>8. Upto(h, k)
        BY <3>6, <3>7
      <3> QED
        BY <2>2, <3>5, <3>8 DEF Good
    <2> QED
      BY <2>4, <2>5
  <1>3. PICK g \in [1 .. n -> Seq(Events)] : Upto(g, n)
    <2>1. n \in 1 .. n
      BY <1>1
    <2>2. Good(n)
      BY <1>2, <2>1
    <2> QED
      BY <2>2 DEF Good
  <1> DEFINE F(f) == f = [i \in 1 .. n |-> IF i = 1 THEN ws[i] ELSE f[i - 1] \o ws[i]]
  <1>4. F(g)
    <2>1. \A i \in 1 .. n : g[i] = IF i = 1 THEN ws[i] ELSE g[i - 1] \o ws[i]
      <3> SUFFICES ASSUME NEW i \in 1 .. n
                   PROVE  g[i] = IF i = 1 THEN ws[i] ELSE g[i - 1] \o ws[i]
        OBVIOUS
      <3>1. CASE i = 1
        BY <1>3, <3>1
      <3>2. CASE i # 1
        <4>1. i \in 2 .. n
          BY <1>1, <3>2
        <4> QED
          BY <1>3, <3>2, <4>1
      <3> QED
        BY <3>1, <3>2
    <2> QED
      BY <1>3, <2>1
  <1> DEFINE f == CHOOSE h : F(h)
  <1>5. F(f)
    BY <1>4
  <1>6. FlattenSeq(ws) = f[n]
    BY <1>1 DEF FlattenSeq, n
  <1> HIDE DEF f
  <1>7. f[1] = ws[1] /\ \A i \in 2 .. n : f[i] = f[i - 1] \o ws[i]
    <2>1. f[1] = ws[1]
      BY <1>1, <1>5
    <2>2. ASSUME NEW i \in 2 .. n PROVE f[i] = f[i - 1] \o ws[i]
      <3>1. i \in 1 .. n /\ i # 1
        BY <1>1
      <3> QED
        BY <1>5, <3>1
    <2> QED
      BY <2>1, <2>2
  <1> DEFINE Ugly == {k \in 1 .. n : f[k] # g[k]}
  <1>8. Ugly = {}
    <2> SUFFICES ASSUME Ugly # {} PROVE FALSE
      OBVIOUS
    <2>1. Ugly \in SUBSET Nat
      BY <1>1
    <2>2. PICK k \in Ugly : \A j \in Ugly : k <= j
      BY <2>1, LeastExists
    <2>3. k \in 1 .. n /\ f[k] # g[k]
      BY <2>2
    <2>4. k # 1
      BY <1>3, <1>7, <2>3
    <2>5. k \in 2 .. n /\ k - 1 \in 1 .. n /\ ~(k <= k - 1)
      BY <1>1, <2>3, <2>4
    <2>6. f[k - 1] = g[k - 1]
      BY <2>2, <2>5
    <2> QED
      BY <1>3, <1>7, <2>3, <2>5, <2>6
  <1>9. n \in 1 .. n
    BY <1>1
  <1>10. f[n] = g[n]
    BY <1>8, <1>9
  <1> QED
    BY <1>3, <1>6, <1>10 DEF n

\* A list of parts that each lead back to b, the first one from a, leads from a
\* to b.
LEMMA TrailFlatten ==
    ASSUME NEW M, NEW a \in States, NEW b \in States,
           NEW ws \in Seq(Seq(Events)), ws # <<>>,
           Trail(M, a, ws[1], b),
           \A i \in 1 .. Len(ws) : Trail(M, b, ws[i], b)
    PROVE  Trail(M, a, FlattenSeq(ws), b)
  <1> DEFINE n == Len(ws)
  <1>1. PICK g \in [1 .. n -> Seq(Events)] :
              /\ g[1] = ws[1]
              /\ \A i \in 2 .. n : g[i] = g[i - 1] \o ws[i]
              /\ FlattenSeq(ws) = g[n]
    BY FlattenFunction
  <1>2. n \in Nat /\ n > 0
    BY EmptySeq, LenProperties
  <1>3. \A i \in 1 .. n : Trail(M, b, ws[i], b)
    OBVIOUS
  <1> HIDE DEF n
  <1> DEFINE Bad == {k \in 1 .. n : ~Trail(M, a, g[k], b)}
  <1>4. Bad = {}
    <2> SUFFICES ASSUME Bad # {} PROVE FALSE
      OBVIOUS
    <2>1. Bad \in SUBSET Nat
      BY <1>2
    <2>2. PICK k \in Bad : \A j \in Bad : k <= j
      BY <2>1, LeastExists
    <2>3. k \in 1 .. n /\ ~Trail(M, a, g[k], b)
      BY <2>2
    <2>4. k # 1
      BY <1>1, <2>3
    <2>5. k \in 2 .. n /\ k - 1 \in 1 .. n /\ ~(k <= k - 1)
      BY <1>2, <2>3, <2>4
    <2>6. Trail(M, a, g[k - 1], b)
      BY <2>2, <2>5
    <2>7. g[k] = g[k - 1] \o ws[k]
      BY <1>1, <2>5
    <2>8. Trail(M, b, ws[k], b)
      BY <1>3, <2>3
    <2>9. Trail(M, a, g[k - 1] \o ws[k], b)
      BY <2>6, <2>8, TrailConcat
    <2> QED
      BY <2>3, <2>7, <2>9
  <1>5. n \in 1 .. n
    BY <1>2
  <1> QED
    BY <1>1, <1>4, <1>5

\* The texts of an element are read at one place.
LEMMA TrailTexts ==
    ASSUME NEW M, NEW q \in States, NEW S, IsFiniteSet(S),
           \A x \in S : /\ [op |-> "leaf", name |-> x] \in Events
                        /\ <<q, "leaf", x, q>> \in M
    PROVE  Trail(M, q, Texts(S), q)
  <1> DEFINE n == Cardinality(S)
             w == SetToSeq(S)
             t == Texts(S)
  <1>1. n \in Nat /\ ExistsBijection(1 .. n, S)
    BY FS_CardinalityType
  <1>2. PICK g \in [1 .. n -> S] : IsInjective(g)
    BY <1>1 DEF ExistsBijection, Bijection, Injection
  <1>3. w \in [1 .. n -> S]
    BY <1>2 DEF SetToSeq
  <1>4. Len(w) = n
    BY <1>1, <1>3, FunctionIsSeq
  <1>5. t = [i \in 1 .. n |-> [op |-> "leaf", name |-> w[i]]]
    BY <1>4 DEF Texts
  <1> HIDE DEF n, w, t
  <1>6. \A i \in 1 .. n : t[i] = [op |-> "leaf", name |-> w[i]] /\ t[i] \in Events
    BY <1>3, <1>5
  <1>7. t \in Seq(Events) /\ Len(t) = n
    <2>1. t \in [1 .. n -> Events]
      BY <1>5, <1>6
    <2> QED
      BY <1>1, <2>1, FunctionIsSeq
  <1> DEFINE tr == [i \in 0 .. n |-> q]
  <1>8. tr \in [0 .. n -> States] /\ tr[0] = q /\ tr[n] = q
    BY <1>1
  <1>9. \A i \in 1 .. n : <<tr[i - 1], t[i].op, t[i].name, tr[i]>> \in M
    <2> SUFFICES ASSUME NEW i \in 1 .. n
                 PROVE  <<tr[i - 1], t[i].op, t[i].name, tr[i]>> \in M
      OBVIOUS
    <2>1. i \in 0 .. n /\ i - 1 \in 0 .. n
      BY <1>1
    <2>2. tr[i - 1] = q /\ tr[i] = q
      BY <2>1
    <2>3. t[i].op = "leaf" /\ t[i].name = w[i] /\ w[i] \in S
      <3>1. t[i] = [op |-> "leaf", name |-> w[i]] /\ w[i] \in S
        BY <1>3, <1>6
      <3> QED
        BY <3>1
    <2> HIDE DEF tr
    <2> QED
      BY <2>2, <2>3
  <1> HIDE DEF tr
  <1> QED
    BY <1>7, <1>8, <1>9 DEF Trail, t

-----------------------------------------------------------------------------
(* What the server sends. *)

Names == Children \cup {"stream", "starttls", "mechanisms", "bind", "PLAIN", "DIGEST-MD5", "jid"}

\* The events of an element.
LEMMA EventsOf ==
    ASSUME NEW name \in Names
    PROVE  /\ Opens(name) \in Events /\ Opens(name).op = "open" /\ Opens(name).name = name
           /\ Closes(name) \in Events /\ Closes(name).op = "close" /\ Closes(name).name = name
           /\ [op |-> "leaf", name |-> name] \in Events
  BY DEF Names, Events, Opens, Closes

\* An element is opened, read and closed.
LEMMA TrailElement ==
    ASSUME NEW M, NEW q \in States, NEW a \in States, NEW b \in States, NEW z \in States,
           NEW name \in Names, NEW inner,
           <<q, "open", name, a>> \in M, Trail(M, a, inner, b), <<b, "close", name, z>> \in M
    PROVE  Trail(M, q, Element(name, inner), z)
  <1>1. Trail(M, q, <<Opens(name)>>, a)
    BY EventsOf, TrailOne
  <1>2. Trail(M, b, <<Closes(name)>>, z)
    BY EventsOf, TrailOne
  <1>3. Trail(M, q, <<Opens(name)>> \o inner, b)
    BY <1>1, TrailConcat
  <1>4. Trail(M, q, (<<Opens(name)>> \o inner) \o <<Closes(name)>>, z)
    BY <1>2, <1>3, TrailConcat
  <1> QED
    BY <1>4 DEF Element

\* Mechanisms are PLAIN and DIGEST-MD5.
LEMMA MechanismsFinite ==
    ASSUME NEW ms \in Mechanisms
    PROVE  IsFiniteSet(ms) /\ ms \subseteq {"PLAIN", "DIGEST-MD5"}
  <1>1. IsFiniteSet({"PLAIN"})
    BY FS_Singleton
  <1>2. {"PLAIN", "DIGEST-MD5"} = {"PLAIN"} \cup {"DIGEST-MD5"}
    OBVIOUS
  <1>3. IsFiniteSet({"PLAIN", "DIGEST-MD5"})
    BY <1>1, <1>2, FS_AddElement
  <1>4. ms \subseteq {"PLAIN", "DIGEST-MD5"}
    BY ServerAssumption
  <1> QED
    BY <1>3, <1>4, FS_Subset

\* A feature offered before login.
LEMMA TrailFeature ==
    ASSUME srv.mechs \in Mechanisms, NEW p \in BOOLEAN, NEW f \in {"starttls", "mechanisms"}
    PROVE  /\ Trail(OfferMoves(p), "features", Feature(f), "features")
           /\ p /\ f = "starttls" => Trail(OfferMoves(p), "offer", Feature(f), "features")
           /\ ~p => Trail(OfferMoves(p), "offer", Feature(f), "features")
  <1> DEFINE M == OfferMoves(p)
  <1>1. /\ <<"features", "open", "starttls", "starttls">> \in M
        /\ <<"features", "open", "mechanisms", "mechanisms">> \in M
        /\ <<"offer", "open", "starttls", "starttls">> \in M
        /\ <<"starttls", "close", "starttls", "features">> \in M
        /\ <<"mechanisms", "close", "mechanisms", "features">> \in M
        /\ <<"mechanisms", "leaf", "PLAIN", "mechanisms">> \in M
        /\ <<"mechanisms", "leaf", "DIGEST-MD5", "mechanisms">> \in M
        /\ ~p => <<"offer", "open", "mechanisms", "mechanisms">> \in M
    BY DEF OfferMoves
  <1>2. /\ "starttls" \in States /\ "mechanisms" \in States /\ "features" \in States
        /\ "offer" \in States
        /\ "starttls" \in Names /\ "mechanisms" \in Names /\ "PLAIN" \in Names
        /\ "DIGEST-MD5" \in Names
    BY DEF States, Names
  <1> HIDE DEF M
  <1>3. CASE f = "starttls"
    <2>1. Feature(f) = Element("starttls", <<>>)
      BY <1>3 DEF Feature
    <2>2. Trail(M, "starttls", <<>>, "starttls")
      BY <1>2, TrailEmpty
    <2>3. Trail(M, "features", Element("starttls", <<>>), "features")
      BY <1>1, <1>2, <2>2, TrailElement
    <2>4. Trail(M, "offer", Element("starttls", <<>>), "features")
      BY <1>1, <1>2, <2>2, TrailElement
    <2> QED
      BY <2>1, <2>3, <2>4 DEF M
  <1>4. CASE f = "mechanisms"
    <2> DEFINE t == Texts(srv.mechs)
    <2>1. Feature(f) = Element("mechanisms", t)
      BY <1>4 DEF Feature
    <2>2. IsFiniteSet(srv.mechs) /\ srv.mechs \subseteq {"PLAIN", "DIGEST-MD5"}
      BY MechanismsFinite
    <2>3. \A x \in srv.mechs : /\ [op |-> "leaf", name |-> x] \in Events
                               /\ <<"mechanisms", "leaf", x, "mechanisms">> \in M
      BY <1>1, <1>2, <2>2, EventsOf
    <2>4. Trail(M, "mechanisms", t, "mechanisms")
      BY <1>2, <2>2, <2>3, TrailTexts
    <2> HIDE DEF t
    <2>5. Trail(M, "features", Element("mechanisms", t), "features")
      BY <1>1, <1>2, <2>4, TrailElement
    <2>6. ~p => Trail(M, "offer", Element("mechanisms", t), "features")
      <3> SUFFICES ASSUME ~p PROVE Trail(M, "offer", Element("mechanisms", t), "features")
        OBVIOUS
      <3> QED
        BY <1>1, <1>2, <2>4, TrailElement
    <2> QED
      BY <1>4, <2>1, <2>5, <2>6 DEF M
  <1> QED
    BY <1>3, <1>4

Greeting == <<Opens("stream")>>
            \o Element("features", FlattenSeq([i \in DOMAIN OfferNow |-> Feature(OfferNow[i])]))

\* The header and the features of a server before login.
LEMMA TrailOffer ==
    ASSUME srv.mechs \in Mechanisms, ~srv.authed, NEW p \in BOOLEAN,
           srv.offer \in Offers, p => ~srv.tls /\ Head(srv.offer) = "starttls"
    PROVE  Trail(OfferMoves(p), "bus", Greeting, "offered")
  <1> DEFINE M == OfferMoves(p)
             o == OfferNow
             ws == [i \in DOMAIN o |-> Feature(o[i])]
  <1>1. o \in Seq({"starttls", "mechanisms"}) /\ (p => o = srv.offer)
    <2>1. srv.offer \in Seq({"starttls", "mechanisms"})
      BY ServerAssumption
    <2>2. <<"mechanisms">> \in Seq({"starttls", "mechanisms"})
      OBVIOUS
    <2> QED
      BY <2>1, <2>2 DEF OfferNow
  <1>2. /\ <<"bus", "open", "stream", "stream">> \in M
        /\ <<"stream", "open", "features", "offer">> \in M
        /\ <<"offer", "close", "features", "offered">> \in M
        /\ <<"features", "close", "features", "offered">> \in M
    BY DEF OfferMoves
  <1>3. /\ "bus" \in States /\ "stream" \in States /\ "features" \in States
        /\ "offer" \in States /\ "offered" \in States
        /\ "stream" \in Names /\ "features" \in Names
    BY DEF States, Names, Children
  <1>4. DOMAIN o = 1 .. Len(o) /\ Len(o) \in Nat
        /\ \A i \in 1 .. Len(o) : o[i] \in {"starttls", "mechanisms"}
    BY <1>1, LenProperties, ElementOfSeq
  <1> HIDE DEF o, M
  <1>5. \A i \in 1 .. Len(o) :
           /\ Trail(M, "features", Feature(o[i]), "features")
           /\ p /\ o[i] = "starttls" => Trail(M, "offer", Feature(o[i]), "features")
           /\ ~p => Trail(M, "offer", Feature(o[i]), "features")
    BY <1>4, TrailFeature DEF M
  <1>6. \A i \in 1 .. Len(o) : Feature(o[i]) \in Seq(Events)
    BY <1>5 DEF Trail
  <1>7. ws \in Seq(Seq(Events)) /\ Len(ws) = Len(o) /\ \A i \in 1 .. Len(o) : ws[i] = Feature(o[i])
    <2>1. ws \in [1 .. Len(o) -> Seq(Events)]
      BY <1>4, <1>6
    <2>2. ws \in Seq(Seq(Events)) /\ Len(ws) = Len(o)
      BY <1>4, <2>1, FunctionIsSeq
    <2> QED
      BY <1>4, <2>2
  <1> HIDE DEF ws
  <1>8. Trail(M, "stream", Element("features", FlattenSeq(ws)), "offered")
    <2>1. CASE Len(o) = 0
      <3>1. ws = <<>> /\ FlattenSeq(ws) = ws
        BY <1>7, <2>1, EmptySeq DEF FlattenSeq
      <3>2. Trail(M, "offer", FlattenSeq(ws), "offer")
        BY <1>3, <3>1, TrailEmpty
      <3> QED
        BY <1>2, <1>3, <3>2, TrailElement
    <2>2. CASE Len(o) # 0
      <3>1. ws # <<>> /\ 1 \in 1 .. Len(o)
        BY <1>4, <1>7, <2>2, EmptySeq
      <3>2. p => o[1] = "starttls"
        <4> SUFFICES ASSUME p PROVE o[1] = "starttls"
          OBVIOUS
        <4>1. o # <<>> /\ o = srv.offer
          BY <1>1, <1>4, <2>2, EmptySeq
        <4>2. Head(o) = o[1]
          BY <1>1, <4>1
        <4> QED
          BY <4>1, <4>2
      <3>3. Trail(M, "offer", ws[1], "features")
        <4>1. ws[1] = Feature(o[1])
          BY <1>7, <3>1
        <4>2. Trail(M, "offer", Feature(o[1]), "features")
          BY <1>5, <3>1, <3>2
        <4> QED
          BY <4>1, <4>2
      <3>4. \A i \in 1 .. Len(ws) : Trail(M, "features", ws[i], "features")
        BY <1>5, <1>7
      <3>5. Trail(M, "offer", FlattenSeq(ws), "features")
        BY <1>3, <1>7, <3>1, <3>3, <3>4, TrailFlatten
      <3> QED
        BY <1>2, <1>3, <3>5, TrailElement
    <2> QED
      BY <2>1, <2>2
  <1>9. Trail(M, "bus", <<Opens("stream")>>, "stream")
    BY <1>2, <1>3, EventsOf, TrailOne
  <1>10. Trail(M, "bus", <<Opens("stream")>> \o Element("features", FlattenSeq(ws)), "offered")
    BY <1>8, <1>9, TrailConcat
  <1> QED
    BY <1>10 DEF Greeting, M, ws, o

\* The header and the features of a server after login.
LEMMA TrailBind ==
    ASSUME srv.authed
    PROVE  Trail(BindMoves, "bus", Greeting, "ready")
  <1> DEFINE M == BindMoves
             ws == [i \in DOMAIN OfferNow |-> Feature(OfferNow[i])]
  <1>1. OfferNow = <<"bind">> /\ DOMAIN OfferNow = 1 .. 1 /\ OfferNow[1] = "bind"
    BY DEF OfferNow
  <1>2. /\ <<"bus", "open", "stream", "stream">> \in M
        /\ <<"stream", "open", "features", "features">> \in M
        /\ <<"features", "open", "bind", "bind">> \in M
        /\ <<"bind", "close", "bind", "features">> \in M
        /\ <<"features", "close", "features", "ready">> \in M
    BY DEF BindMoves
  <1>3. /\ "bus" \in States /\ "stream" \in States /\ "features" \in States
        /\ "bind" \in States /\ "ready" \in States
        /\ "stream" \in Names /\ "features" \in Names /\ "bind" \in Names
    BY DEF States, Names, Children
  <1> HIDE DEF M
  <1>4. Feature("bind") = Element("bind", <<>>)
    BY DEF Feature
  <1>5. Trail(M, "features", Feature("bind"), "features")
    <2>1. Trail(M, "bind", <<>>, "bind")
      BY <1>3, TrailEmpty
    <2>2. Trail(M, "features", Element("bind", <<>>), "features")
      BY <1>2, <1>3, <2>1, TrailElement
    <2> QED
      BY <1>4, <2>2
  <1>6. Feature("bind") \in Seq(Events)
    BY <1>5 DEF Trail
  <1>7. ws \in Seq(Seq(Events)) /\ Len(ws) = 1 /\ ws[1] = Feature("bind") /\ ws # <<>>
    <2>1. ws[1] = Feature("bind")
      BY <1>1
    <2>2. ws \in [1 .. 1 -> Seq(Events)]
      <3>1. \A i \in 1 .. 1 : Feature(OfferNow[i]) = Feature("bind")
        BY <1>1
      <3> QED
        BY <1>1, <1>6, <3>1
    <2>3. ws \in Seq(Seq(Events)) /\ Len(ws) = 1
      BY <2>2, FunctionIsSeq
    <2> HIDE DEF ws
    <2> QED
      BY <2>1, <2>3, EmptySeq
  <1> HIDE DEF ws
  <1>8. Trail(M, "features", FlattenSeq(ws), "features")
    <2>1. Trail(M, "features", ws[1], "features")
      BY <1>5, <1>7
    <2>2. \A i \in 1 .. Len(ws) : Trail(M, "features", ws[i], "features")
      BY <1>7, <2>1
    <2> QED
      BY <1>3, <1>7, <2>1, <2>2, TrailFlatten
  <1>9. Trail(M, "stream", Element("features", FlattenSeq(ws)), "ready")
    BY <1>2, <1>3, <1>8, TrailElement
  <1>10. Trail(M, "bus", <<Opens("stream")>>, "stream")
    BY <1>2, <1>3, EventsOf, TrailOne
  <1>11. Trail(M, "bus", <<Opens("stream")>> \o Element("features", FlattenSeq(ws)), "ready")
    BY <1>9, <1>10, TrailConcat
  <1> QED
    BY <1>11 DEF Greeting, M, ws

\* The answers to starttls and to auth.
LEMMA TrailAnswers ==
    /\ Trail(AnswerMoves("proceed"), "offered", Element("proceed", <<>>), "bus")
    /\ Trail(AnswerMoves("refused"), "offered", Element("tls-failure", <<>>), "offered")
    /\ Trail(AnswerMoves("success"), "offered", Element("success", <<>>), "bus")
    /\ Trail(AnswerMoves("failure"), "offered", Element("failure", <<>>), "bus")
  <1>1. /\ "bus" \in States /\ "offered" \in States /\ "proceed" \in States
        /\ "refused" \in States /\ "success" \in States /\ "failure" \in States
        /\ "proceed" \in Names /\ "tls-failure" \in Names /\ "success" \in Names
        /\ "failure" \in Names
    BY DEF States, Names, Children
  <1>2. ASSUME NEW a \in States, NEW z \in States, NEW name \in Names, NEW M,
               <<"offered", "open", name, a>> \in M, <<a, "close", name, z>> \in M
        PROVE  Trail(M, "offered", Element(name, <<>>), z)
    <2>1. Trail(M, a, <<>>, a)
      BY TrailEmpty
    <2> QED
      BY <1>1, <1>2, <2>1, TrailElement
  <1>3. /\ <<"offered", "open", "proceed", "proceed">> \in AnswerMoves("proceed")
        /\ <<"proceed", "close", "proceed", "bus">> \in AnswerMoves("proceed")
        /\ <<"offered", "open", "tls-failure", "refused">> \in AnswerMoves("refused")
        /\ <<"refused", "close", "tls-failure", "offered">> \in AnswerMoves("refused")
        /\ <<"offered", "open", "success", "success">> \in AnswerMoves("success")
        /\ <<"success", "close", "success", "bus">> \in AnswerMoves("success")
        /\ <<"offered", "open", "failure", "failure">> \in AnswerMoves("failure")
        /\ <<"failure", "close", "failure", "bus">> \in AnswerMoves("failure")
    BY DEF AnswerMoves
  <1> QED
    BY <1>1, <1>2, <1>3

\* The answers to bind and session.
LEMMA TrailSession ==
    ASSUME NEW b \in BOOLEAN
    PROVE  /\ b => Trail(SessionMoves(b), "ready", Element("iq", Element("bind", Texts({"jid"}))), "ready")
           /\ Trail(SessionMoves(b), "ready", Element("iq", Element("bind", <<>>)), "ready")
           /\ Trail(SessionMoves(b), "ready", Element("iq", <<>>), "ready")
  <1> DEFINE M == SessionMoves(b)
  <1>1. /\ <<"ready", "open", "iq", "iq">> \in M
        /\ <<"iq", "open", "bind", "iqbind">> \in M
        /\ <<"iqbind", "close", "bind", "iq">> \in M
        /\ <<"iq", "close", "iq", "ready">> \in M
        /\ b => <<"iqbind", "leaf", "jid", "iqbind">> \in M
    BY DEF SessionMoves
  <1>2. /\ "ready" \in States /\ "iq" \in States /\ "iqbind" \in States
        /\ "iq" \in Names /\ "bind" \in Names /\ "jid" \in Names
    BY DEF States, Names, Children
  <1> HIDE DEF M
  <1>3. ASSUME NEW t, Trail(M, "iqbind", t, "iqbind")
        PROVE  Trail(M, "ready", Element("iq", Element("bind", t)), "ready")
    <2>1. Trail(M, "iq", Element("bind", t), "iq")
      BY <1>1, <1>2, <1>3, TrailElement
    <2> QED
      BY <1>1, <1>2, <2>1, TrailElement
  <1>4. Trail(M, "iqbind", <<>>, "iqbind")
    BY <1>2, TrailEmpty
  <1>5. Trail(M, "ready", Element("iq", <<>>), "ready")
    <2>1. Trail(M, "iq", <<>>, "iq")
      BY <1>2, TrailEmpty
    <2> QED
      BY <1>1, <1>2, <2>1, TrailElement
  <1>6. ASSUME b PROVE Trail(M, "iqbind", Texts({"jid"}), "iqbind")
    <2>1. IsFiniteSet({"jid"})
      BY FS_Singleton
    <2>2. \A x \in {"jid"} : /\ [op |-> "leaf", name |-> x] \in Events
                             /\ <<"iqbind", "leaf", x, "iqbind">> \in M
      BY <1>1, <1>2, <1>6, EventsOf
    <2> QED
      BY <1>2, <2>1, <2>2, TrailTexts
  <1> QED
    BY <1>3, <1>4, <1>5, <1>6 DEF M

-----------------------------------------------------------------------------
(* The cursor and the streams. *)

\* Leaving what was entered last.
LEMMA FrontOfAppend ==
    ASSUME NEW S, NEW t \in Seq(S), NEW c \in S
    PROVE  Front(Append(t, c)) = t
  <1> DEFINE u == Append(t, c)
             n == Len(t)
  <1>1. n \in Nat
    BY LenProperties
  <1>2. u \in Seq(S) /\ Len(u) = n + 1 /\ \A i \in 1 .. n : u[i] = t[i]
    BY AppendProperties
  <1> HIDE DEF u
  <1>3. Front(u) = SubSeq(u, 1, n)
    <2>1. n + 1 - 1 = n
      BY <1>1
    <2> QED
      BY <1>2, <2>1 DEF Front
  <1>4. /\ SubSeq(u, 1, n) \in Seq(S) /\ Len(SubSeq(u, 1, n)) = n + 1 - 1
        /\ \A i \in 1 .. n + 1 - 1 : SubSeq(u, 1, n)[i] = u[1 + i - 1]
    <2>1. 1 \in Nat /\ 1 <= 1 /\ 1 <= n + 1 /\ n <= Len(u)
      BY <1>1, <1>2
    <2> QED
      BY <1>1, <1>2, <2>1, Part
  <1> DEFINE v == SubSeq(u, 1, n)
  <1> HIDE DEF v
  <1>5. v \in Seq(S) /\ Len(v) = Len(t) /\ \A i \in 1 .. Len(v) : v[i] = t[i]
    BY <1>1, <1>2, <1>4 DEF v
  <1>6. v = t
    BY <1>5, SeqEqual
  <1> QED
    BY <1>3, <1>6 DEF u, v

\* The cursor goes down to a child and back to the parent.
LEMMA Cursor ==
    ASSUME NEW S, NEW a \in S, NEW b \in S, NEW c \in S
    PROVE  /\ Append(<<>>, a) = <<a>>
           /\ Append(<<a>>, b) = <<a, b>> /\ Front(<<a, b>>) = <<a>>
           /\ Append(<<a, b>>, c) = <<a, b, c>> /\ Front(<<a, b, c>>) = <<a, b>>
  <1>1. Append(<<>>, a) = <<a>>
    OBVIOUS
  <1>2. <<a>> \in Seq(S) /\ <<a, b>> \in Seq(S) /\ <<a, b, c>> \in Seq(S)
    OBVIOUS
  <1>3. Append(<<a>>, b) = <<a, b>>
    <2> DEFINE u == Append(<<a>>, b)
    <2>1. /\ u \in Seq(S) /\ Len(u) = Len(<<a>>) + 1
          /\ \A i \in 1 .. Len(<<a>>) : u[i] = <<a>>[i]
          /\ u[Len(<<a>>) + 1] = b
      BY <1>2, AppendProperties
    <2>2. Len(<<a>>) = 1 /\ Len(<<a, b>>) = 2 /\ <<a>>[1] = a /\ <<a, b>>[1] = a /\ <<a, b>>[2] = b
      OBVIOUS
    <2> HIDE DEF u
    <2>3. Len(u) = 2 /\ u[1] = a /\ u[2] = b
      BY <2>1, <2>2
    <2>4. \A i \in 1 .. Len(u) : u[i] = <<a, b>>[i]
      BY <2>2, <2>3
    <2>5. u = <<a, b>>
      BY <1>2, <2>1, <2>2, <2>3, <2>4, SeqEqual
    <2> QED
      BY <2>5 DEF u
  <1>4. Append(<<a, b>>, c) = <<a, b, c>>
    <2> DEFINE u == Append(<<a, b>>, c)
    <2>1. /\ u \in Seq(S) /\ Len(u) = Len(<<a, b>>) + 1
          /\ \A i \in 1 .. Len(<<a, b>>) : u[i] = <<a, b>>[i]
          /\ u[Len(<<a, b>>) + 1] = c
      BY <1>2, AppendProperties
    <2>2. /\ Len(<<a, b>>) = 2 /\ Len(<<a, b, c>>) = 3 /\ <<a, b>>[1] = a /\ <<a, b>>[2] = b
          /\ <<a, b, c>>[1] = a /\ <<a, b, c>>[2] = b /\ <<a, b, c>>[3] = c
      OBVIOUS
    <2> HIDE DEF u
    <2>3. Len(u) = 3 /\ u[1] = a /\ u[2] = b /\ u[3] = c
      BY <2>1, <2>2
    <2>4. \A i \in 1 .. Len(u) : u[i] = <<a, b, c>>[i]
      BY <2>2, <2>3
    <2>5. u = <<a, b, c>>
      BY <1>2, <2>1, <2>2, <2>3, <2>4, SeqEqual
    <2> QED
      BY <2>5 DEF u
  <1>5. Front(<<a, b>>) = <<a>>
    <2>1. Front(Append(<<a>>, b)) = <<a>>
      BY <1>2, FrontOfAppend
    <2> QED
      BY <1>3, <2>1
  <1>6. Front(<<a, b, c>>) = <<a, b>>
    <2>1. Front(Append(<<a, b>>, c)) = <<a, b>>
      BY <1>2, FrontOfAppend
    <2> QED
      BY <1>4, <2>1
  <1> QED
    BY <1>1, <1>3, <1>4, <1>5, <1>6

\* Where the cursor is lies in the tree.
LEMMA CursorType ==
    ASSUME NEW q \in States
    PROVE  At[q] \in Paths
  BY DEF At, Paths, States, Children

\* A new stream has a type and no bind.
LEMMA NewStreamFacts ==
    /\ NewStream \in Streams /\ NewStream.rc = 2 /\ NewStream.rc > 0 /\ Sound(NewStream)
    /\ NewStream.listed = {} /\ NewStream.msgslot = "none"
  BY DEF NewStream, Streams, Sound, BindStates

\* The references of a stream are counted.
LEMMA StreamRc ==
    ASSUME NEW s \in Streams, NEW n \in Int
    PROVE  [s EXCEPT !.rc = n] \in Streams
  BY DEF Streams

\* There is a first stream on a connection that was made.
LEMMA FirstFacts ==
    ASSUME Tree, conn # "off"
    PROVE  First \in Streams /\ First.rc > 0 /\ Sound(First) /\ streams # <<>>
           /\ 1 \in DOMAIN streams
  <1>1. streams \in Seq(Streams) /\ streams # <<>>
    BY DEF Tree
  <1>2. Len(streams) \in Nat /\ Len(streams) > 0 /\ DOMAIN streams = 1 .. Len(streams)
    BY <1>1, EmptySeq, LenProperties
  <1>3. 1 \in DOMAIN streams
    BY <1>2
  <1> QED
    BY <1>1, <1>3, ElementOfSeq DEF Tree, First

\* The first stream is replaced.
LEMMA TreeEdited ==
    ASSUME Tree, conn # "off", conn' # "off", NEW s \in Streams, s.rc > 0, Sound(s),
           streams' = WithFirst(s)
    PROVE  Tree' /\ First' = s
  <1>1. 1 \in DOMAIN streams /\ streams \in Seq(Streams) /\ DOMAIN streams = 1 .. Len(streams)
        /\ Len(streams) \in Nat
    BY FirstFacts, LenProperties DEF Tree
  <1>2. streams' = [streams EXCEPT ![1] = s]
    BY DEF WithFirst
  <1>3. DOMAIN streams' = DOMAIN streams /\ streams'[1] = s
        /\ \A i \in DOMAIN streams : i # 1 => streams'[i] = streams[i]
    BY <1>1, <1>2
  <1>4. streams' \in Seq(Streams)
    BY <1>1, <1>2, ExceptSeq
  <1>5. streams' # <<>>
    BY <1>1, <1>3
  <1>6. First' = s
    BY <1>3 DEF First
  <1>7. \A i \in DOMAIN streams' : streams'[i].rc > 0 /\ (i > 1 => streams'[i] = NewStream)
    <2> SUFFICES ASSUME NEW i \in DOMAIN streams
                 PROVE  streams'[i].rc > 0 /\ (i > 1 => streams'[i] = NewStream)
      BY <1>3
    <2>1. CASE i = 1
      BY <1>3, <2>1
    <2>2. CASE i # 1
      BY <1>3, <2>2 DEF Tree
    <2> QED
      BY <2>1, <2>2
  <1> QED
    BY <1>4, <1>5, <1>6, <1>7 DEF Tree

\* The streams are left alone.
LEMMA TreeSame ==
    ASSUME Tree, conn # "off", conn' # "off", streams' = streams
    PROVE  Tree' /\ First' = First
  BY DEF Tree, First

\* The first stream is put and a new one appended: what the next features are
\* read into is the same stream or a new one.
LEMMA TreeReset ==
    ASSUME Tree, conn' # "off", streams' = Append(PutFirst(streams), NewStream)
    PROVE  /\ Tree'
           /\ conn = "off" => First' = NewStream
           /\ conn # "off" /\ First.msgslot = "none" => First'.msgslot = "none"
  <1>1. streams \in Seq(Streams) /\ Len(streams) \in Nat /\ DOMAIN streams = 1 .. Len(streams)
    BY LenProperties DEF Tree
  <1> DEFINE p == PutFirst(streams)
             u == Append(p, NewStream)
             Fits(t) == /\ t \in Seq(Streams)
                        /\ \A i \in DOMAIN t : t[i].rc > 0 /\ (i > 1 => t[i] = NewStream)
  <1>2. /\ Fits(p)
        /\ conn = "off" => p = <<>>
        /\ p # <<>> => p[1] = NewStream \/ (conn # "off" /\ Sound(p[1]) /\ p[1].msgslot = First.msgslot)
    <2>1. CASE streams = <<>>
      <3>1. p = <<>>
        BY <2>1 DEF PutFirst
      <3> QED
        BY <3>1
    <2>2. CASE streams # <<>> /\ Head(streams).rc = 1
      <3>1. p = Tail(streams)
        BY <2>2 DEF PutFirst
      <3>2. /\ p \in Seq(Streams) /\ Len(p) = Len(streams) - 1 /\ DOMAIN p = 1 .. Len(p)
            /\ \A i \in 1 .. Len(p) : p[i] = streams[i + 1]
        <4>1. /\ Tail(streams) \in Seq(Streams) /\ Len(Tail(streams)) = Len(streams) - 1
              /\ \A i \in 1 .. Len(Tail(streams)) : Tail(streams)[i] = streams[i + 1]
          BY <1>1, <2>2, HeadTailProperties
        <4> QED
          BY <3>1, <4>1, LenProperties
      <3> HIDE DEF p
      <3>3. \A i \in DOMAIN p : p[i] = NewStream
        <4> SUFFICES ASSUME NEW i \in DOMAIN p PROVE p[i] = NewStream
          OBVIOUS
        <4>1. i + 1 \in DOMAIN streams /\ i + 1 > 1
          BY <1>1, <3>2
        <4>2. p[i] = streams[i + 1]
          BY <3>2
        <4> QED
          BY <4>1, <4>2 DEF Tree
      <3>4. p # <<>> => p[1] = NewStream
        <4> SUFFICES ASSUME p # <<>> PROVE p[1] = NewStream
          OBVIOUS
        <4>1. Len(p) \in Nat /\ Len(p) # 0
          BY <3>2, EmptySeq, LenProperties
        <4>2. 1 \in DOMAIN p
          BY <3>2, <4>1
        <4> QED
          BY <3>3, <4>2
      <3>5. conn # "off"
        BY <2>2 DEF Tree
      <3> QED
        BY <3>2, <3>3, <3>4, <3>5, NewStreamFacts
    <2>3. CASE streams # <<>> /\ Head(streams).rc # 1
      <3>0. conn # "off"
        BY <2>3 DEF Tree
      <3>1. First \in Streams /\ First.rc > 0 /\ Sound(First) /\ 1 \in DOMAIN streams
        BY <3>0, FirstFacts
      <3>2. Head(streams) = First
        BY <1>1, <2>3 DEF First
      <3>3. First.rc \in Int /\ First.rc # 1
        BY <2>3, <3>1, <3>2 DEF Streams
      <3> DEFINE s == [First EXCEPT !.rc = @ - 1]
      <3>4. s \in Streams /\ s.rc > 0 /\ Sound(s) /\ s.msgslot = First.msgslot
        <4>1. s.rc = First.rc - 1 /\ s.rc > 0 /\ s.rc \in Int
          BY <3>1, <3>3 DEF Streams
        <4>2. s.bind = First.bind /\ s.jid = First.jid /\ s.msgslot = First.msgslot
          BY <3>1 DEF Streams
        <4>3. s \in Streams
          <5>1. First.rc - 1 \in Int
            BY <3>3
          <5> QED
            BY <3>1, <5>1, StreamRc
        <4> HIDE DEF s
        <4> QED
          BY <3>1, <4>1, <4>2, <4>3 DEF Sound
      <3>5. p = [streams EXCEPT ![1] = s]
        <4>1. p = [streams EXCEPT ![1].rc = @ - 1]
          BY <2>3 DEF PutFirst
        <4> QED
          BY <3>1, <4>1 DEF First
      <3> HIDE DEF s, p
      <3>6. p \in Seq(Streams) /\ DOMAIN p = DOMAIN streams /\ p[1] = s
            /\ \A i \in DOMAIN streams : i # 1 => p[i] = streams[i]
        BY <1>1, <3>1, <3>4, <3>5, ExceptSeq
      <3>7. \A i \in DOMAIN p : p[i].rc > 0 /\ (i > 1 => p[i] = NewStream)
        <4> SUFFICES ASSUME NEW i \in DOMAIN streams
                     PROVE  p[i].rc > 0 /\ (i > 1 => p[i] = NewStream)
          BY <3>6
        <4>1. CASE i = 1
          BY <3>4, <3>6, <4>1
        <4>2. CASE i # 1
          BY <3>6, <4>2 DEF Tree
        <4> QED
          BY <4>1, <4>2
      <3> QED
        BY <3>0, <3>4, <3>6, <3>7
    <2> QED
      BY <2>1, <2>2, <2>3
  <1> HIDE DEF p
  <1>3. p \in Seq(Streams) /\ Len(p) \in Nat /\ DOMAIN p = 1 .. Len(p)
    BY <1>2, LenProperties
  <1>4. /\ u \in Seq(Streams) /\ Len(u) = Len(p) + 1 /\ DOMAIN u = 1 .. Len(p) + 1
        /\ \A i \in 1 .. Len(p) : u[i] = p[i]
        /\ u[Len(p) + 1] = NewStream
    <2>1. NewStream \in Streams
      BY NewStreamFacts
    <2>2. /\ u \in Seq(Streams) /\ Len(u) = Len(p) + 1
          /\ \A i \in 1 .. Len(p) : u[i] = p[i]
          /\ u[Len(p) + 1] = NewStream
      BY <1>3, <2>1, AppendProperties
    <2> QED
      BY <2>2, LenProperties
  <1>5. streams' = u
    BY DEF p
  <1> HIDE DEF u
  <1>6. Fits(u)
    <2> SUFFICES ASSUME NEW i \in 1 .. Len(p) + 1
                 PROVE  u[i].rc > 0 /\ (i > 1 => u[i] = NewStream)
      BY <1>4
    <2>1. CASE i = Len(p) + 1
      BY <1>4, <2>1, NewStreamFacts
    <2>2. CASE i # Len(p) + 1
      <3>1. i \in 1 .. Len(p)
        BY <1>3, <2>2
      <3>2. u[i] = p[i] /\ i \in DOMAIN p
        BY <1>3, <1>4, <3>1
      <3> QED
        BY <1>2, <3>2
    <2> QED
      BY <2>1, <2>2
  <1>7. u # <<>>
    <2>1. Len(u) # 0
      BY <1>3, <1>4
    <2> QED
      BY <1>4, <2>1, EmptySeq
  <1>8. /\ Sound(u[1]) /\ (conn = "off" => u[1] = NewStream)
        /\ conn # "off" /\ First.msgslot = "none" => u[1].msgslot = "none"
    <2>1. CASE p = <<>>
      <3>1. u[1] = NewStream
        <4>1. Len(p) = 0
          BY <2>1
        <4> QED
          BY <1>4, <4>1
      <3> QED
        BY <3>1, NewStreamFacts
    <2>2. CASE p # <<>>
      <3>1. 1 \in 1 .. Len(p)
        BY <1>3, <2>2, EmptySeq
      <3>2. u[1] = p[1]
        BY <1>4, <3>1
      <3> QED
        BY <1>2, <2>2, <3>2, NewStreamFacts
    <2> QED
      BY <2>1, <2>2
  <1>9. First' = u[1]
    BY <1>5 DEF First
  <1> QED
    BY <1>5, <1>6, <1>7, <1>8, <1>9 DEF Tree

\* The cursor moves as the states of the automata do.
LEMMA CursorMoves ==
    /\ Append(At["bus"], "stream") = At["stream"]
    /\ Append(At["stream"], "features") = At["offer"]
    /\ Append(At["stream"], "features") = At["features"]
    /\ Append(At["offer"], "starttls") = At["starttls"]
    /\ Append(At["features"], "starttls") = At["starttls"]
    /\ Append(At["offer"], "mechanisms") = At["mechanisms"]
    /\ Append(At["features"], "mechanisms") = At["mechanisms"]
    /\ Append(At["features"], "bind") = At["bind"]
    /\ Append(At["offered"], "proceed") = At["proceed"]
    /\ Append(At["offered"], "tls-failure") = At["refused"]
    /\ Append(At["offered"], "success") = At["success"]
    /\ Append(At["offered"], "failure") = At["failure"]
    /\ Append(At["ready"], "iq") = At["iq"]
    /\ Append(At["iq"], "bind") = At["iqbind"]
    /\ Front(At["starttls"]) = At["features"]
    /\ Front(At["mechanisms"]) = At["features"]
    /\ Front(At["bind"]) = At["features"]
    /\ Front(At["offer"]) = At["offered"]
    /\ Front(At["features"]) = At["offered"]
    /\ Front(At["features"]) = At["ready"]
    /\ Front(At["refused"]) = At["offered"]
    /\ Front(At["iqbind"]) = At["iq"]
    /\ Front(At["iq"]) = At["ready"]
    /\ At["bus"] = <<>> /\ At["offered"] = <<"stream">>
    /\ At["bind"][2] = "features" /\ At["iqbind"][2] = "iq"
    /\ At["features"][2] = "features" /\ At["iq"][2] = "iq"
  <1> DEFINE S == {"stream", "features", "starttls", "mechanisms", "bind", "proceed",
                   "tls-failure", "success", "failure", "iq"}
  <1>2. /\ "stream" \in S /\ "features" \in S /\ "starttls" \in S /\ "mechanisms" \in S
        /\ "bind" \in S /\ "proceed" \in S /\ "tls-failure" \in S /\ "success" \in S
        /\ "failure" \in S /\ "iq" \in S
    OBVIOUS
  <1>3. /\ At["bus"] = <<>> /\ At["stream"] = <<"stream">> /\ At["offered"] = <<"stream">>
        /\ At["ready"] = <<"stream">>
        /\ At["offer"] = <<"stream", "features">> /\ At["features"] = <<"stream", "features">>
        /\ At["starttls"] = <<"stream", "features", "starttls">>
        /\ At["mechanisms"] = <<"stream", "features", "mechanisms">>
        /\ At["bind"] = <<"stream", "features", "bind">>
        /\ At["proceed"] = <<"stream", "proceed">>
        /\ At["refused"] = <<"stream", "tls-failure">>
        /\ At["success"] = <<"stream", "success">>
        /\ At["failure"] = <<"stream", "failure">>
        /\ At["iq"] = <<"stream", "iq">> /\ At["iqbind"] = <<"stream", "iq", "bind">>
    BY DEF At
  <1> HIDE DEF S
  <1>4. Append(<<>>, "stream") = <<"stream">>
    BY <1>2, Cursor
  <1>5. ASSUME NEW b \in S, NEW c \in S
        PROVE  /\ Append(<<"stream">>, b) = <<"stream", b>> /\ Front(<<"stream", b>>) = <<"stream">>
               /\ Append(<<"stream", b>>, c) = <<"stream", b, c>>
               /\ Front(<<"stream", b, c>>) = <<"stream", b>>
    <2>1. "stream" \in S
      BY <1>2
    <2> QED
      BY <2>1, Cursor
  <1>6. Append(<<"stream">>, "features") = <<"stream", "features">> /\ Front(<<"stream", "features">>) = <<"stream">>
    BY <1>2, <1>5, Zenon
  <1>7. Append(<<"stream">>, "proceed") = <<"stream", "proceed">> /\ Front(<<"stream", "proceed">>) = <<"stream">>
    BY <1>2, <1>5, Zenon
  <1>8. Append(<<"stream">>, "tls-failure") = <<"stream", "tls-failure">> /\ Front(<<"stream", "tls-failure">>) = <<"stream">>
    BY <1>2, <1>5, Zenon
  <1>9. Append(<<"stream">>, "success") = <<"stream", "success">> /\ Front(<<"stream", "success">>) = <<"stream">>
    BY <1>2, <1>5, Zenon
  <1>10. Append(<<"stream">>, "failure") = <<"stream", "failure">> /\ Front(<<"stream", "failure">>) = <<"stream">>
    BY <1>2, <1>5, Zenon
  <1>11. Append(<<"stream">>, "iq") = <<"stream", "iq">> /\ Front(<<"stream", "iq">>) = <<"stream">>
    BY <1>2, <1>5, Zenon
  <1>12. /\ Append(<<"stream", "features">>, "starttls") = <<"stream", "features", "starttls">>
        /\ Front(<<"stream", "features", "starttls">>) = <<"stream", "features">>
    BY <1>2, <1>5, Zenon
  <1>13. /\ Append(<<"stream", "features">>, "mechanisms") = <<"stream", "features", "mechanisms">>
        /\ Front(<<"stream", "features", "mechanisms">>) = <<"stream", "features">>
    BY <1>2, <1>5, Zenon
  <1>14. /\ Append(<<"stream", "features">>, "bind") = <<"stream", "features", "bind">>
        /\ Front(<<"stream", "features", "bind">>) = <<"stream", "features">>
    BY <1>2, <1>5, Zenon
  <1>15. /\ Append(<<"stream", "iq">>, "bind") = <<"stream", "iq", "bind">>
        /\ Front(<<"stream", "iq", "bind">>) = <<"stream", "iq">>
    BY <1>2, <1>5, Zenon
  <1>16. /\ At["bind"][2] = "features" /\ At["iqbind"][2] = "iq"
         /\ At["features"][2] = "features" /\ At["iq"][2] = "iq"
    BY <1>3
  <1> QED
    BY <1>3, <1>4, <1>6, <1>7, <1>8, <1>9, <1>10, <1>11, <1>12, <1>13, <1>14, <1>15, <1>16, Zenon

-----------------------------------------------------------------------------
(* The events of the parser. *)

\* The event that is read decides what is done.
LEMMA BusStepKinds ==
    ASSUME BusStep
    PROVE  /\ wire # <<>> /\ wire' = Tail(wire) /\ restarts' = restarts
           /\ Head(wire).op = "open" =>
                /\ Head(wire).name = "stream" => OpenStream
                /\ Head(wire).name = "starttls" => OpenStarttls
                /\ Head(wire).name = "mechanisms" => OpenMechanisms
                /\ Head(wire).name = "bind" => OpenBind
                /\ Head(wire).name \in Children => OpenChild(Head(wire).name)
           /\ Head(wire).op = "leaf" => Leaf(Head(wire).name)
           /\ Head(wire).op = "close" =>
                /\ Head(wire).name = "mechanisms" => CloseMechanisms
                /\ Head(wire).name = "features" => CloseFeatures
                /\ Head(wire).name = "proceed" => CloseProceed
                /\ Head(wire).name = "bind" => CloseBind
                /\ Head(wire).name \in {"success", "failure"} => CloseOutcome(Head(wire).name)
                /\ Head(wire).name \in {"starttls", "iq", "tls-failure"} => CloseOther(Head(wire).name)
  <1> DEFINE e == Head(wire)
  <1>0. ASSUME NEW op, NEW name, Reads(op, name)
        PROVE  /\ wire # <<>> /\ wire' = Tail(wire) /\ restarts' = restarts
               /\ e.op = op /\ e.name = name
    BY <1>0 DEF Reads
  <1>1. CASE OpenStream
    <2>1. Reads("open", "stream")
      BY <1>1 DEF OpenStream
    <2> QED
      BY <1>0, <1>1, <2>1 DEF Children
  <1>2. CASE OpenStarttls
    <2>1. Reads("open", "starttls")
      BY <1>2 DEF OpenStarttls
    <2> QED
      BY <1>0, <1>2, <2>1 DEF Children
  <1>3. CASE OpenMechanisms
    <2>1. Reads("open", "mechanisms")
      BY <1>3 DEF OpenMechanisms
    <2> QED
      BY <1>0, <1>3, <2>1 DEF Children
  <1>4. CASE OpenBind
    <2>1. Reads("open", "bind")
      BY <1>4 DEF OpenBind
    <2> QED
      BY <1>0, <1>4, <2>1 DEF Children
  <1>5. ASSUME NEW c \in Children, OpenChild(c) PROVE OpenChild(e.name) /\ e.op = "open"
           /\ e.name \in Children
    <2>1. Reads("open", c)
      BY <1>5 DEF OpenChild
    <2>2. e.name = c /\ e.op = "open"
      BY <1>0, <2>1
    <2> QED
      BY <1>5, <2>2
  <1>6. CASE \E c \in Children : OpenChild(c)
    <2>1. PICK c \in Children : OpenChild(c)
      BY <1>6
    <2>2. Reads("open", c)
      BY <2>1 DEF OpenChild
    <2>3. OpenChild(e.name) /\ e.op = "open" /\ e.name \in Children
      BY <1>5, <2>1
    <2>4. wire # <<>> /\ wire' = Tail(wire) /\ restarts' = restarts
      BY <1>0, <2>2
    <2>5. e.name \notin {"stream", "starttls", "mechanisms", "bind"}
      BY <2>3 DEF Children
    <2> QED
      BY <2>3, <2>4, <2>5
  <1>7. CASE \E name \in {"PLAIN", "DIGEST-MD5", "jid"} : Leaf(name)
    <2>1. PICK name \in {"PLAIN", "DIGEST-MD5", "jid"} : Leaf(name)
      BY <1>7
    <2>2. Reads("leaf", name)
      BY <2>1 DEF Leaf
    <2>3. e.name = name /\ e.op = "leaf" /\ wire # <<>> /\ wire' = Tail(wire) /\ restarts' = restarts
      BY <1>0, <2>2
    <2> QED
      BY <2>1, <2>3
  <1>8. CASE CloseMechanisms
    <2>1. Reads("close", "mechanisms")
      BY <1>8 DEF CloseMechanisms
    <2> QED
      BY <1>0, <1>8, <2>1
  <1>9. CASE CloseFeatures
    <2>1. Reads("close", "features")
      BY <1>9 DEF CloseFeatures
    <2> QED
      BY <1>0, <1>9, <2>1
  <1>10. CASE CloseProceed
    <2>1. /\ wire # <<>> /\ e = Closes("proceed") /\ wire' = Tail(wire) /\ restarts' = restarts
      BY <1>10 DEF CloseProceed
    <2>2. e.op = "close" /\ e.name = "proceed"
      BY <2>1 DEF Closes
    <2> QED
      BY <1>10, <2>1, <2>2
  <1>11. CASE CloseBind
    <2>1. Reads("close", "bind")
      BY <1>11 DEF CloseBind
    <2> QED
      BY <1>0, <1>11, <2>1
  <1>12. CASE \E c \in {"success", "failure"} : CloseOutcome(c)
    <2>1. PICK c \in {"success", "failure"} : CloseOutcome(c)
      BY <1>12
    <2>2. Reads("close", c)
      BY <2>1 DEF CloseOutcome
    <2>3. e.name = c /\ e.op = "close" /\ wire # <<>> /\ wire' = Tail(wire) /\ restarts' = restarts
      BY <1>0, <2>2
    <2> QED
      BY <2>1, <2>3
  <1>13. CASE \E c \in {"starttls", "iq", "tls-failure"} : CloseOther(c)
    <2>1. PICK c \in {"starttls", "iq", "tls-failure"} : CloseOther(c)
      BY <1>13
    <2>2. Reads("close", c)
      BY <2>1 DEF CloseOther
    <2>3. e.name = c /\ e.op = "close" /\ wire # <<>> /\ wire' = Tail(wire) /\ restarts' = restarts
      BY <1>0, <2>2
    <2> QED
      BY <2>1, <2>3
  <1> QED
    BY <1>1, <1>2, <1>3, <1>4, <1>6, <1>7, <1>8, <1>9, <1>10, <1>11, <1>12, <1>13, Zenon
       DEF BusStep

-----------------------------------------------------------------------------
(* What is done to the first stream. *)

\* A child is appended.
LEMMA ChildAppended ==
    ASSUME NEW s \in Streams, s.rc > 0, Sound(s), NEW c \in Children \cup {"presence"},
           NEW t, t = [s EXCEPT !.kids = @ \cup {c}, !.rc = @ + 1]
    PROVE  /\ t \in Streams /\ t.rc > 0 /\ Sound(t)
           /\ t.listed = s.listed /\ t.msgslot = s.msgslot /\ t.bind = s.bind /\ t.jid = s.jid
  <1>1. s.rc \in Int /\ s.kids \in SUBSET (Children \cup {"presence"})
    BY DEF Streams
  <1>2. t.rc = s.rc + 1 /\ t.listed = s.listed /\ t.msgslot = s.msgslot /\ t.bind = s.bind /\ t.jid = s.jid
    BY DEF Streams
  <1> DEFINE k == s.kids \cup {c}
             n == s.rc + 1
  <1>3. k \in SUBSET (Children \cup {"presence"}) /\ n \in Int /\ n > 0
    BY <1>1
  <1>4. t = [s EXCEPT !.kids = k, !.rc = n]
    OBVIOUS
  <1> HIDE DEF k, n
  <1>5. t \in Streams
    BY <1>3, <1>4 DEF Streams
  <1>6. t.rc > 0
    BY <1>2, <1>3 DEF n
  <1> QED
    BY <1>2, <1>5, <1>6 DEF Sound

\* A message is kept, or the slot is emptied.
LEMMA SlotChanged ==
    ASSUME NEW s \in Streams, s.rc > 0, Sound(s), NEW m \in {"none", "starttls", "auth"},
           NEW t, t = [s EXCEPT !.msgslot = m]
    PROVE  /\ t \in Streams /\ t.rc > 0 /\ Sound(t)
           /\ t.listed = s.listed /\ t.msgslot = m /\ t.bind = s.bind /\ t.jid = s.jid
  <1>1. t.rc = s.rc /\ t.listed = s.listed /\ t.msgslot = m /\ t.bind = s.bind /\ t.jid = s.jid
    BY DEF Streams
  <1>2. t \in Streams
    BY DEF Streams
  <1> QED
    BY <1>1, <1>2 DEF Sound

\* A feature is listed.
LEMMA FeatureListed ==
    ASSUME NEW s \in Streams, s.rc > 0, Sound(s), NEW f \in {"starttls", "mechanisms"},
           NEW t, t = [s EXCEPT !.listed = @ \cup {f}]
    PROVE  /\ t \in Streams /\ t.rc > 0 /\ Sound(t)
           /\ t.msgslot = s.msgslot /\ t.bind = s.bind /\ t.jid = s.jid
  <1> DEFINE l == s.listed \cup {f}
  <1>1. t.rc = s.rc /\ t.msgslot = s.msgslot /\ t.bind = s.bind /\ t.jid = s.jid
    BY DEF Streams
  <1>2. l \in SUBSET {"starttls", "mechanisms"}
    BY DEF Streams
  <1>3. t = [s EXCEPT !.listed = l]
    OBVIOUS
  <1> HIDE DEF l
  <1>4. t \in Streams
    BY <1>2, <1>3 DEF Streams
  <1> QED
    BY <1>1, <1>4 DEF Sound

\* A mechanism is read.
LEMMA MechanismRead ==
    ASSUME NEW s \in Streams, s.rc > 0, Sound(s), NEW m \in {"PLAIN", "DIGEST-MD5"},
           NEW t, t = [s EXCEPT !.mechs = @ \cup {m}]
    PROVE  /\ t \in Streams /\ t.rc > 0 /\ Sound(t)
           /\ t.listed = s.listed /\ t.msgslot = s.msgslot /\ t.bind = s.bind /\ t.jid = s.jid
  <1> DEFINE l == s.mechs \cup {m}
  <1>1. /\ t.rc = s.rc /\ t.listed = s.listed /\ t.msgslot = s.msgslot /\ t.bind = s.bind
        /\ t.jid = s.jid
    BY DEF Streams
  <1>2. l \in SUBSET {"PLAIN", "DIGEST-MD5"}
    BY DEF Streams
  <1>3. t = [s EXCEPT !.mechs = l]
    OBVIOUS
  <1> HIDE DEF l
  <1>4. t \in Streams
    BY <1>2, <1>3 DEF Streams
  <1> QED
    BY <1>1, <1>4 DEF Sound

\* A jid is read in the bind of an iq that exists.
LEMMA JidRead ==
    ASSUME NEW s \in Streams, s.rc > 0, Sound(s), s.bind["iq"] # "absent",
           NEW t, t = [s EXCEPT !.jid = @ \cup {"iq"}]
    PROVE  /\ t \in Streams /\ t.rc > 0 /\ Sound(t)
           /\ t.msgslot = s.msgslot /\ t.bind = s.bind
  <1> DEFINE l == s.jid \cup {"iq"}
  <1>1. t.rc = s.rc /\ t.msgslot = s.msgslot /\ t.bind = s.bind /\ t.jid = l
    BY DEF Streams
  <1>2. l \in SUBSET {"features", "iq"} /\ l \subseteq {"iq"}
    BY DEF Streams, Sound
  <1>3. t = [s EXCEPT !.jid = l]
    OBVIOUS
  <1> HIDE DEF l
  <1>4. t \in Streams
    BY <1>2, <1>3 DEF Streams
  <1> QED
    BY <1>1, <1>2, <1>4 DEF Sound

\* A bind enters a state.
LEMMA BindChanged ==
    ASSUME NEW s \in Streams, s.rc > 0, Sound(s), NEW p \in {"features", "iq"},
           p = "iq" => s.bind["features"] # "absent", NEW b \in {"BIND_SENT", "BIND_OK"},
           NEW t, t = [s EXCEPT !.bind[p] = b]
    PROVE  /\ t \in Streams /\ t.rc > 0 /\ Sound(t)
           /\ t.msgslot = s.msgslot /\ t.jid = s.jid
           /\ t.bind[p] = b
           /\ \A o \in {"features", "iq"} : o # p => t.bind[o] = s.bind[o]
  <1> DEFINE g == [s.bind EXCEPT ![p] = b]
  <1>1. s.bind \in [{"features", "iq"} -> BindStates]
    BY DEF Streams
  <1>2. /\ g \in [{"features", "iq"} -> BindStates] /\ g[p] = b
        /\ \A o \in {"features", "iq"} : o # p => g[o] = s.bind[o]
    BY <1>1 DEF BindStates
  <1>3. t = [s EXCEPT !.bind = g]
    BY DEF Streams
  <1> HIDE DEF g
  <1>4. t \in Streams
    BY <1>2, <1>3 DEF Streams
  <1>5. t.rc = s.rc /\ t.msgslot = s.msgslot /\ t.bind = g /\ t.jid = s.jid
    BY <1>3 DEF Streams
  <1>6. Sound(t)
    <2>1. CASE p = "iq"
      <3>1. t.bind["features"] = s.bind["features"] /\ t.bind["iq"] = b
        BY <1>2, <1>5, <2>1
      <3> QED
        BY <1>5, <2>1, <3>1 DEF Sound
    <2>2. CASE p = "features"
      <3>1. t.bind["iq"] = s.bind["iq"] /\ t.bind["features"] = b
        BY <1>2, <1>5, <2>2
      <3> QED
        BY <1>5, <3>1 DEF Sound
    <2> QED
      BY <2>1, <2>2
  <1> QED
    BY <1>2, <1>4, <1>5, <1>6

-----------------------------------------------------------------------------
(* Steps of the bus keep the invariant. *)

\* A state that no move leaves is the end of the trail.
LEMMA TrailEnd ==
    ASSUME NEW M, NEW q, NEW z, NEW w, Trail(M, q, w, z),
           \A op, name, r : <<q, op, name, r>> \notin M
    PROVE  w = <<>>
  BY TrailHead

\* The parser only reads on a connection that was made.
LEMMA ReadsAfterConnect ==
    ASSUME IInv, wire # <<>>
    PROVE  conn # "off"
  BY DEF IInv

\* What depends on the connection alone.
LEMMA PlainSame ==
    ASSUME conn' = conn, tls' = tls, srv' = srv, restarts' = restarts
    PROVE  Plain' <=> Plain
  BY DEF Plain, AsksForTls

\* The connection and the server are left alone: the tree and the phase remain
\* to be looked at.
LEMMA InvKept ==
    ASSUME IInv, conn # "off", conn' = conn, tls' = tls, srv' = srv, restarts' = restarts,
           Tree', Phase'
    PROVE  IInv'
  <1>1. Server'
    BY DEF IInv, Server
  <1> QED
    BY <1>1 DEF IInv

\* What features_tx has kept, as far as TLS depends on it.
Waits(q, s) ==
    /\ q \in {"bus", "stream", "offer"} => s.listed = {} /\ s.msgslot = "none"
    /\ q \in {"starttls", "features", "mechanisms"} => s.msgslot = "starttls"

\* Reading goes on in the offer of the server.
LEMMA OfferedGoesOn ==
    ASSUME IInv, conn # "off", conn' = conn, tls' = tls, srv' = srv, restarts' = restarts,
           NEW q, Offered(q), NEW r \in States, NEW z \in States,
           Trail(OfferMoves(Plain), r, wire', z),
           path' = At[r], out' = out, shown' = shown, Tree', Plain => Waits(r, First')
    PROVE  IInv'
  <1>1. Plain' <=> Plain
    BY PlainSame
  <1>2. Trail(OfferMoves(Plain'), r, wire', z)
    <2>1. CASE Plain
      BY <1>1, <2>1 DEF OfferMoves
    <2>2. CASE ~Plain
      BY <1>1, <2>2 DEF OfferMoves
    <2> QED
      BY <2>1, <2>2
  <1>3. Silent' /\ ~srv'.authed
    BY DEF Offered, Silent
  <1>4. Plain' => /\ r \in {"bus", "stream", "offer"} => First'.listed = {} /\ First'.msgslot = "none"
                  /\ r \in {"starttls", "features", "mechanisms"} => First'.msgslot = "starttls"
    BY <1>1 DEF Waits
  <1>5. Offered(r)'
    BY <1>2, <1>3, <1>4 DEF Offered
  <1>6. Phase'
    BY <1>5 DEF Phase
  <1> QED
    BY <1>6, InvKept

\* The moves of the offer.
LEMMA OfferMove ==
    ASSUME NEW p \in BOOLEAN, NEW q, NEW op, NEW name, NEW r, <<q, op, name, r>> \in OfferMoves(p)
    PROVE  \/ q = "bus" /\ op = "open" /\ name = "stream" /\ r = "stream"
           \/ q = "stream" /\ op = "open" /\ name = "features" /\ r = "offer"
           \/ q \in {"offer", "features"} /\ op = "open" /\ name = "starttls" /\ r = "starttls"
           \/ q \in {"offer", "features"} /\ op = "close" /\ name = "features" /\ r = "offered"
           \/ q = "starttls" /\ op = "close" /\ name = "starttls" /\ r = "features"
           \/ /\ q \in {"offer", "features"} /\ op = "open" /\ name = "mechanisms" /\ r = "mechanisms"
              /\ p => q = "features"
           \/ /\ q = "mechanisms" /\ op = "leaf" /\ name \in {"PLAIN", "DIGEST-MD5"}
              /\ r = "mechanisms"
           \/ q = "mechanisms" /\ op = "close" /\ name = "mechanisms" /\ r = "features"
  BY DEF OfferMoves

\* The offer of the server is read.
LEMMA OfferedStep ==
    ASSUME IInv, NEW q \in States, Offered(q), BusStep
    PROVE  IInv'
  <1> DEFINE op == Head(wire).op
             name == Head(wire).name
  <1>1. /\ wire # <<>> /\ wire' = Tail(wire) /\ restarts' = restarts
    BY BusStepKinds
  <1>2. conn # "off" /\ Tree
    BY <1>1, ReadsAfterConnect DEF IInv
  <1>3. First \in Streams /\ First.rc > 0 /\ Sound(First)
    BY <1>2, FirstFacts
  <1>4. PICK z \in States : Trail(OfferMoves(Plain), q, wire, z)
    BY DEF Offered
  <1>5. PICK r \in States : /\ <<q, op, name, r>> \in OfferMoves(Plain)
                            /\ Trail(OfferMoves(Plain), r, wire', z)
    BY <1>1, <1>4, TrailHead
  <1>6. path = At[q] /\ out = <<>> /\ shown = 0 /\ (Plain => Waits(q, First))
    BY DEF Offered, Silent, Waits
  <1>7. Plain \in BOOLEAN
    BY DEF Plain
  <1> HIDE DEF op, name
  <1>8. CASE q = "bus" /\ op = "open" /\ name = "stream" /\ r = "stream"
    <2>1. OpenStream
      BY <1>8, BusStepKinds DEF op, name
    <2>2. /\ conn' = conn /\ tls' = tls /\ srv' = srv /\ out' = out /\ shown' = shown
          /\ streams' = streams /\ path' = Append(path, "stream")
      BY <2>1 DEF OpenStream, Reads, Within
    <2>3. path' = At[r]
      BY <1>6, <1>8, <2>2, CursorMoves
    <2>4. Tree' /\ First' = First
      BY <1>2, <2>2, TreeSame
    <2>5. Plain => Waits(r, First')
      BY <1>6, <1>8, <2>4 DEF Waits
    <2> QED
      BY <1>1, <1>2, <1>5, <2>2, <2>3, <2>4, <2>5, OfferedGoesOn
  <1>9. CASE q = "stream" /\ op = "open" /\ name = "features" /\ r = "offer"
    <2>1. OpenChild("features")
      BY <1>9, BusStepKinds DEF op, name, Children
    <2> DEFINE s == [First EXCEPT !.kids = @ \cup {"features"}, !.rc = @ + 1]
    <2>2. /\ conn' = conn /\ tls' = tls /\ srv' = srv /\ out' = out /\ shown' = shown
          /\ streams' = streams \/ streams' = WithFirst(s)
          /\ path' = Append(path, "features")
      BY <2>1 DEF OpenChild, Reads, Within
    <2>3. path' = At[r]
      BY <1>6, <1>9, <2>2, CursorMoves
    <2>4. s \in Streams /\ s.rc > 0 /\ Sound(s) /\ s.listed = First.listed /\ s.msgslot = First.msgslot
      BY <1>3, ChildAppended DEF Children
    <2> HIDE DEF s
    <2>5. Tree' /\ First'.listed = First.listed /\ First'.msgslot = First.msgslot
      BY <1>2, <2>2, <2>4, TreeSame, TreeEdited
    <2>6. Plain => Waits(r, First')
      BY <1>6, <1>9, <2>5 DEF Waits
    <2> QED
      BY <1>1, <1>2, <1>5, <2>2, <2>3, <2>5, <2>6, OfferedGoesOn
  <1>10. CASE q \in {"offer", "features"} /\ op = "open" /\ name = "starttls" /\ r = "starttls"
    <2>1. OpenStarttls
      BY <1>10, BusStepKinds DEF op, name
    <2> DEFINE k == Kept(First, "starttls")
               s == [k EXCEPT !.listed = @ \cup {"starttls"}]
    <2>2. /\ conn' = conn /\ tls' = tls /\ srv' = srv /\ out' = out /\ shown' = shown
          /\ streams' = IF "starttls" \in First.listed THEN streams ELSE WithFirst(s)
          /\ path' = Append(path, "starttls")
      BY <2>1 DEF OpenStarttls, Reads, Within
    <2>3. path' = At[r]
      BY <1>6, <1>10, <2>2, CursorMoves
    <2>4. /\ k \in Streams /\ k.rc > 0 /\ Sound(k)
          /\ k.msgslot = IF First.msgslot = "none" THEN "starttls" ELSE First.msgslot
      BY <1>3, SlotChanged DEF Kept
    <2> HIDE DEF k
    <2>5. s \in Streams /\ s.rc > 0 /\ Sound(s) /\ s.msgslot = k.msgslot
      BY <2>4, FeatureListed
    <2> HIDE DEF s
    <2>6. CASE "starttls" \in First.listed
      <3>1. Tree' /\ First' = First
        BY <1>2, <2>2, <2>6, TreeSame
      <3>2. Plain => Waits(r, First')
        BY <1>6, <1>10, <2>6, <3>1 DEF Waits
      <3> QED
        BY <1>1, <1>2, <1>5, <2>2, <2>3, <3>1, <3>2, OfferedGoesOn
    <2>7. CASE "starttls" \notin First.listed
      <3>1. Tree' /\ First' = s
        BY <1>2, <2>2, <2>5, <2>7, TreeEdited
      <3>2. Plain => Waits(r, First')
        BY <1>6, <1>10, <2>4, <2>5, <3>1 DEF Waits
      <3> QED
        BY <1>1, <1>2, <1>5, <2>2, <2>3, <3>1, <3>2, OfferedGoesOn
    <2> QED
      BY <2>6, <2>7
  <1>11. CASE q \in {"offer", "features"} /\ op = "close" /\ name = "features" /\ r = "offered"
    <2>1. CloseFeatures
      BY <1>11, BusStepKinds DEF op, name
    <2> DEFINE s == [First EXCEPT !.msgslot = "none"]
               m == First.msgslot
    <2>2. /\ conn' = conn /\ tls' = tls /\ srv' = srv /\ shown' = shown
          /\ streams' = WithFirst(s)
          /\ path' = Front(path)
          /\ out' = IF m = "none" \/ conn # "up" THEN out ELSE out \o <<m>>
      BY <2>1 DEF CloseFeatures, Reads, Leaves, Written
    <2>3. path' = At[r]
      BY <1>6, <1>11, <2>2, CursorMoves
    <2>4. s \in Streams /\ s.rc > 0 /\ Sound(s) /\ s.msgslot = "none"
      BY <1>3, SlotChanged
    <2> HIDE DEF s
    <2>5. Tree' /\ First' = s
      BY <1>2, <2>2, <2>4, TreeEdited
    <2>6. wire' = <<>>
      <3>1. \A o, n, t : <<r, o, n, t>> \notin OfferMoves(Plain)
        BY <1>7, <1>11 DEF OfferMoves
      <3> QED
        BY <1>5, <3>1, TrailEnd
    <2>7. CASE m = "none" \/ conn # "up"
      <3>1. out' = out
        BY <2>2, <2>7
      <3>2. Plain => Waits(r, First')
        BY <1>11 DEF Waits
      <3> QED
        BY <1>1, <1>2, <1>5, <2>2, <2>3, <2>5, <3>1, <3>2, OfferedGoesOn
    <2>8. CASE m # "none" /\ conn = "up"
      <3>1. m \in {"starttls", "auth"}
        BY <1>3, <2>8 DEF Streams
      <3>2. out' = <<m>>
        BY <1>6, <2>2, <2>8
      <3>3. Plain => m = "starttls"
        BY <1>6, <1>11, <2>8 DEF Waits
      <3> HIDE DEF m
      <3>4. out' \in {<<"starttls">>, <<"auth">>} /\ (Plain => out' = <<"starttls">>)
        BY <3>1, <3>2, <3>3
      <3>5. Plain' <=> Plain
        BY <1>1, <2>2, PlainSame
      <3>6. path' = <<"stream">>
        BY <1>11, <2>3, CursorMoves
      <3>7. ~srv'.authed
        BY <2>2 DEF Offered
      <3>8. Asking'
        BY <1>6, <2>2, <2>4, <2>5, <2>6, <2>8, <3>4, <3>5, <3>6, <3>7 DEF Asking
      <3>9. Phase'
        BY <3>8 DEF Phase
      <3> QED
        BY <1>1, <1>2, <2>2, <2>5, <3>9, InvKept
    <2> QED
      BY <2>7, <2>8
  <1>12. CASE q = "starttls" /\ op = "close" /\ name = "starttls" /\ r = "features"
    <2>1. CloseOther("starttls")
      BY <1>12, BusStepKinds DEF op, name
    <2>2. /\ conn' = conn /\ tls' = tls /\ srv' = srv /\ out' = out /\ shown' = shown
          /\ streams' = streams /\ path' = Front(path)
      BY <2>1 DEF CloseOther, Reads, Leaves
    <2>3. path' = At[r]
      BY <1>6, <1>12, <2>2, CursorMoves
    <2>4. Tree' /\ First' = First
      BY <1>2, <2>2, TreeSame
    <2>5. Plain => Waits(r, First')
      BY <1>6, <1>12, <2>4 DEF Waits
    <2> QED
      BY <1>1, <1>2, <1>5, <2>2, <2>3, <2>4, <2>5, OfferedGoesOn
  <1>13. CASE /\ q \in {"offer", "features"} /\ op = "open" /\ name = "mechanisms" /\ r = "mechanisms"
              /\ Plain => q = "features"
    <2>1. OpenMechanisms
      BY <1>13, BusStepKinds DEF op, name
    <2> DEFINE s == [First EXCEPT !.listed = @ \cup {"mechanisms"}]
    <2>2. /\ conn' = conn /\ tls' = tls /\ srv' = srv /\ out' = out /\ shown' = shown
          /\ streams' = WithFirst(s)
          /\ path' = Append(path, "mechanisms")
      BY <2>1 DEF OpenMechanisms, Reads, Within
    <2>3. path' = At[r]
      BY <1>6, <1>13, <2>2, CursorMoves
    <2>4. s \in Streams /\ s.rc > 0 /\ Sound(s) /\ s.msgslot = First.msgslot
      BY <1>3, FeatureListed
    <2> HIDE DEF s
    <2>5. Tree' /\ First' = s
      BY <1>2, <2>2, <2>4, TreeEdited
    <2>6. Plain => Waits(r, First')
      BY <1>6, <1>13, <2>4, <2>5 DEF Waits
    <2> QED
      BY <1>1, <1>2, <1>5, <2>2, <2>3, <2>5, <2>6, OfferedGoesOn
  <1>14. CASE /\ q = "mechanisms" /\ op = "leaf" /\ name \in {"PLAIN", "DIGEST-MD5"}
              /\ r = "mechanisms"
    <2>1. Leaf(name)
      BY <1>14, BusStepKinds DEF op, name
    <2> DEFINE s == [First EXCEPT !.mechs = @ \cup {name}]
    <2>2. /\ conn' = conn /\ tls' = tls /\ srv' = srv /\ out' = out /\ shown' = shown
          /\ streams' = WithFirst(s)
          /\ path' = path
      BY <1>14, <2>1 DEF Leaf, Reads
    <2>3. path' = At[r]
      BY <1>6, <1>14, <2>2
    <2>4. s \in Streams /\ s.rc > 0 /\ Sound(s) /\ s.msgslot = First.msgslot
      BY <1>3, <1>14, MechanismRead
    <2> HIDE DEF s
    <2>5. Tree' /\ First' = s
      BY <1>2, <2>2, <2>4, TreeEdited
    <2>6. Plain => Waits(r, First')
      BY <1>6, <1>14, <2>4, <2>5 DEF Waits
    <2> QED
      BY <1>1, <1>2, <1>5, <2>2, <2>3, <2>5, <2>6, OfferedGoesOn
  <1>15. CASE q = "mechanisms" /\ op = "close" /\ name = "mechanisms" /\ r = "features"
    <2>1. CloseMechanisms
      BY <1>15, BusStepKinds DEF op, name
    <2> DEFINE k == Kept(First, "auth")
    <2>2. /\ conn' = conn /\ tls' = tls /\ srv' = srv /\ out' = out /\ shown' = shown
          /\ streams' = streams \/ streams' = WithFirst(k)
          /\ path' = Front(path)
      BY <2>1 DEF CloseMechanisms, Reads, Leaves, AuthPlain
    <2>3. path' = At[r]
      BY <1>6, <1>15, <2>2, CursorMoves
    <2>4. /\ k \in Streams /\ k.rc > 0 /\ Sound(k)
          /\ First.msgslot # "none" => k.msgslot = First.msgslot
      BY <1>3, SlotChanged DEF Kept
    <2> HIDE DEF k
    <2>5. Tree' /\ (First.msgslot # "none" => First'.msgslot = First.msgslot)
      BY <1>2, <2>2, <2>4, TreeSame, TreeEdited
    <2>6. Plain => Waits(r, First')
      BY <1>6, <1>15, <2>5 DEF Waits
    <2> QED
      BY <1>1, <1>2, <1>5, <2>2, <2>3, <2>5, <2>6, OfferedGoesOn
  <1> QED
    BY <1>5, <1>7, <1>8, <1>9, <1>10, <1>11, <1>12, <1>13, <1>14, <1>15, OfferMove

\* The moves of an answer.
LEMMA AnswerMove ==
    ASSUME NEW a \in Answers, NEW q, NEW op, NEW name, NEW r, <<q, op, name, r>> \in AnswerMoves(a)
    PROVE  \/ /\ q = "offered" /\ op = "open" /\ name \in Children
              /\ Append(At["offered"], name) = At[r] /\ r # "offered"
           \/ a = "refused" /\ q = "refused" /\ op = "close" /\ name = "tls-failure" /\ r = "offered"
           \/ a = "proceed" /\ q = "proceed" /\ op = "close" /\ name = "proceed" /\ r = "bus"
           \/ a \in {"success", "failure"} /\ q = a /\ op = "close" /\ name = a /\ r = "bus"
  <1>1. CASE a = "proceed"
    <2>1. \/ q = "offered" /\ op = "open" /\ name = "proceed" /\ r = "proceed"
          \/ q = "proceed" /\ op = "close" /\ name = "proceed" /\ r = "bus"
      BY <1>1 DEF AnswerMoves
    <2> QED
      BY <1>1, <2>1, CursorMoves DEF Children
  <1>2. CASE a = "refused"
    <2>1. \/ q = "offered" /\ op = "open" /\ name = "tls-failure" /\ r = "refused"
          \/ q = "refused" /\ op = "close" /\ name = "tls-failure" /\ r = "offered"
      BY <1>2 DEF AnswerMoves
    <2> QED
      BY <1>2, <2>1, CursorMoves DEF Children
  <1>3. CASE a = "success"
    <2>1. \/ q = "offered" /\ op = "open" /\ name = "success" /\ r = "success"
          \/ q = "success" /\ op = "close" /\ name = "success" /\ r = "bus"
      BY <1>3 DEF AnswerMoves
    <2> QED
      BY <1>3, <2>1, CursorMoves DEF Children
  <1>4. CASE a = "failure"
    <2>1. \/ q = "offered" /\ op = "open" /\ name = "failure" /\ r = "failure"
          \/ q = "failure" /\ op = "close" /\ name = "failure" /\ r = "bus"
      BY <1>4 DEF AnswerMoves
    <2> QED
      BY <1>4, <2>1, CursorMoves DEF Children
  <1> QED
    BY <1>1, <1>2, <1>3, <1>4 DEF Answers

\* Nothing comes behind an answer that starts a new stream.
LEMMA AnswerEnds ==
    ASSUME NEW a \in Answers, NEW w, NEW z, Trail(AnswerMoves(a), "bus", w, z)
    PROVE  w = <<>>
  <1>1. \A op, name, r : <<"bus", op, name, r>> \notin AnswerMoves(a)
    BY DEF AnswerMoves, Answers
  <1> QED
    BY <1>1, TrailEnd

\* A new stream on a connection that is up: the header was written.  On one
\* that is lost: nothing is left to read.
LEMMA NewStreamPhase ==
    ASSUME conn' # "off", Tree', wire' = <<>>, path' = <<>>, shown' = 0,
           out' = IF conn' = "up" THEN <<"header">> ELSE <<>>,
           srv'.authed \in BOOLEAN, srv'.authed => First'.msgslot = "none",
           Plain' => ~srv'.authed /\ First'.listed = {} /\ First'.msgslot = "none"
    PROVE  Phase'
  <1>1. CASE conn' = "up"
    <2>1. Calling'
      BY <1>1 DEF Calling
    <2> QED
      BY <2>1 DEF Phase
  <1>2. CASE conn' # "up"
    <2>1. ~Plain' /\ out' = <<>> /\ Silent'
      BY <1>2 DEF Plain, Silent
    <2>2. "bus" \in States /\ path' = At["bus"]
      BY CursorMoves DEF States
    <2>3. ASSUME NEW M PROVE Trail(M, "bus", wire', "bus")
      BY <2>2, TrailEmpty
    <2>4. CASE srv'.authed
      <3>1. Trail(BindMoves, "bus", wire', "bus")
        BY <2>3
      <3>2. Binding("bus")'
        BY <1>2, <2>1, <2>2, <2>4, <3>1 DEF Binding
      <3> QED
        BY <2>2, <3>2 DEF Phase
    <2>5. CASE ~srv'.authed
      <3>1. Trail(OfferMoves(Plain'), "bus", wire', "bus")
        BY <2>3
      <3>2. Offered("bus")'
        BY <2>1, <2>2, <2>5, <3>1 DEF Offered
      <3> QED
        BY <2>2, <3>2 DEF Phase
    <2> QED
      BY <2>4, <2>5
  <1> QED
    BY <1>1, <1>2

\* The answer to starttls or auth is read.
LEMMA AnsweredStep ==
    ASSUME IInv, NEW a \in Answers, NEW q \in States, Answered(a, q), BusStep
    PROVE  IInv'
  <1> DEFINE op == Head(wire).op
             name == Head(wire).name
             M == AnswerMoves(a)
  <1>1. /\ wire # <<>> /\ wire' = Tail(wire) /\ restarts' = restarts
    BY BusStepKinds
  <1>2. conn # "off" /\ Tree /\ Server /\ conn \in {"up", "lost"} /\ tls \in BOOLEAN
    BY <1>1, ReadsAfterConnect DEF IInv
  <1>3. First \in Streams /\ First.rc > 0 /\ Sound(First)
    BY <1>2, FirstFacts
  <1>4. PICK z \in States : Trail(M, q, wire, z)
    BY DEF Answered
  <1>5. PICK r \in States : <<q, op, name, r>> \in M /\ Trail(M, r, wire', z)
    BY <1>1, <1>4, TrailHead
  <1>6. /\ path = At[q] /\ out = <<>> /\ shown = 0 /\ First.msgslot = "none"
        /\ (srv.authed <=> a = "success") /\ srv.authed \in BOOLEAN
        /\ a \in {"success", "failure"} => ~Plain
    BY <1>2 DEF Answered, Silent, Server
  <1>7. ASSUME conn' = conn, tls' = tls, srv' = srv, path' = At[r], out' = out, shown' = shown,
               Tree', First'.msgslot = "none"
        PROVE  IInv'
    <2>1. Plain' <=> Plain
      BY <1>1, <1>7, PlainSame
    <2>2. Silent' /\ srv'.authed = (a = "success") /\ (a \in {"success", "failure"} => ~Plain')
      BY <1>6, <1>7, <2>1 DEF Silent
    <2>3. Answered(a, r)'
      BY <1>5, <1>7, <2>2 DEF Answered
    <2>4. Phase'
      BY <2>3 DEF Phase
    <2> QED
      BY <1>1, <1>2, <1>7, <2>4, InvKept
  <1> HIDE DEF op, name, M
  <1>8. CASE /\ q = "offered" /\ op = "open" /\ name \in Children
             /\ Append(At["offered"], name) = At[r] /\ r # "offered"
    <2>1. OpenChild(name)
      BY <1>8, BusStepKinds DEF op, name
    <2> DEFINE s == [First EXCEPT !.kids = @ \cup {name}, !.rc = @ + 1]
    <2>2. /\ conn' = conn /\ tls' = tls /\ srv' = srv /\ out' = out /\ shown' = shown
          /\ streams' = streams \/ streams' = WithFirst(s)
          /\ path' = Append(path, name)
      BY <2>1 DEF OpenChild, Reads, Within
    <2>3. path' = At[r]
      BY <1>6, <1>8, <2>2
    <2>4. s \in Streams /\ s.rc > 0 /\ Sound(s) /\ s.msgslot = First.msgslot
      BY <1>3, <1>8, ChildAppended
    <2> HIDE DEF s
    <2>5. Tree' /\ First'.msgslot = First.msgslot
      BY <1>2, <2>2, <2>4, TreeSame, TreeEdited
    <2> QED
      BY <1>6, <1>7, <2>2, <2>3, <2>5
  <1>9. CASE a = "refused" /\ q = "refused" /\ op = "close" /\ name = "tls-failure" /\ r = "offered"
    <2>1. CloseOther("tls-failure")
      BY <1>9, BusStepKinds DEF op, name
    <2>2. /\ conn' = conn /\ tls' = tls /\ srv' = srv /\ out' = out /\ shown' = shown
          /\ streams' = streams /\ path' = Front(path)
      BY <2>1 DEF CloseOther, Reads, Leaves
    <2>3. path' = At[r]
      BY <1>6, <1>9, <2>2, CursorMoves
    <2>4. Tree' /\ First' = First
      BY <1>2, <2>2, TreeSame
    <2> QED
      BY <1>6, <1>7, <2>2, <2>3, <2>4
  <1>10. CASE a = "proceed" /\ q = "proceed" /\ op = "close" /\ name = "proceed" /\ r = "bus"
    <2>1. CloseProceed
      BY <1>10, BusStepKinds DEF op, name
    <2>2. wire' = <<>>
      BY <1>5, <1>10, AnswerEnds DEF M
    <2>3. PICK ok \in Handshakes :
             /\ tls' = (tls \/ ok)
             /\ conn' = IF ok THEN conn ELSE "lost"
             /\ srv' = IF ok THEN [srv EXCEPT !.tls = TRUE, !.open = FALSE] ELSE srv
             /\ ResetStream(ok)
      BY <2>1 DEF CloseProceed
    <2>4. shown' = 0 /\ ok \in BOOLEAN /\ (ok => conn = "up")
      BY <1>6, <2>1, <2>3 DEF CloseProceed, Handshakes
    <2>5. /\ conn' # "off" /\ streams' = Append(PutFirst(streams), NewStream) /\ path' = <<>>
          /\ out' = IF ok THEN Append(out, "header") ELSE <<>>
      BY <1>2, <2>3 DEF ResetStream, Published
    <2>6. Tree'
      BY <1>2, <2>5, TreeReset
    <2>7. CASE ok
      <3>1. conn' = "up" /\ tls' = TRUE /\ srv' = [srv EXCEPT !.tls = TRUE, !.open = FALSE]
        BY <2>3, <2>4, <2>7
      <3>2. out' = <<"header">>
        BY <1>6, <2>5, <2>7
      <3>3. srv'.authed = srv.authed /\ ~srv.authed
        BY <1>2, <1>6, <1>10, <3>1 DEF Server
      <3>4. ~Plain'
        BY <3>1 DEF Plain
      <3>5. Phase'
        BY <1>6, <2>2, <2>4, <2>5, <2>6, <3>1, <3>2, <3>3, <3>4, NewStreamPhase
      <3>6. Server'
        BY <1>2, <3>1 DEF Server
      <3> QED
        BY <1>1, <2>5, <2>6, <3>1, <3>5, <3>6 DEF IInv
    <2>8. CASE ~ok
      <3>1. conn' = "lost" /\ tls' = tls /\ srv' = srv /\ out' = <<>>
        BY <1>2, <2>3, <2>4, <2>5, <2>8
      <3>2. ~srv'.authed
        BY <1>6, <1>10, <3>1
      <3>3. ~Plain'
        BY <3>1 DEF Plain
      <3>4. Phase'
        BY <1>6, <2>2, <2>4, <2>5, <2>6, <3>1, <3>2, <3>3, NewStreamPhase
      <3>5. Server'
        BY <1>2, <3>1 DEF Server
      <3> QED
        BY <1>1, <1>2, <2>5, <2>6, <3>1, <3>4, <3>5 DEF IInv
    <2> QED
      BY <2>4, <2>7, <2>8
  <1>11. CASE a \in {"success", "failure"} /\ q = a /\ op = "close" /\ name = a /\ r = "bus"
    <2>1. CloseOutcome(a)
      BY <1>11, BusStepKinds DEF op, name
    <2>2. wire' = <<>>
      BY <1>5, <1>11, AnswerEnds DEF M
    <2>3. /\ conn' = conn /\ tls' = tls /\ srv' = srv /\ shown' = shown
          /\ streams' = Append(PutFirst(streams), NewStream) /\ path' = <<>>
          /\ out' = IF conn = "up" THEN Append(out, "header") ELSE <<>>
      BY <2>1 DEF CloseOutcome, Reads, ResetStream, Published
    <2>4. Tree' /\ First'.msgslot = "none"
      BY <1>2, <1>6, <2>3, TreeReset
    <2>5. ~Plain'
      BY <1>1, <1>6, <1>11, <2>3, PlainSame
    <2>6. out' = IF conn' = "up" THEN <<"header">> ELSE <<>>
      BY <1>6, <2>3
    <2>7. Phase'
      BY <1>2, <1>6, <2>2, <2>3, <2>4, <2>5, <2>6, NewStreamPhase
    <2> QED
      BY <1>1, <1>2, <2>3, <2>4, <2>7, InvKept
  <1> QED
    BY <1>5, <1>8, <1>9, <1>10, <1>11, AnswerMove DEF M

\* The moves after login.
LEMMA BindMove ==
    ASSUME NEW q, NEW op, NEW name, NEW r, <<q, op, name, r>> \in BindMoves
    PROVE  \/ q = "bus" /\ op = "open" /\ name = "stream" /\ r = "stream"
           \/ q = "stream" /\ op = "open" /\ name = "features" /\ r = "features"
           \/ q = "features" /\ op = "open" /\ name = "bind" /\ r = "bind"
           \/ q = "bind" /\ op = "close" /\ name = "bind" /\ r = "features"
           \/ q = "features" /\ op = "close" /\ name = "features" /\ r = "ready"
  BY DEF BindMoves

\* The moves of a session.
LEMMA SessionMove ==
    ASSUME NEW b \in BOOLEAN, NEW q, NEW op, NEW name, NEW r, <<q, op, name, r>> \in SessionMoves(b)
    PROVE  \/ <<q, op, name, r>> \in BindMoves
           \/ q = "ready" /\ op = "open" /\ name = "iq" /\ r = "iq"
           \/ q = "iq" /\ op = "open" /\ name = "bind" /\ r = "iqbind"
           \/ q = "iqbind" /\ op = "close" /\ name = "bind" /\ r = "iq"
           \/ q = "iq" /\ op = "close" /\ name = "iq" /\ r = "ready"
           \/ q = "iqbind" /\ op = "leaf" /\ name = "jid" /\ r = "iqbind" /\ b
  BY DEF SessionMoves

\* A feature that was closed after login: nothing was kept.
LEMMA FeaturesClosed ==
    ASSUME Tree, conn # "off", CloseFeatures, First.msgslot = "none"
    PROVE  /\ conn' = conn /\ tls' = tls /\ srv' = srv /\ shown' = shown /\ out' = out
           /\ path' = Front(path)
           /\ Tree' /\ First'.msgslot = "none"
           /\ First'.bind = First.bind /\ First'.jid = First.jid
  <1> DEFINE s == [First EXCEPT !.msgslot = "none"]
  <1>1. /\ conn' = conn /\ tls' = tls /\ srv' = srv /\ shown' = shown /\ out' = out
        /\ path' = Front(path) /\ streams' = WithFirst(s)
    BY DEF CloseFeatures, Reads, Leaves
  <1>2. First \in Streams /\ First.rc > 0 /\ Sound(First)
    BY FirstFacts
  <1>3. /\ s \in Streams /\ s.rc > 0 /\ Sound(s) /\ s.msgslot = "none"
        /\ s.bind = First.bind /\ s.jid = First.jid
    BY <1>2, SlotChanged
  <1> HIDE DEF s
  <1>4. Tree' /\ First' = s
    BY <1>1, <1>3, TreeEdited
  <1> QED
    BY <1>1, <1>3, <1>4

\* A child that was opened.
LEMMA ChildOpened ==
    ASSUME Tree, conn # "off", NEW c \in Children, OpenChild(c)
    PROVE  /\ conn' = conn /\ tls' = tls /\ srv' = srv /\ shown' = shown /\ out' = out
           /\ path' = Append(path, c)
           /\ Tree' /\ First'.msgslot = First.msgslot
           /\ First'.bind = First.bind /\ First'.jid = First.jid
  <1> DEFINE s == [First EXCEPT !.kids = @ \cup {c}, !.rc = @ + 1]
  <1>1. /\ conn' = conn /\ tls' = tls /\ srv' = srv /\ shown' = shown /\ out' = out
        /\ path' = Append(path, c) /\ (streams' = streams \/ streams' = WithFirst(s))
    BY DEF OpenChild, Reads, Within
  <1>2. First \in Streams /\ First.rc > 0 /\ Sound(First)
    BY FirstFacts
  <1>3. /\ s \in Streams /\ s.rc > 0 /\ Sound(s) /\ s.msgslot = First.msgslot
        /\ s.bind = First.bind /\ s.jid = First.jid
    BY <1>2, ChildAppended
  <1> HIDE DEF s
  <1>4. Tree' /\ (First' = s \/ First' = First)
    BY <1>1, <1>3, TreeEdited, TreeSame
  <1> QED
    BY <1>1, <1>3, <1>4

\* A stream that was opened, or an iq that was closed.
LEMMA TreeUntouched ==
    ASSUME Tree, conn # "off", OpenStream \/ CloseOther("iq")
    PROVE  /\ conn' = conn /\ tls' = tls /\ srv' = srv /\ shown' = shown /\ out' = out
           /\ OpenStream => path' = Append(path, "stream")
           /\ CloseOther("iq") => path' = Front(path)
           /\ Tree' /\ First' = First
  <1>1. /\ conn' = conn /\ tls' = tls /\ srv' = srv /\ shown' = shown /\ out' = out
        /\ streams' = streams
        /\ OpenStream => path' = Append(path, "stream")
        /\ CloseOther("iq") => path' = Front(path)
    BY DEF OpenStream, CloseOther, Reads, Within, Leaves
  <1>2. Tree' /\ First' = First
    BY <1>1, TreeSame
  <1> QED
    BY <1>1, <1>2

\* The features after login are read, and no resource has been asked for.
LEMMA BindingStep ==
    ASSUME IInv, NEW q \in States, Binding(q), BusStep
    PROVE  IInv'
  <1> DEFINE op == Head(wire).op
             name == Head(wire).name
  <1>1. /\ wire # <<>> /\ wire' = Tail(wire) /\ restarts' = restarts
    BY BusStepKinds
  <1>2. conn # "off" /\ Tree
    BY <1>1, ReadsAfterConnect DEF IInv
  <1>3. First \in Streams /\ First.rc > 0 /\ Sound(First)
    BY <1>2, FirstFacts
  <1>4. PICK z \in States : Trail(BindMoves, q, wire, z) /\ (conn = "up" => z = "ready")
    BY DEF Binding
  <1>5. PICK r \in States : <<q, op, name, r>> \in BindMoves /\ Trail(BindMoves, r, wire', z)
    BY <1>1, <1>4, TrailHead
  <1>6. path = At[q] /\ out = <<>> /\ shown = 0 /\ First.msgslot = "none" /\ srv.authed /\ ~Plain
    BY DEF Binding, Silent
  <1>7. ASSUME conn' = conn, tls' = tls, srv' = srv, path' = At[r], out' = out, shown' = shown,
               Tree', First'.msgslot = "none"
        PROVE  IInv'
    <2>1. ~Plain' /\ Silent' /\ srv'.authed
      BY <1>1, <1>6, <1>7, PlainSame DEF Silent
    <2>2. \E y \in States : Trail(BindMoves, r, wire', y) /\ (conn' = "up" => y = "ready")
      BY <1>4, <1>5, <1>7
    <2>3. Binding(r)'
      BY <1>7, <2>1, <2>2 DEF Binding
    <2>4. Phase'
      BY <2>3 DEF Phase
    <2> QED
      BY <1>1, <1>2, <1>7, <2>4, InvKept
  <1> HIDE DEF op, name
  <1>8. CASE q = "bus" /\ op = "open" /\ name = "stream" /\ r = "stream"
    <2>1. OpenStream
      BY <1>8, BusStepKinds DEF op, name
    <2>2. path' = At[r]
      BY <1>2, <1>6, <1>8, <2>1, CursorMoves, TreeUntouched
    <2> QED
      BY <1>2, <1>6, <1>7, <2>1, <2>2, TreeUntouched
  <1>9. CASE q = "stream" /\ op = "open" /\ name = "features" /\ r = "features"
    <2>1. OpenChild("features") /\ "features" \in Children
      BY <1>9, BusStepKinds DEF op, name, Children
    <2>2. path' = At[r]
      BY <1>2, <1>6, <1>9, <2>1, CursorMoves, ChildOpened
    <2> QED
      BY <1>2, <1>6, <1>7, <2>1, <2>2, ChildOpened
  <1>10. CASE q = "features" /\ op = "open" /\ name = "bind" /\ r = "bind"
    <2>1. OpenBind
      BY <1>10, BusStepKinds DEF op, name
    <2>2. path[2] = "features"
      BY <1>6, <1>10, CursorMoves
    <2> DEFINE s == [First EXCEPT !.bind["features"] = "BIND_SENT"]
    <2>3. /\ conn' = conn /\ tls' = tls /\ srv' = srv /\ shown' = shown
          /\ path' = Append(path, "bind")
          /\ IF First.bind["features"] = "absent"
             THEN streams' = WithFirst(s) /\ out' = Written(<<"bind">>)
             ELSE streams' = streams /\ out' = out
      BY <2>1, <2>2 DEF OpenBind, Reads, Within
    <2>4. path' = At[r]
      BY <1>6, <1>10, <2>3, CursorMoves
    <2>5. CASE First.bind["features"] # "absent"
      <3>1. Tree' /\ First' = First
        BY <1>2, <2>3, <2>5, TreeSame
      <3> QED
        BY <1>6, <1>7, <2>3, <2>4, <2>5, <3>1
    <2>6. CASE First.bind["features"] = "absent"
      <3>1. /\ s \in Streams /\ s.rc > 0 /\ Sound(s) /\ s.msgslot = "none" /\ s.jid = First.jid
            /\ s.bind["features"] = "BIND_SENT"
        BY <1>3, <1>6, BindChanged
      <3>2. "iq" \notin s.jid
        BY <1>3, <2>6, <3>1 DEF Sound
      <3> HIDE DEF s
      <3>3. Tree' /\ First' = s
        BY <1>2, <2>3, <2>6, <3>1, TreeEdited
      <3>4. out' = IF conn = "up" THEN <<"bind">> ELSE <<>>
        BY <1>6, <2>3, <2>6 DEF Written
      <3>5. out' \in Seq({"bind", "session", "presence"}) /\ (conn' # "up" => out' = <<>>)
        <4>1. <<"bind">> \in Seq({"bind", "session", "presence"})
          OBVIOUS
        <4>2. <<>> \in Seq({"bind", "session", "presence"})
          OBVIOUS
        <4> QED
          BY <2>3, <3>4, <4>1, <4>2
      <3>6. ~Plain' /\ srv'.authed
        BY <1>1, <1>6, <2>3, PlainSame
      <3>7. \E y \in States : /\ Trail(SessionMoves(srv'.bound), r, wire', y)
                              /\ conn' = "up" => y = "ready"
        <4>1. BindMoves \subseteq SessionMoves(srv'.bound)
          BY DEF SessionMoves
        <4>2. Trail(SessionMoves(srv'.bound), r, wire', z)
          BY <1>5, <4>1, TrailMore
        <4> QED
          BY <1>4, <2>3, <4>2
      <3>8. shown' = 0
        BY <1>6, <2>3
      <3>9. Session(r)'
        BY <1>10, <2>4, <3>1, <3>2, <3>3, <3>5, <3>6, <3>7, <3>8 DEF Session
      <3>10. Phase'
        BY <3>9 DEF Phase
      <3> QED
        BY <1>1, <1>2, <2>3, <3>3, <3>10, InvKept
    <2> QED
      BY <2>5, <2>6
  <1>11. CASE q = "bind" /\ op = "close" /\ name = "bind" /\ r = "features"
    <2>1. CloseBind
      BY <1>11, BusStepKinds DEF op, name
    <2>2. path[2] = "features"
      BY <1>6, <1>11, CursorMoves
    <2>3. "features" \notin First.jid
      BY <1>3 DEF Sound
    <2>4. /\ conn' = conn /\ tls' = tls /\ srv' = srv /\ shown' = shown
          /\ path' = Front(path) /\ streams' = streams /\ out' = out
      BY <2>1, <2>2, <2>3 DEF CloseBind, Reads, Leaves
    <2>5. path' = At[r]
      BY <1>6, <1>11, <2>4, CursorMoves
    <2>6. Tree' /\ First' = First
      BY <1>2, <2>4, TreeSame
    <2> QED
      BY <1>6, <1>7, <2>4, <2>5, <2>6
  <1>12. CASE q = "features" /\ op = "close" /\ name = "features" /\ r = "ready"
    <2>1. CloseFeatures
      BY <1>12, BusStepKinds DEF op, name
    <2>2. path' = At[r]
      BY <1>2, <1>6, <1>12, <2>1, CursorMoves, FeaturesClosed
    <2> QED
      BY <1>2, <1>6, <1>7, <2>1, <2>2, FeaturesClosed
  <1> QED
    BY <1>5, <1>8, <1>9, <1>10, <1>11, <1>12, BindMove

Wanted == {"bind", "session", "presence"}

\* The answers to bind and session are read.
LEMMA SessionStep ==
    ASSUME IInv, NEW q \in States, Session(q), BusStep
    PROVE  IInv'
  <1> DEFINE op == Head(wire).op
             name == Head(wire).name
             M == SessionMoves(srv.bound)
  <1>1. /\ wire # <<>> /\ wire' = Tail(wire) /\ restarts' = restarts
    BY BusStepKinds
  <1>2. conn # "off" /\ Tree /\ Server
    BY <1>1, ReadsAfterConnect DEF IInv
  <1>3. First \in Streams /\ First.rc > 0 /\ Sound(First) /\ srv.bound \in BOOLEAN
    BY <1>2, FirstFacts DEF Server
  <1>4. PICK z \in States : Trail(M, q, wire, z) /\ (conn = "up" => z = "ready")
    BY DEF Session
  <1>5. PICK r \in States : <<q, op, name, r>> \in M /\ Trail(M, r, wire', z)
    BY <1>1, <1>4, TrailHead
  <1>6. /\ path = At[q] /\ srv.authed /\ ~Plain /\ First.msgslot = "none"
        /\ First.bind["features"] # "absent"
        /\ q = "iqbind" => First.bind["iq"] # "absent"
        /\ "iq" \in First.jid => srv.bound
        /\ shown \in {0, 1} /\ (shown = 1 => srv.bound /\ First.bind["iq"] = "BIND_OK")
    BY DEF Session
  <1>7. out \in Seq(Wanted) /\ (conn # "up" => out = <<>>)
    BY DEF Session, Wanted
  <1>8. ASSUME conn' = conn, tls' = tls, srv' = srv, path' = At[r],
               out' \in Seq(Wanted), conn # "up" => out' = <<>>,
               Tree', First'.msgslot = "none", First'.bind["features"] # "absent",
               r = "iqbind" => First'.bind["iq"] # "absent",
               "iq" \in First'.jid => srv.bound,
               shown' \in {0, 1}, shown' = 1 => srv.bound /\ First'.bind["iq"] = "BIND_OK"
        PROVE  IInv'
    <2>1. ~Plain' /\ srv'.authed
      BY <1>1, <1>6, <1>8, PlainSame
    <2>2. \E y \in States : /\ Trail(SessionMoves(srv'.bound), r, wire', y)
                            /\ conn' = "up" => y = "ready"
      BY <1>4, <1>5, <1>8
    <2>3. Session(r)'
      BY <1>8, <2>1, <2>2 DEF Session, Wanted
    <2>4. Phase'
      BY <2>3 DEF Phase
    <2> QED
      BY <1>1, <1>2, <1>8, <2>4, InvKept
  <1>9. ASSUME conn' = conn, tls' = tls, srv' = srv, path' = At[r], out' = out, shown' = shown,
               Tree', First'.msgslot = "none", First'.bind = First.bind,
               First'.jid = First.jid, r # "iqbind"
        PROVE  IInv'
    BY <1>6, <1>7, <1>8, <1>9
  <1> HIDE DEF op, name, M
  <1>10. CASE q = "bus" /\ op = "open" /\ name = "stream" /\ r = "stream"
    <2>1. OpenStream
      BY <1>10, BusStepKinds DEF op, name
    <2>2. path' = At[r] /\ r # "iqbind"
      BY <1>2, <1>6, <1>10, <2>1, CursorMoves, TreeUntouched
    <2> QED
      BY <1>2, <1>6, <1>9, <2>1, <2>2, TreeUntouched
  <1>11. CASE q = "stream" /\ op = "open" /\ name = "features" /\ r = "features"
    <2>1. OpenChild("features") /\ "features" \in Children
      BY <1>11, BusStepKinds DEF op, name, Children
    <2>2. path' = At[r] /\ r # "iqbind"
      BY <1>2, <1>6, <1>11, <2>1, CursorMoves, ChildOpened
    <2> QED
      BY <1>2, <1>6, <1>9, <2>1, <2>2, ChildOpened
  <1>12. CASE q = "features" /\ op = "open" /\ name = "bind" /\ r = "bind"
    <2>1. OpenBind
      BY <1>12, BusStepKinds DEF op, name
    <2>2. path[2] = "features"
      BY <1>6, <1>12, CursorMoves
    <2>3. /\ conn' = conn /\ tls' = tls /\ srv' = srv /\ shown' = shown
          /\ path' = Append(path, "bind") /\ streams' = streams /\ out' = out
      BY <1>6, <2>1, <2>2 DEF OpenBind, Reads, Within
    <2>4. path' = At[r] /\ r # "iqbind"
      BY <1>6, <1>12, <2>3, CursorMoves
    <2>5. Tree' /\ First' = First
      BY <1>2, <2>3, TreeSame
    <2> QED
      BY <1>6, <1>9, <2>3, <2>4, <2>5
  <1>13. CASE q = "bind" /\ op = "close" /\ name = "bind" /\ r = "features"
    <2>1. CloseBind
      BY <1>13, BusStepKinds DEF op, name
    <2>2. path[2] = "features"
      BY <1>6, <1>13, CursorMoves
    <2>3. "features" \notin First.jid
      BY <1>3 DEF Sound
    <2>4. /\ conn' = conn /\ tls' = tls /\ srv' = srv /\ shown' = shown
          /\ path' = Front(path) /\ streams' = streams /\ out' = out
      BY <2>1, <2>2, <2>3 DEF CloseBind, Reads, Leaves
    <2>5. path' = At[r] /\ r # "iqbind"
      BY <1>6, <1>13, <2>4, CursorMoves
    <2>6. Tree' /\ First' = First
      BY <1>2, <2>4, TreeSame
    <2> QED
      BY <1>6, <1>9, <2>4, <2>5, <2>6
  <1>14. CASE q = "features" /\ op = "close" /\ name = "features" /\ r = "ready"
    <2>1. CloseFeatures
      BY <1>14, BusStepKinds DEF op, name
    <2>2. path' = At[r] /\ r # "iqbind"
      BY <1>2, <1>6, <1>14, <2>1, CursorMoves, FeaturesClosed
    <2> QED
      BY <1>2, <1>6, <1>9, <2>1, <2>2, FeaturesClosed
  <1>15. CASE q = "ready" /\ op = "open" /\ name = "iq" /\ r = "iq"
    <2>1. OpenChild("iq") /\ "iq" \in Children
      BY <1>15, BusStepKinds DEF op, name, Children
    <2>2. path' = At[r] /\ r # "iqbind"
      BY <1>2, <1>6, <1>15, <2>1, CursorMoves, ChildOpened
    <2> QED
      BY <1>2, <1>6, <1>9, <2>1, <2>2, ChildOpened
  <1>16. CASE q = "iq" /\ op = "open" /\ name = "bind" /\ r = "iqbind"
    <2>1. OpenBind
      BY <1>16, BusStepKinds DEF op, name
    <2>2. path[2] = "iq"
      BY <1>6, <1>16, CursorMoves
    <2> DEFINE s == [First EXCEPT !.bind["iq"] = "BIND_SENT"]
    <2>3. /\ conn' = conn /\ tls' = tls /\ srv' = srv /\ shown' = shown
          /\ path' = Append(path, "bind")
          /\ IF First.bind["iq"] = "absent"
             THEN streams' = WithFirst(s) /\ out' = Written(<<"bind">>)
             ELSE streams' = streams /\ out' = out
      BY <2>1, <2>2 DEF OpenBind, Reads, Within
    <2>4. path' = At[r]
      BY <1>6, <1>16, <2>3, CursorMoves
    <2>5. CASE First.bind["iq"] # "absent"
      <3>1. Tree' /\ First' = First
        BY <1>2, <2>3, <2>5, TreeSame
      <3> QED
        BY <1>6, <1>7, <1>8, <2>3, <2>4, <2>5, <3>1
    <2>6. CASE First.bind["iq"] = "absent"
      <3>1. /\ s \in Streams /\ s.rc > 0 /\ Sound(s) /\ s.msgslot = "none" /\ s.jid = First.jid
            /\ s.bind["iq"] = "BIND_SENT" /\ s.bind["features"] = First.bind["features"]
        BY <1>3, <1>6, BindChanged
      <3> HIDE DEF s
      <3>2. Tree' /\ First' = s
        BY <1>2, <2>3, <2>6, <3>1, TreeEdited
      <3>3. out' \in Seq(Wanted) /\ (conn # "up" => out' = <<>>)
        <4>1. <<"bind">> \in Seq(Wanted)
          BY DEF Wanted
        <4>2. out \o <<"bind">> \in Seq(Wanted)
          BY <1>7, <4>1, ConcatProperties
        <4> QED
          BY <1>7, <2>3, <2>6, <4>2 DEF Written
      <3>4. shown' = 0
        BY <1>6, <2>3, <2>6
      <3> QED
        BY <1>6, <1>8, <2>3, <2>4, <3>1, <3>2, <3>3, <3>4
    <2> QED
      BY <2>5, <2>6
  <1>17. CASE q = "iqbind" /\ op = "close" /\ name = "bind" /\ r = "iq"
    <2>1. CloseBind
      BY <1>17, BusStepKinds DEF op, name
    <2>2. path[2] = "iq"
      BY <1>6, <1>17, CursorMoves
    <2> DEFINE s == [Announced(First) EXCEPT !.bind["iq"] = "BIND_OK"]
               go == First.bind["iq"] = "BIND_SENT" /\ "iq" \in First.jid
    <2>3. /\ conn' = conn /\ tls' = tls /\ srv' = srv
          /\ path' = Front(path)
          /\ IF go
             THEN streams' = WithFirst(s) /\ out' = Written(<<"session", "presence">>)
                  /\ shown' = shown + 1
             ELSE streams' = streams /\ out' = out /\ shown' = shown
      BY <2>1, <2>2 DEF CloseBind, Reads, Leaves
    <2>4. path' = At[r] /\ r # "iqbind"
      BY <1>6, <1>17, <2>3, CursorMoves
    <2>5. CASE ~go
      <3>1. Tree' /\ First' = First
        BY <1>2, <2>3, <2>5, TreeSame
      <3> QED
        BY <1>6, <1>9, <2>3, <2>4, <2>5, <3>1
    <2>6. CASE go
      <3> DEFINE a == Announced(First)
      <3>1. /\ a \in Streams /\ a.rc > 0 /\ Sound(a) /\ a.msgslot = "none" /\ a.jid = First.jid
            /\ a.bind = First.bind
        BY <1>3, <1>6, ChildAppended DEF Announced
      <3> HIDE DEF a
      <3>2. /\ s \in Streams /\ s.rc > 0 /\ Sound(s) /\ s.msgslot = "none" /\ s.jid = First.jid
            /\ s.bind["iq"] = "BIND_OK" /\ s.bind["features"] = First.bind["features"]
        <4>1. s = [a EXCEPT !.bind["iq"] = "BIND_OK"]
          BY DEF a
        <4> HIDE DEF s
        <4> QED
          BY <1>6, <3>1, <4>1, BindChanged
      <3> HIDE DEF s
      <3>3. Tree' /\ First' = s
        BY <1>2, <2>3, <2>6, <3>2, TreeEdited
      <3>4. out' \in Seq(Wanted) /\ (conn # "up" => out' = <<>>)
        <4>1. <<"session", "presence">> \in Seq(Wanted)
          BY DEF Wanted
        <4>2. out \o <<"session", "presence">> \in Seq(Wanted)
          BY <1>7, <4>1, ConcatProperties
        <4> QED
          BY <1>7, <2>3, <2>6, <4>2 DEF Written
      <3>5. shown = 0 /\ srv.bound
        BY <1>6, <2>6
      <3>6. shown' = 1
        BY <2>3, <2>6, <3>5
      <3> QED
        BY <1>6, <1>8, <2>3, <2>4, <3>2, <3>3, <3>4, <3>5, <3>6
    <2> QED
      BY <2>5, <2>6
  <1>18. CASE q = "iq" /\ op = "close" /\ name = "iq" /\ r = "ready"
    <2>1. CloseOther("iq")
      BY <1>18, BusStepKinds DEF op, name
    <2>2. path' = At[r] /\ r # "iqbind"
      BY <1>2, <1>6, <1>18, <2>1, CursorMoves, TreeUntouched
    <2> QED
      BY <1>2, <1>6, <1>9, <2>1, <2>2, TreeUntouched
  <1>19. CASE q = "iqbind" /\ op = "leaf" /\ name = "jid" /\ r = "iqbind" /\ srv.bound
    <2>1. Leaf("jid")
      BY <1>19, BusStepKinds DEF op, name
    <2>2. path[2] = "iq"
      BY <1>6, <1>19, CursorMoves
    <2> DEFINE s == [First EXCEPT !.jid = @ \cup {"iq"}]
    <2>3. /\ conn' = conn /\ tls' = tls /\ srv' = srv /\ shown' = shown
          /\ path' = path /\ out' = out /\ streams' = WithFirst(s)
      BY <2>1, <2>2 DEF Leaf, Reads
    <2>4. path' = At[r]
      BY <1>6, <1>19, <2>3
    <2>5. s \in Streams /\ s.rc > 0 /\ Sound(s) /\ s.msgslot = "none" /\ s.bind = First.bind
      BY <1>3, <1>6, <1>19, JidRead
    <2> HIDE DEF s
    <2>6. Tree' /\ First' = s
      BY <1>2, <2>3, <2>5, TreeEdited
    <2> QED
      BY <1>6, <1>7, <1>8, <1>19, <2>3, <2>4, <2>5, <2>6
  <1>20. \/ <<q, op, name, r>> \in BindMoves
         \/ q = "ready" /\ op = "open" /\ name = "iq" /\ r = "iq"
         \/ q = "iq" /\ op = "open" /\ name = "bind" /\ r = "iqbind"
         \/ q = "iqbind" /\ op = "close" /\ name = "bind" /\ r = "iq"
         \/ q = "iq" /\ op = "close" /\ name = "iq" /\ r = "ready"
         \/ q = "iqbind" /\ op = "leaf" /\ name = "jid" /\ r = "iqbind" /\ srv.bound
    BY <1>3, <1>5, SessionMove DEF M
  <1>21. CASE <<q, op, name, r>> \in BindMoves
    BY <1>10, <1>11, <1>12, <1>13, <1>14, <1>21, BindMove
  <1> QED
    BY <1>15, <1>16, <1>17, <1>18, <1>19, <1>20, <1>21

\* Every step of the bus keeps the invariant.
LEMMA BusStepInv ==
    ASSUME IInv, BusStep
    PROVE  IInv'
  <1>1. wire # <<>>
    BY BusStepKinds
  <1>2. \/ \E q \in States : Offered(q)
        \/ \E a \in Answers, q \in States : Answered(a, q)
        \/ \E q \in States : Binding(q)
        \/ \E q \in States : Session(q)
    BY <1>1 DEF IInv, Phase, Calling, Asking
  <1> QED
    BY <1>2, OfferedStep, AnsweredStep, BindingStep, SessionStep

-----------------------------------------------------------------------------
(* Connecting, losing the connection, and the answers of the server. *)

\* Requests are on their way on a connection that is up only, and which ones
\* tells the phase.
LEMMA Requesting ==
    ASSUME IInv
    PROVE  /\ conn # "up" => out = <<>>
           /\ out # <<>> /\ Head(out) = "header" => Calling
           /\ out # <<>> /\ Head(out) \in {"starttls", "auth"} => Asking /\ out = <<Head(out)>>
           /\ out # <<>> /\ Head(out) \in Wanted => \E q \in States : Session(q)
  <1>1. CASE Calling
    <2>1. out = <<"header">> /\ conn = "up" /\ Head(out) = "header"
      BY <1>1 DEF Calling
    <2> QED
      BY <1>1, <2>1 DEF Wanted
  <1>2. CASE Asking
    <2>1. conn = "up" /\ (out = <<"starttls">> \/ out = <<"auth">>)
      BY <1>2 DEF Asking
    <2>2. Head(out) \in {"starttls", "auth"} /\ out = <<Head(out)>>
      BY <2>1
    <2> QED
      BY <1>2, <2>1, <2>2 DEF Wanted
  <1>3. CASE \E q \in States : Offered(q)
    BY <1>3 DEF Offered, Silent
  <1>4. CASE \E a \in Answers, q \in States : Answered(a, q)
    BY <1>4 DEF Answered, Silent
  <1>5. CASE \E q \in States : Binding(q)
    BY <1>5 DEF Binding, Silent
  <1>6. CASE \E q \in States : Session(q)
    <2>1. out \in Seq(Wanted) /\ (conn # "up" => out = <<>>)
      BY <1>6 DEF Session, Wanted
    <2>2. out # <<>> => Head(out) \in Wanted
      BY <2>1, HeadTailProperties
    <2>3. out # <<>> => Head(out) \notin {"header", "starttls", "auth"}
      BY <2>2 DEF Wanted
    <2> QED
      BY <1>6, <2>1, <2>3
  <1> QED
    BY <1>1, <1>2, <1>3, <1>4, <1>5, <1>6 DEF IInv, Phase

\* The first state.
LEMMA InitInv == Init => IInv
  <1> SUFFICES ASSUME Init PROVE IInv
    OBVIOUS
  <1>1. PICK o \in Offers, ms \in Mechanisms : srv = NewServer(o, ms)
    BY DEF Init
  <1>2. Server /\ ~srv.authed
    BY <1>1, ServerAssumption DEF Server, NewServer, Init
  <1>3. Tree
    BY DEF Tree, Init
  <1>4. "bus" \in States /\ path = At["bus"] /\ Silent /\ ~Plain
    BY CursorMoves DEF States, Init, Silent, Plain
  <1>5. Trail(OfferMoves(Plain), "bus", wire, "bus")
    BY <1>4, TrailEmpty DEF Init
  <1>6. Offered("bus")
    BY <1>2, <1>4, <1>5 DEF Offered
  <1>7. Phase
    BY <1>4, <1>6 DEF Phase
  <1>8. restarts \in 0 .. MaxRestarts
    BY ServerAssumption DEF Init
  <1> QED
    BY <1>2, <1>3, <1>7, <1>8 DEF IInv, Init

\* A connection is made.
LEMMA HotstartInv ==
    ASSUME IInv, Hotstart
    PROVE  IInv'
  <1>1. /\ conn' = "up" /\ tls' = FALSE /\ shown' = 0 /\ wire' = <<>>
        /\ streams' = Append(PutFirst(streams), NewStream) /\ path' = <<>>
        /\ out' = Append(out, "header")
        /\ conn # "up"
    BY DEF Hotstart, ResetStream, Published
  <1>2. PICK o \in Offers, ms \in Mechanisms : srv' = NewServer(o, ms)
    BY DEF Hotstart
  <1>3. Server' /\ srv'.authed = FALSE
    BY <1>1, <1>2, ServerAssumption DEF Server, NewServer
  <1>4. out' = <<"header">>
    BY <1>1, Requesting
  <1>5. Tree' /\ (conn = "off" => First' = NewStream)
    BY <1>1, TreeReset DEF IInv
  <1>6. restarts' \in 0 .. MaxRestarts /\ (conn # "off" => restarts' # 0)
    BY ServerAssumption DEF Hotstart, IInv
  <1>7. Plain' => First'.listed = {} /\ First'.msgslot = "none"
    BY <1>5, <1>6, NewStreamFacts DEF Plain, AsksForTls
  <1>8. Phase'
    BY <1>1, <1>3, <1>4, <1>5, <1>7, NewStreamPhase
  <1> QED
    BY <1>1, <1>3, <1>5, <1>6, <1>8 DEF IInv

\* Fewer moves are allowed to a server that asks for TLS first.
LEMMA OfferMore ==
    ASSUME NEW p \in BOOLEAN
    PROVE  OfferMoves(p) \subseteq OfferMoves(FALSE)
  BY DEF OfferMoves

\* The connection is gone, with the objects as they were, and a part of what
\* was on the wire is left.
LEMMA LostInv ==
    ASSUME IInv, conn = "up", conn' = "lost", out' = <<>>,
           NEW k \in 0 .. Len(wire), wire' = SubSeq(wire, 1, k),
           tls' = tls, streams' = streams, path' = path, shown' = shown,
           srv' = srv, restarts' = restarts
    PROVE  IInv'
  <1>1. Tree' /\ First' = First
    BY TreeSame DEF IInv
  <1>2. ~Plain'
    BY DEF Plain
  <1>3. Server' /\ srv.authed \in BOOLEAN
    BY DEF IInv, Server
  <1>4. ASSUME wire = <<>> PROVE wire' = <<>>
    <2>1. k = 0
      BY <1>4
    <2> QED
      BY <1>4, <2>1
  <1>5. Plain \in BOOLEAN
    BY DEF Plain
  <1>6. ASSUME Calling PROVE Phase'
    BY <1>1, <1>2, <1>3, <1>4, <1>6, NewStreamPhase DEF Calling
  <1>7. ASSUME Asking PROVE Phase'
    <2>1. "offered" \in States /\ path' = At["offered"]
      BY <1>7, CursorMoves DEF Asking, States
    <2>2. Trail(OfferMoves(Plain'), "offered", wire', "offered")
      BY <1>4, <1>7, <2>1, TrailEmpty DEF Asking
    <2>3. Silent' /\ ~srv'.authed
      BY <1>7 DEF Asking, Silent
    <2>4. Offered("offered")'
      BY <1>2, <2>1, <2>2, <2>3 DEF Offered
    <2> QED
      BY <2>1, <2>4 DEF Phase
  <1>8. ASSUME NEW q \in States, Offered(q) PROVE Phase'
    <2>1. PICK z \in States : Trail(OfferMoves(Plain), q, wire, z)
      BY <1>8 DEF Offered
    <2>2. PICK y \in States : Trail(OfferMoves(Plain), q, wire', y)
      BY <2>1, TrailPrefix
    <2>3. Trail(OfferMoves(FALSE), q, wire', y)
      BY <1>5, <2>2, OfferMore, TrailMore
    <2>4. Plain' = FALSE
      BY <1>2 DEF Plain
    <2>5. Trail(OfferMoves(Plain'), q, wire', y)
      BY <2>3, <2>4
    <2>6. Silent' /\ ~srv'.authed /\ path' = At[q]
      BY <1>8 DEF Offered, Silent
    <2>7. Offered(q)'
      BY <1>2, <2>5, <2>6 DEF Offered
    <2> QED
      BY <2>7 DEF Phase
  <1>9. ASSUME NEW a \in Answers, NEW q \in States, Answered(a, q) PROVE Phase'
    <2>1. PICK z \in States : Trail(AnswerMoves(a), q, wire, z)
      BY <1>9 DEF Answered
    <2>2. PICK y \in States : Trail(AnswerMoves(a), q, wire', y)
      BY <2>1, TrailPrefix
    <2>3. Answered(a, q)'
      BY <1>1, <1>2, <1>9, <2>2 DEF Answered, Silent
    <2> QED
      BY <2>3 DEF Phase
  <1>10. ASSUME NEW q \in States, Binding(q) PROVE Phase'
    <2>1. PICK z \in States : Trail(BindMoves, q, wire, z)
      BY <1>10 DEF Binding
    <2>2. PICK y \in States : Trail(BindMoves, q, wire', y)
      BY <2>1, TrailPrefix
    <2>3. Binding(q)'
      BY <1>1, <1>2, <1>10, <2>2 DEF Binding, Silent
    <2> QED
      BY <2>3 DEF Phase
  <1>11. ASSUME NEW q \in States, Session(q) PROVE Phase'
    <2>1. PICK z \in States : Trail(SessionMoves(srv.bound), q, wire, z)
      BY <1>11 DEF Session
    <2>2. PICK y \in States : Trail(SessionMoves(srv.bound), q, wire', y)
      BY <2>1, TrailPrefix
    <2>3. out' \in Seq({"bind", "session", "presence"})
      OBVIOUS
    <2>4. Session(q)'
      BY <1>1, <1>2, <1>11, <2>2, <2>3 DEF Session
    <2> QED
      BY <2>4 DEF Phase
  <1>12. Phase'
    BY <1>6, <1>7, <1>8, <1>9, <1>10, <1>11 DEF IInv, Phase
  <1> QED
    BY <1>1, <1>3, <1>12 DEF IInv

\* The connection breaks.
LEMMA LoseInv ==
    ASSUME IInv, Lose
    PROVE  IInv'
  <1>1. PICK k \in 0 .. Len(wire) : wire' = SubSeq(wire, 1, k)
    BY DEF Lose
  <1>2. /\ conn = "up" /\ conn' = "lost" /\ out' = <<>>
        /\ tls' = tls /\ streams' = streams /\ path' = path /\ shown' = shown
        /\ srv' = srv /\ restarts' = restarts
    BY DEF Lose, bus
  <1> QED
    BY <1>1, <1>2, LostInv

\* What the server sends is behind the wire, and the objects are left alone.
LEMMA ServerSends ==
    ASSUME IInv, NEW m, SrvReads(m), NEW es, SrvSends(es)
    PROVE  /\ conn = "up" /\ conn' = conn /\ tls' = tls /\ path' = path /\ shown' = shown
           /\ restarts' = restarts /\ wire' = wire \o es /\ out' = Tail(out)
           /\ out # <<>> /\ Head(out) = m
           /\ Tree' /\ First' = First
  <1>1. /\ conn = "up" /\ conn' = conn /\ tls' = tls /\ path' = path /\ shown' = shown
        /\ restarts' = restarts /\ wire' = wire \o es /\ out' = Tail(out)
        /\ out # <<>> /\ Head(out) = m /\ streams' = streams
    BY DEF SrvReads, SrvSends, bus
  <1>2. Tree' /\ First' = First
    BY <1>1, TreeSame DEF IInv
  <1> QED
    BY <1>1, <1>2

\* A server that learns something keeps its offer.
LEMMA PlainOf ==
    ASSUME conn' = conn, tls' = tls, srv'.offer = srv.offer, restarts' = restarts
    PROVE  Plain' <=> Plain
  BY DEF Plain, AsksForTls

\* The events are all there is on a wire that was empty.
LEMMA OnEmptyWire ==
    ASSUME NEW M, NEW q, NEW z, NEW w, Trail(M, q, w, z)
    PROVE  <<>> \o w = w
  <1>1. w \in Seq(Events)
    BY DEF Trail
  <1> QED
    BY <1>1

\* The header is answered, or taken for an error.
LEMMA SrvHeaderInv ==
    ASSUME IInv, SrvHeader
    PROVE  IInv'
  <1>1. SrvReads("header")
    BY DEF SrvHeader
  <1>2. out # <<>> /\ Head(out) = "header" /\ conn = "up"
    BY <1>1 DEF SrvReads
  <1>3. Calling
    BY <1>2, Requesting
  <1>4. /\ out = <<"header">> /\ wire = <<>> /\ path = <<>> /\ shown = 0
        /\ srv.authed => ~Plain /\ First.msgslot = "none"
        /\ Plain => First.listed = {} /\ First.msgslot = "none"
    BY <1>3 DEF Calling
  <1>5. Server
    BY DEF IInv
  <1>6. srv.mechs \in Mechanisms /\ srv.offer \in Offers /\ srv.authed \in BOOLEAN
    BY <1>5 DEF Server
  <1>7. CASE SrvSends(Greeting) /\ srv' = [srv EXCEPT !.open = TRUE]
    <2>1. /\ conn' = conn /\ tls' = tls /\ path' = path /\ shown' = shown
          /\ restarts' = restarts /\ wire' = wire \o Greeting /\ out' = Tail(out)
          /\ Tree' /\ First' = First
      BY <1>1, <1>7, ServerSends
    <2>2. Silent'
      BY <1>4, <2>1 DEF Silent
    <2>3. srv'.authed = srv.authed /\ srv'.offer = srv.offer
      BY <1>5, <1>7 DEF Server
    <2>4. Server'
      BY <1>5, <1>7, <2>1 DEF Server
    <2>5. Plain' <=> Plain
      BY <2>1, <2>3, PlainOf
    <2>6. "bus" \in States /\ path' = At["bus"] /\ "ready" \in States /\ "offered" \in States
      BY <1>4, <2>1, CursorMoves DEF States
    <2>7. CASE srv.authed
      <3>1. Trail(BindMoves, "bus", Greeting, "ready")
        BY <2>7, TrailBind
      <3>2. Trail(BindMoves, "bus", wire', "ready")
        BY <1>4, <2>1, <3>1, OnEmptyWire
      <3>3. Binding("bus")'
        BY <1>4, <2>1, <2>2, <2>3, <2>5, <2>6, <2>7, <3>2 DEF Binding
      <3>4. Phase'
        BY <2>6, <3>3 DEF Phase
      <3> QED
        BY <1>2, <2>1, <2>4, <3>4 DEF IInv
    <2>8. CASE ~srv.authed
      <3>1. Plain' \in BOOLEAN /\ (Plain' => ~srv.tls /\ Head(srv.offer) = "starttls")
        <4>1. Plain' \in BOOLEAN
          BY DEF Plain
        <4>2. Plain' => ~srv.tls /\ Head(srv.offer) = "starttls"
          BY <1>2, <1>5, <2>5 DEF Plain, AsksForTls, Server
        <4> QED
          BY <4>1, <4>2
      <3>2. Trail(OfferMoves(Plain'), "bus", Greeting, "offered")
        BY <1>6, <2>8, <3>1, TrailOffer
      <3>3. Trail(OfferMoves(Plain'), "bus", wire', "offered")
        BY <1>4, <2>1, <3>2, OnEmptyWire
      <3>4. Plain' => First'.listed = {} /\ First'.msgslot = "none"
        BY <1>4, <2>1, <2>5
      <3>5. Offered("bus")'
        BY <2>2, <2>3, <2>6, <2>8, <3>3, <3>4 DEF Offered
      <3>6. Phase'
        BY <2>6, <3>5 DEF Phase
      <3> QED
        BY <1>2, <2>1, <2>4, <3>6 DEF IInv
    <2> QED
      BY <2>7, <2>8
  <1>8. CASE conn' = "lost" /\ out' = <<>> /\ UNCHANGED <<bus, wire, srv, restarts>>
    <2>1. /\ tls' = tls /\ streams' = streams /\ path' = path /\ shown' = shown
          /\ wire' = wire /\ srv' = srv /\ restarts' = restarts
      BY <1>8 DEF bus
    <2>2. 0 \in 0 .. Len(wire) /\ wire' = SubSeq(wire, 1, 0)
      BY <1>4, <2>1
    <2> QED
      BY <1>2, <1>8, <2>1, <2>2, LostInv
  <1> QED
    BY <1>7, <1>8 DEF SrvHeader, Greeting

\* An answer to the message that features_tx kept.
LEMMA AnswerSent ==
    ASSUME IInv, Asking, conn' = conn, tls' = tls, path' = path, shown' = shown,
           restarts' = restarts, out' = <<>>, Tree', First' = First,
           NEW a \in Answers, NEW es, wire' = wire \o es, NEW z \in States,
           Trail(AnswerMoves(a), "offered", es, z),
           srv'.authed = (a = "success"), srv'.offer = srv.offer, Server',
           a \in {"success", "failure"} => ~Plain
    PROVE  IInv'
  <1>1. wire = <<>> /\ path = <<"stream">> /\ shown = 0 /\ First.msgslot = "none" /\ conn = "up"
    BY DEF Asking
  <1>2. Trail(AnswerMoves(a), "offered", wire', z)
    BY <1>1, OnEmptyWire
  <1>3. "offered" \in States /\ path' = At["offered"] /\ Silent'
    BY <1>1, CursorMoves DEF States, Silent
  <1>4. Plain' <=> Plain
    BY PlainOf
  <1>5. Answered(a, "offered")'
    BY <1>1, <1>2, <1>3, <1>4 DEF Answered
  <1>6. Phase'
    BY <1>3, <1>5 DEF Phase
  <1> QED
    BY <1>1, <1>6 DEF IInv

\* The answer to starttls.
LEMMA SrvStarttlsInv ==
    ASSUME IInv, SrvStarttls
    PROVE  IInv'
  <1>1. SrvReads("starttls") /\ srv' = srv
    BY DEF SrvStarttls
  <1>2. out # <<>> /\ Head(out) = "starttls"
    BY <1>1 DEF SrvReads
  <1>3. Asking /\ out = <<"starttls">>
    BY <1>2, Requesting
  <1>4. Tail(out) = <<>>
    BY <1>3
  <1>5. ~srv.authed
    BY <1>3 DEF Asking
  <1>6. /\ "proceed" \in Answers /\ "refused" \in Answers /\ "bus" \in States
        /\ "offered" \in States
    BY DEF Answers, States
  <1>7. ASSUME conn' = conn, tls' = tls PROVE Server'
    BY <1>1, <1>7 DEF IInv, Server
  <1>8. CASE SrvSends(Element("proceed", <<>>))
    <2>1. /\ conn' = conn /\ tls' = tls /\ path' = path /\ shown' = shown
          /\ restarts' = restarts /\ wire' = wire \o Element("proceed", <<>>) /\ out' = Tail(out)
          /\ Tree' /\ First' = First
      BY <1>1, <1>8, ServerSends
    <2>2. srv'.authed = ("proceed" = "success") /\ srv'.offer = srv.offer
      BY <1>1, <1>5 DEF IInv, Server
    <2> QED
      BY <1>3, <1>4, <1>6, <1>7, <2>1, <2>2, AnswerSent, TrailAnswers
  <1>9. CASE SrvSends(Element("tls-failure", <<>>))
    <2>1. /\ conn' = conn /\ tls' = tls /\ path' = path /\ shown' = shown
          /\ restarts' = restarts /\ wire' = wire \o Element("tls-failure", <<>>)
          /\ out' = Tail(out) /\ Tree' /\ First' = First
      BY <1>1, <1>9, ServerSends
    <2>2. srv'.authed = ("refused" = "success") /\ srv'.offer = srv.offer
      BY <1>1, <1>5 DEF IInv, Server
    <2> QED
      BY <1>3, <1>4, <1>6, <1>7, <2>1, <2>2, AnswerSent, TrailAnswers
  <1> QED
    BY <1>8, <1>9 DEF SrvStarttls

\* The answer to auth.
LEMMA SrvAuthInv ==
    ASSUME IInv, SrvAuth
    PROVE  IInv'
  <1>1. SrvReads("auth")
    BY DEF SrvAuth
  <1>2. out # <<>> /\ Head(out) = "auth"
    BY <1>1 DEF SrvReads
  <1>3. Asking /\ out = <<"auth">>
    BY <1>2, Requesting
  <1>4. Tail(out) = <<>> /\ out[1] = "auth"
    BY <1>3
  <1>5. ~srv.authed /\ ~Plain
    <2>1. <<"auth">> # <<"starttls">>
      OBVIOUS
    <2> QED
      BY <1>3, <2>1 DEF Asking
  <1>6. "success" \in Answers /\ "failure" \in Answers /\ "bus" \in States
    BY DEF Answers, States
  <1>7. CASE /\ SrvSends(Element("success", <<>>))
             /\ srv' = [srv EXCEPT !.authed = TRUE, !.open = FALSE]
    <2>1. /\ conn' = conn /\ tls' = tls /\ path' = path /\ shown' = shown
          /\ restarts' = restarts /\ wire' = wire \o Element("success", <<>>) /\ out' = Tail(out)
          /\ Tree' /\ First' = First
      BY <1>1, <1>7, ServerSends
    <2>2. srv'.authed = TRUE /\ srv'.offer = srv.offer
      BY <1>7 DEF IInv, Server
    <2>3. Server'
      BY <1>7, <2>1 DEF IInv, Server
    <2> QED
      BY <1>3, <1>4, <1>5, <1>6, <2>1, <2>2, <2>3, AnswerSent, TrailAnswers
  <1>8. CASE /\ srv.rejects < MaxRejects
             /\ SrvSends(Element("failure", <<>>))
             /\ srv' = [srv EXCEPT !.rejects = @ + 1]
    <2>1. /\ conn' = conn /\ tls' = tls /\ path' = path /\ shown' = shown
          /\ restarts' = restarts /\ wire' = wire \o Element("failure", <<>>) /\ out' = Tail(out)
          /\ Tree' /\ First' = First
      BY <1>1, <1>8, ServerSends
    <2>2. srv'.authed = srv.authed /\ srv'.offer = srv.offer
      BY <1>8 DEF IInv, Server
    <2>3. Server'
      <3>1. srv.rejects + 1 \in 0 .. MaxRejects
        BY <1>8, ServerAssumption DEF IInv, Server
      <3> QED
        BY <1>8, <2>1, <3>1 DEF IInv, Server
    <2>4. srv'.authed = ("failure" = "success")
      BY <1>5, <2>2 DEF IInv, Server
    <2> QED
      BY <1>3, <1>4, <1>5, <1>6, <2>1, <2>2, <2>3, <2>4, AnswerSent, TrailAnswers
  <1> QED
    BY <1>7, <1>8 DEF SrvAuth

\* An answer in a session.
LEMMA SessionAnswer ==
    ASSUME IInv, NEW m \in Wanted, SrvReads(m), NEW es, SrvSends(es),
           srv'.authed = srv.authed, srv'.offer = srv.offer, Server',
           srv.bound => srv'.bound,
           Trail(SessionMoves(srv'.bound), "ready", es, "ready")
    PROVE  IInv'
  <1>1. /\ conn = "up" /\ conn' = conn /\ tls' = tls /\ path' = path /\ shown' = shown
        /\ restarts' = restarts /\ wire' = wire \o es /\ out' = Tail(out)
        /\ out # <<>> /\ Head(out) = m /\ Tree' /\ First' = First
    BY ServerSends
  <1>2. PICK q \in States : Session(q)
    BY <1>1, Requesting
  <1>3. PICK z \in States : Trail(SessionMoves(srv.bound), q, wire, z) /\ z = "ready"
    BY <1>1, <1>2 DEF Session
  <1>4. srv.bound \in BOOLEAN /\ srv'.bound \in BOOLEAN
    BY DEF IInv, Server
  <1>5. SessionMoves(srv.bound) \subseteq SessionMoves(srv'.bound)
    <2>1. CASE srv.bound
      BY <1>4, <2>1 DEF SessionMoves
    <2>2. CASE ~srv.bound
      BY <1>4, <2>2 DEF SessionMoves
    <2> QED
      BY <2>1, <2>2
  <1>6. Trail(SessionMoves(srv'.bound), q, wire, "ready")
    BY <1>3, <1>5, TrailMore
  <1>7. Trail(SessionMoves(srv'.bound), q, wire', "ready")
    BY <1>1, <1>6, TrailConcat
  <1>8. out' \in Seq({"bind", "session", "presence"})
    BY <1>1, <1>2, HeadTailProperties DEF Session
  <1>9. ~Plain'
    BY <1>1, <1>2, PlainOf DEF Session
  <1>10. "ready" \in States
    BY DEF States
  <1>11. Session(q)'
    BY <1>1, <1>2, <1>7, <1>8, <1>9, <1>10 DEF Session
  <1>12. Phase'
    BY <1>11 DEF Phase
  <1> QED
    BY <1>1, <1>12 DEF IInv

\* The answers to bind, session and presence.
LEMMA SessionAnswers ==
    ASSUME IInv, SrvBind \/ SrvSession \/ SrvPresence
    PROVE  IInv'
  <1>0. Server /\ srv.bound \in BOOLEAN /\ "ready" \in States
    BY DEF IInv, Server, States
  <1>1. ASSUME NEW m, NEW es, SrvReads(m), SrvSends(es) PROVE conn' = conn /\ tls' = tls
    BY <1>1, ServerSends
  <1>2. "bind" \in Wanted /\ "session" \in Wanted /\ "presence" \in Wanted
    BY DEF Wanted
  <1> DEFINE grant == Element("iq", Element("bind", Texts({"jid"})))
             refuse == Element("iq", Element("bind", <<>>))
             ack == Element("iq", <<>>)
  <1>3. /\ Trail(SessionMoves(TRUE), "ready", grant, "ready")
        /\ Trail(SessionMoves(srv.bound), "ready", refuse, "ready")
        /\ Trail(SessionMoves(srv.bound), "ready", ack, "ready")
        /\ Trail(SessionMoves(srv.bound), "ready", <<>>, "ready")
    BY <1>0, TrailSession, TrailEmpty
  <1> HIDE DEF grant, refuse, ack
  <1>4. CASE SrvReads("bind") /\ SrvSends(grant) /\ srv' = [srv EXCEPT !.bound = TRUE]
    <2>1. conn' = conn /\ tls' = tls
      BY <1>1, <1>4
    <2>2. srv.authed
      BY <1>2, <1>4, Requesting DEF SrvReads, Session
    <2>3. srv'.bound = TRUE /\ srv'.authed = srv.authed /\ srv'.offer = srv.offer
      BY <1>0, <1>4 DEF Server
    <2>4. Server'
      BY <1>0, <1>4, <2>1, <2>2 DEF Server
    <2> QED
      BY <1>2, <1>3, <1>4, <2>3, <2>4, SessionAnswer
  <1>5. CASE SrvReads("bind") /\ SrvSends(refuse) /\ srv' = [srv EXCEPT !.refusals = @ + 1]
    <2>1. conn' = conn /\ tls' = tls
      BY <1>1, <1>5
    <2>2. srv'.bound = srv.bound /\ srv'.authed = srv.authed /\ srv'.offer = srv.offer
      BY <1>0, <1>5 DEF Server
    <2>3. Server'
      BY <1>0, <1>5, <2>1 DEF Server
    <2> QED
      BY <1>2, <1>3, <1>5, <2>2, <2>3, SessionAnswer
  <1>6. CASE SrvReads("session") /\ SrvSends(ack) /\ srv' = srv
    <2>1. conn' = conn /\ tls' = tls
      BY <1>1, <1>6
    <2>2. Server'
      BY <1>0, <1>6, <2>1 DEF Server
    <2> QED
      BY <1>2, <1>3, <1>6, <2>2, SessionAnswer
  <1>7. CASE SrvReads("presence") /\ SrvSends(<<>>) /\ srv' = srv
    <2>1. conn' = conn /\ tls' = tls
      BY <1>1, <1>7
    <2>2. Server'
      BY <1>0, <1>7, <2>1 DEF Server
    <2> QED
      BY <1>2, <1>3, <1>7, <2>2, SessionAnswer
  <1> QED
    BY <1>4, <1>5, <1>6, <1>7 DEF SrvBind, SrvSession, SrvPresence, grant, refuse, ack

\* Every step keeps the invariant.
LEMMA NextInv == IInv /\ [Next]_vars => IInv'
  <1> SUFFICES ASSUME IInv, [Next]_vars PROVE IInv'
    OBVIOUS
  <1>1. CASE UNCHANGED vars
    BY <1>1 DEF vars, bus, IInv, Tree, Sound, First, Server, Phase, Calling, Asking, Offered, Answered,
           Binding, Session, Silent, Plain, AsksForTls
  <1>2. CASE Next
    BY <1>2, HotstartInv, LoseInv, BusStepInv, SrvHeaderInv, SrvStarttlsInv, SrvAuthInv,
       SessionAnswers DEF Next, ServerStep
  <1> QED
    BY <1>1, <1>2

\* The invariant holds of every behaviour.
THEOREM Invariance == Spec => []IInv
  BY InitInv, NextInv, PTL DEF Spec

-----------------------------------------------------------------------------
(* What the invariant says. *)

\* What is on its way, by phase.
LEMMA Traffic ==
    ASSUME IInv
    PROVE  /\ out \in Seq(Requests) /\ wire \in Seq(Events) /\ path \in Paths
           /\ shown \in {0, 1} /\ (shown = 1 => srv.bound)
           /\ out = <<>> \/ Calling \/ Asking \/ out \in Seq(Wanted)
  <1>0. << >> \in Seq(Requests) /\ << >> \in Seq(Events)
    OBVIOUS
  <1>1. CASE Calling
    <2>1. <<"header">> \in Seq(Requests) /\ <<>> \in Paths
      BY DEF Requests, Paths
    <2> QED
      BY <1>0, <1>1, <2>1 DEF Calling
  <1>2. CASE Asking
    <2>1. <<"starttls">> \in Seq(Requests) /\ <<"auth">> \in Seq(Requests) /\ <<"stream">> \in Paths
      BY DEF Requests, Paths
    <2>2. out = <<"starttls">> \/ out = <<"auth">>
      BY <1>2 DEF Asking
    <2>3. wire = <<>> /\ path = <<"stream">> /\ shown = 0
      BY <1>2 DEF Asking
    <2>4. out \in Seq(Requests)
      BY <2>1, <2>2
    <2> QED
      BY <1>0, <1>2, <2>1, <2>3, <2>4
  <1>3. CASE \E q \in States : Offered(q)
    BY <1>0, <1>3, CursorType DEF Offered, Silent, Trail
  <1>4. CASE \E a \in Answers, q \in States : Answered(a, q)
    BY <1>0, <1>4, CursorType DEF Answered, Silent, Trail
  <1>5. CASE \E q \in States : Binding(q)
    BY <1>0, <1>5, CursorType DEF Binding, Silent, Trail
  <1>6. CASE \E q \in States : Session(q)
    <2>1. PICK q \in States : Session(q)
      BY <1>6
    <2>2. out \in Seq(Wanted) /\ wire \in Seq(Events) /\ path = At[q]
      BY <2>1 DEF Session, Wanted, Trail
    <2>3. Wanted \subseteq Requests
      BY DEF Wanted, Requests
    <2>4. out \in Seq(Requests)
      BY <2>2, <2>3
    <2>5. path \in Paths
      BY <2>2, CursorType
    <2> QED
      BY <2>1, <2>2, <2>4, <2>5 DEF Session
  <1> QED
    BY <1>1, <1>2, <1>3, <1>4, <1>5, <1>6 DEF IInv, Phase

\* The type invariant: however connections break and are made again, the cursor
\* of the parser is at an object that the tree can hold, and no stream below
\* the bus has lost its last reference.
THEOREM TypeCorrect == Spec => []TypeOK
  <1>1. IInv => TypeOK
    <2> SUFFICES ASSUME IInv PROVE TypeOK
      OBVIOUS
    <2>1. shown \in Nat /\ out \in Seq(Requests) /\ wire \in Seq(Events) /\ path \in Paths
      BY Traffic
    <2>2. path # <<>> => streams # <<>>
      BY DEF IInv, Tree
    <2>3. streams \in Seq(Streams) /\ \A i \in DOMAIN streams : streams[i].rc > 0
      BY DEF IInv, Tree
    <2> QED
      BY <2>1, <2>2, <2>3 DEF TypeOK, IInv, Server
  <1> QED
    BY <1>1, Invariance, PTL

\* Until the login is done client and server take turns: features_tx and
\* features_exit write a request only when all features have been read.
THEOREM TurnsTaken == Spec => []TakesTurns
  <1>1. IInv => TakesTurns
    <2> SUFFICES ASSUME IInv, NEW i \in DOMAIN out, out[i] \in Negotiation
                 PROVE  Len(out) = 1 /\ wire = <<>>
      BY DEF TakesTurns
    <2>1. CASE out = <<>>
      BY <2>1
    <2>2. CASE Calling
      BY <2>2 DEF Calling
    <2>3. CASE Asking
      BY <2>3 DEF Asking
    <2>4. CASE out \in Seq(Wanted)
      <3>1. out[i] \in Wanted
        BY <2>4, ElementOfSeq, LenProperties
      <3> QED
        BY <3>1 DEF Wanted, Negotiation
    <2> QED
      BY <2>1, <2>2, <2>3, <2>4, Traffic
  <1> QED
    BY <1>1, Invariance, PTL

\* The answers to both bind requests together announce the user once, and only
\* to a server that has bound a resource.
THEOREM AnnouncedOnce == Spec => []PresenceOnce
  <1>1. IInv => PresenceOnce
    BY Traffic DEF PresenceOnce
  <1> QED
    BY <1>1, Invariance, PTL

\* When the server of the first connection lists starttls before its mechanisms,
\* features_tx keeps the request for TLS and no auth is written to the plain
\* transport.
THEOREM TlsComesFirst == Spec => []TlsBeforeAuth
  <1>1. IInv => TlsBeforeAuth
    <2> SUFFICES ASSUME IInv, AsksForTls, NEW i \in DOMAIN out, out[i] = "auth"
                 PROVE  tls
      BY DEF TlsBeforeAuth
    <2>1. CASE out = <<>>
      BY <2>1
    <2>2. CASE Calling
      BY <2>2 DEF Calling
    <2>3. CASE Asking
      <3>1. out = <<"auth">>
        BY <2>3 DEF Asking
      <3>2. out[1] = "auth"
        BY <3>1
      <3>3. ~Plain
        BY <2>3, <3>2 DEF Asking
      <3> QED
        BY <2>3, <3>3 DEF Asking, Plain, IInv
    <2>4. CASE out \in Seq(Wanted)
      <3>1. out[i] \in Wanted
        BY <2>4, ElementOfSeq, LenProperties
      <3> QED
        BY <3>1 DEF Wanted
    <2> QED
      BY <2>1, <2>2, <2>3, <2>4, Traffic
  <1> QED
    BY <1>1, Invariance, PTL

-----------------------------------------------------------------------------
(* XBus implements Login. *)

\* How far a connection has come.
LEMMA StageIs ==
    ASSUME shown \in {0, 1}, srv.authed \in BOOLEAN, srv.bound \in BOOLEAN
    PROVE  /\ conn # "up" => Stage = "down"
           /\ conn = "up" /\ shown = 1 => Stage = "online"
           /\ conn = "up" /\ shown = 0 /\ srv.bound => Stage = "bound"
           /\ conn = "up" /\ shown = 0 /\ ~srv.bound /\ srv.authed => Stage = "authenticated"
           /\ conn = "up" /\ shown = 0 /\ ~srv.bound /\ ~srv.authed => Stage = "up"
  BY DEF Stage

\* What StageIs needs is part of the invariant.
LEMMA StageTyped ==
    ASSUME IInv
    PROVE  shown \in {0, 1} /\ srv.authed \in BOOLEAN /\ srv.bound \in BOOLEAN
           /\ (srv.bound => srv.authed)
  BY Traffic DEF IInv, Server

\* A step that changes nothing Login sees.
LEMMA Hidden ==
    ASSUME IInv, conn' = conn, tls' = tls, shown' = shown, restarts' = restarts,
           srv'.authed = srv.authed, srv'.bound = srv.bound, srv'.offer = srv.offer
    PROVE  UNCHANGED Abstract!vars
  <1>1. Stage' = Stage
    BY DEF Stage
  <1>2. AsksForTls' = AsksForTls
    BY DEF AsksForTls
  <1>3. (conn = "up" /\ tls)' = (conn = "up" /\ tls)
    OBVIOUS
  <1> QED
    BY <1>1, <1>2, <1>3 DEF Abstract!vars

\* A connection that is gone.
LEMMA BreakStep ==
    ASSUME IInv, IInv', conn = "up", conn' # "up", restarts' = restarts, srv'.offer = srv.offer
    PROVE  Abstract!Break
  <1>1. Stage # "down"
    BY StageTyped, StageIs
  <1>2. Stage' = "down"
    BY DEF Stage
  <1>3. AsksForTls' = AsksForTls
    BY DEF AsksForTls
  <1>4. (conn = "up" /\ tls)' = FALSE
    OBVIOUS
  <1> QED
    BY <1>1, <1>2, <1>3, <1>4 DEF Abstract!Break

\* __x_bus_hotstart is Connect.
LEMMA ConnectStep ==
    ASSUME IInv, Hotstart
    PROVE  Abstract!Connect
  <1>1. conn # "up" /\ conn' = "up" /\ tls' = FALSE /\ shown' = 0
    BY DEF Hotstart
  <1>2. PICK o \in Offers, ms \in Mechanisms : srv' = NewServer(o, ms)
    BY DEF Hotstart
  <1>3. srv'.authed = FALSE /\ srv'.bound = FALSE
    BY <1>2 DEF NewServer
  <1>4. Stage = "down"
    BY <1>1 DEF Stage
  <1>5. Stage' = "up"
    BY <1>1, <1>3 DEF Stage
  <1>6. (conn = "up" /\ tls)' = FALSE
    BY <1>1
  <1>7. AsksForTls' \in BOOLEAN
    BY DEF AsksForTls
  <1> QED
    BY <1>4, <1>5, <1>6, <1>7 DEF Abstract!Connect

\* A connection on which proceed is read is not authenticated.
LEMMA ProceedEarly ==
    ASSUME IInv, CloseProceed
    PROVE  shown = 0 /\ ~srv.authed
  <1> DEFINE op == Head(wire).op
             name == Head(wire).name
  <1>1. wire # <<>> /\ op = "close" /\ name = "proceed"
    BY DEF CloseProceed, Closes
  <1>2. ASSUME NEW q \in States, Offered(q) PROVE shown = 0 /\ ~srv.authed
    BY <1>2 DEF Offered, Silent
  <1>3. ASSUME NEW a \in Answers, NEW q \in States, Answered(a, q) PROVE shown = 0 /\ ~srv.authed
    <2>1. PICK z \in States : Trail(AnswerMoves(a), q, wire, z)
      BY <1>3 DEF Answered
    <2>2. PICK r \in States : <<q, op, name, r>> \in AnswerMoves(a)
      BY <1>1, <2>1, TrailHead
    <2> HIDE DEF op, name
    <2>3. a # "success"
      BY <1>1, <2>2, AnswerMove
    <2> QED
      BY <1>3, <2>3 DEF Answered, Silent
  <1>4. ASSUME NEW q \in States, Binding(q) PROVE FALSE
    <2>1. PICK z \in States : Trail(BindMoves, q, wire, z)
      BY <1>4 DEF Binding
    <2>2. PICK r \in States : <<q, op, name, r>> \in BindMoves
      BY <1>1, <2>1, TrailHead
    <2> HIDE DEF op, name
    <2> QED
      BY <1>1, <2>2, BindMove
  <1>5. ASSUME NEW q \in States, Session(q) PROVE FALSE
    <2>1. PICK z \in States : Trail(SessionMoves(srv.bound), q, wire, z)
      BY <1>5 DEF Session
    <2>2. PICK r \in States : <<q, op, name, r>> \in SessionMoves(srv.bound)
      BY <1>1, <2>1, TrailHead
    <2>3. srv.bound \in BOOLEAN
      BY DEF IInv, Server
    <2> HIDE DEF op, name
    <2> QED
      BY <1>1, <2>2, <2>3, BindMove, SessionMove
  <1> QED
    BY <1>1, <1>2, <1>3, <1>4, <1>5 DEF IInv, Phase, Calling, Asking

\* proceed is Secure, or Break when the handshake fails.
LEMMA ProceedStep ==
    ASSUME IInv, IInv', CloseProceed
    PROVE  Abstract!Secure \/ Abstract!Break \/ UNCHANGED Abstract!vars
  <1>1. shown = 0 /\ ~srv.authed
    BY ProceedEarly
  <1>2. PICK ok \in Handshakes :
           /\ tls' = (tls \/ ok)
           /\ conn' = IF ok THEN conn ELSE "lost"
           /\ srv' = IF ok THEN [srv EXCEPT !.tls = TRUE, !.open = FALSE] ELSE srv
    BY DEF CloseProceed
  <1>3. shown' = shown /\ restarts' = restarts /\ ok \in BOOLEAN /\ (ok => conn = "up")
    BY <1>2 DEF CloseProceed, Handshakes
  <1>4. srv'.offer = srv.offer /\ srv'.authed = srv.authed /\ srv'.bound = srv.bound
    BY <1>2 DEF IInv, Server
  <1>5. ~srv.bound /\ tls \in BOOLEAN
    BY <1>1, StageTyped DEF IInv
  <1>6. CASE ok
    <2>1. conn = "up" /\ conn' = "up" /\ tls' = TRUE
      BY <1>2, <1>3, <1>6
    <2>2. Stage = "up" /\ Stage' = Stage
      BY <1>1, <1>3, <1>4, <1>5, <2>1 DEF Stage
    <2>3. AsksForTls' = AsksForTls
      BY <1>3, <1>4 DEF AsksForTls
    <2>4. CASE tls
      BY <1>3, <1>4, <1>5, <2>1, <2>4, Hidden
    <2>5. CASE ~tls
      BY <2>1, <2>2, <2>3, <2>5 DEF Abstract!Secure
    <2> QED
      BY <2>4, <2>5
  <1>7. CASE ~ok /\ conn = "up"
    BY <1>2, <1>3, <1>4, <1>7, BreakStep
  <1>8. CASE ~ok /\ conn # "up"
    <2>1. conn' # "up" /\ AsksForTls' = AsksForTls
      BY <1>2, <1>3, <1>4, <1>8 DEF AsksForTls
    <2>2. Stage = "down" /\ Stage' = "down"
      BY <1>8, <2>1 DEF Stage
    <2>3. (conn = "up" /\ tls)' = (conn = "up" /\ tls)
      BY <1>8, <2>1
    <2> QED
      BY <2>1, <2>2, <2>3 DEF Abstract!vars
  <1> QED
    BY <1>3, <1>6, <1>7, <1>8

\* bind_exit is Announce when it announces the user.
LEMMA BindStep ==
    ASSUME IInv, IInv', CloseBind
    PROVE  Abstract!Announce \/ UNCHANGED Abstract!vars
  <1>1. conn' = conn /\ srv' = srv /\ restarts' = restarts /\ tls' = tls
        /\ (shown' = shown \/ shown' = shown + 1)
    BY DEF CloseBind, Reads
  <1>2. CASE shown' = shown
    BY <1>1, <1>2, Hidden
  <1>3. CASE shown' = shown + 1
    <2>0. shown' \in {0, 1} /\ (shown' = 1 => srv'.bound)
      <3>1. shown' = 0 \/ \E q \in States : Session(q)'
        BY DEF IInv, Phase, Calling, Asking, Offered, Answered, Binding, Silent
      <3>2. ASSUME NEW q \in States, Session(q)'
            PROVE  shown' \in {0, 1} /\ (shown' = 1 => srv'.bound)
        BY <3>2 DEF Session
      <3> QED
        BY <3>1, <3>2
    <2>1. shown \in {0, 1} /\ shown' \in {0, 1} /\ (shown' = 1 => srv'.bound)
      BY <2>0, Traffic
    <2>2. shown = 0 /\ shown' = 1 /\ srv.bound
      BY <1>1, <1>3, <2>1
    <2>3. AsksForTls' = AsksForTls
      BY <1>1 DEF AsksForTls
    <2>4. (conn = "up" /\ tls)' = (conn = "up" /\ tls)
      BY <1>1
    <2>5. CASE conn = "up"
      <3>1. Stage = "bound" /\ Stage' = "online"
        BY <1>1, <2>2, <2>5 DEF Stage
      <3> QED
        BY <2>3, <2>4, <3>1 DEF Abstract!Announce
    <2>6. CASE conn # "up"
      <3>1. Stage' = Stage
        BY <1>1, <2>6 DEF Stage
      <3> QED
        BY <2>3, <2>4, <3>1 DEF Abstract!vars
    <2> QED
      BY <2>5, <2>6
  <1> QED
    BY <1>1, <1>2, <1>3

\* The other events of the parser change nothing that Login sees.
LEMMA EventHidden ==
    ASSUME IInv, BusStep, ~CloseProceed, ~CloseBind
    PROVE  UNCHANGED Abstract!vars
  <1>1. conn' = conn /\ tls' = tls /\ shown' = shown /\ restarts' = restarts /\ srv' = srv
    BY DEF BusStep, OpenStream, OpenStarttls, OpenMechanisms, OpenBind, OpenChild, Leaf,
           CloseMechanisms, CloseFeatures, CloseOutcome, CloseOther, Reads
  <1> QED
    BY <1>1, Hidden

\* success is Authenticate: under TLS if the server asks for it.
LEMMA AuthStep ==
    ASSUME IInv, SrvAuth
    PROVE  Abstract!Authenticate \/ UNCHANGED Abstract!vars
  <1>1. SrvReads("auth")
    BY DEF SrvAuth
  <1>2. conn = "up" /\ out # <<>> /\ Head(out) = "auth"
    BY <1>1 DEF SrvReads
  <1>3. Asking /\ out = <<"auth">> /\ out[1] = "auth"
    BY <1>2, Requesting
  <1>4. ~srv.authed /\ shown = 0 /\ ~Plain
    BY <1>3 DEF Asking
  <1>5. AsksForTls => tls
    BY <1>2, <1>4 DEF Plain
  <1>6. /\ conn' = conn /\ tls' = tls /\ shown' = shown /\ restarts' = restarts
        /\ \/ srv' = [srv EXCEPT !.authed = TRUE, !.open = FALSE]
           \/ srv' = [srv EXCEPT !.rejects = @ + 1]
    BY DEF SrvAuth, SrvSends, bus
  <1>7. srv'.offer = srv.offer /\ srv'.bound = srv.bound /\ ~srv.bound
        /\ (srv'.authed = TRUE \/ srv'.authed = srv.authed)
    BY <1>4, <1>6, StageTyped DEF IInv, Server
  <1>8. CASE srv'.authed = srv.authed
    BY <1>6, <1>7, <1>8, Hidden
  <1>9. CASE srv'.authed = TRUE
    <2>1. Stage = "up" /\ Stage' = "authenticated"
      BY <1>2, <1>4, <1>6, <1>7, <1>9 DEF Stage
    <2>2. AsksForTls' = AsksForTls
      BY <1>6, <1>7 DEF AsksForTls
    <2>3. (conn = "up" /\ tls)' = (conn = "up" /\ tls)
      BY <1>6
    <2> QED
      BY <1>2, <1>5, <2>1, <2>2, <2>3 DEF Abstract!Authenticate
  <1> QED
    BY <1>7, <1>8, <1>9

\* The grant of a resource is Bind, the first time.
LEMMA GrantStep ==
    ASSUME IInv, SrvBind
    PROVE  Abstract!Bind \/ UNCHANGED Abstract!vars
  <1>1. SrvReads("bind") /\ "bind" \in Wanted
    BY DEF SrvBind, Wanted
  <1>2. conn = "up" /\ out # <<>> /\ Head(out) = "bind"
    BY <1>1 DEF SrvReads
  <1>3. PICK q \in States : Session(q)
    BY <1>1, <1>2, Requesting
  <1>4. srv.authed /\ shown \in {0, 1} /\ (shown = 1 => srv.bound)
    BY <1>3 DEF Session
  <1>5. /\ conn' = conn /\ tls' = tls /\ shown' = shown /\ restarts' = restarts
        /\ \/ srv' = [srv EXCEPT !.bound = TRUE]
           \/ srv' = [srv EXCEPT !.refusals = @ + 1]
    BY DEF SrvBind, SrvSends, bus
  <1>6. srv'.offer = srv.offer /\ srv'.authed = srv.authed /\ srv.bound \in BOOLEAN
        /\ (srv'.bound = TRUE \/ srv'.bound = srv.bound)
    BY <1>5 DEF IInv, Server
  <1>7. CASE srv'.bound = srv.bound
    BY <1>5, <1>6, <1>7, Hidden
  <1>8. CASE srv'.bound = TRUE /\ ~srv.bound
    <2>1. Stage = "authenticated" /\ Stage' = "bound"
      BY <1>2, <1>4, <1>5, <1>6, <1>8 DEF Stage
    <2>2. AsksForTls' = AsksForTls
      BY <1>5, <1>6 DEF AsksForTls
    <2>3. (conn = "up" /\ tls)' = (conn = "up" /\ tls)
      BY <1>5
    <2> QED
      BY <2>1, <2>2, <2>3 DEF Abstract!Bind
  <1>9. srv'.bound = TRUE /\ srv.bound => srv'.bound = srv.bound
    BY <1>6
  <1> QED
    BY <1>6, <1>7, <1>8, <1>9

\* The answers that change nothing that Login sees, and a header that is taken
\* for an error.
LEMMA AnswerHidden ==
    ASSUME IInv, IInv', SrvHeader \/ SrvStarttls \/ SrvSession \/ SrvPresence
    PROVE  Abstract!Break \/ UNCHANGED Abstract!vars
  <1>1. CASE conn' = conn
    <2>1. /\ tls' = tls /\ shown' = shown /\ restarts' = restarts
          /\ srv' = srv \/ srv' = [srv EXCEPT !.open = TRUE]
      BY DEF SrvHeader, SrvStarttls, SrvSession, SrvPresence, SrvSends, bus
    <2>2. srv'.offer = srv.offer /\ srv'.authed = srv.authed /\ srv'.bound = srv.bound
      BY <2>1 DEF IInv, Server
    <2> QED
      BY <1>1, <2>1, <2>2, Hidden
  <1>2. CASE conn' # conn
    <2>1. conn = "up" /\ conn' = "lost" /\ srv' = srv /\ restarts' = restarts
      BY <1>2 DEF SrvHeader, SrvStarttls, SrvSession, SrvPresence, SrvSends, SrvReads
    <2> QED
      BY <2>1, BreakStep
  <1> QED
    BY <1>1, <1>2

\* The first state is one of Login.
LEMMA AbstractInit == Init => Abstract!Init
  <1> SUFFICES ASSUME Init PROVE Abstract!Init
    OBVIOUS
  <1>1. Stage = "down" /\ (conn = "up" /\ tls) = FALSE
    BY DEF Init, Stage
  <1>2. AsksForTls \in BOOLEAN
    BY DEF AsksForTls
  <1> QED
    BY <1>1, <1>2 DEF Abstract!Init

\* Every step is one of Login or changes nothing that it sees.
LEMMA AbstractNext == IInv /\ IInv' /\ [Next]_vars => [Abstract!Next]_Abstract!vars
  <1> SUFFICES ASSUME IInv, IInv', [Next]_vars
               PROVE  Abstract!Next \/ UNCHANGED Abstract!vars
    OBVIOUS
  <1>1. CASE Hotstart
    BY <1>1, ConnectStep DEF Abstract!Next
  <1>2. CASE Lose
    <2>1. conn = "up" /\ conn' # "up" /\ restarts' = restarts /\ srv' = srv
      BY <1>2 DEF Lose
    <2> QED
      BY <2>1, BreakStep DEF Abstract!Next
  <1>3. CASE BusStep
    BY <1>3, ProceedStep, BindStep, EventHidden DEF Abstract!Next
  <1>4. CASE ServerStep
    BY <1>4, AuthStep, GrantStep, AnswerHidden DEF Abstract!Next, ServerStep
  <1>5. CASE UNCHANGED vars
    BY <1>5, Hidden DEF vars, bus
  <1> QED
    BY <1>1, <1>2, <1>3, <1>4, <1>5 DEF Next

\* Every connection, also one made over the streams an earlier one left behind,
\* goes through the stages of Login in their order, each once: TLS before
\* authentication where AsksForTls, then the resource, presence last.
THEOREM LoginRefined == Spec => LogsInInOrder
  <1>1. Spec => Abstract!Init /\ [][Abstract!Next]_Abstract!vars
    BY Invariance, AbstractInit, AbstractNext, PTL DEF Spec
  <1> QED
    BY <1>1 DEF LogsInInOrder, Abstract!Spec

=============================================================================
