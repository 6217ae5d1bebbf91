---------------------------- MODULE JingleProofs -----------------------------
(***************************************************************************)
(* Proofs about Jingle, for any number of candidate addresses on either    *)
(* side and messages on their way.                                         *)
(***************************************************************************)
EXTENDS Jingle, ListFacts

-----------------------------------------------------------------------------
(* The invariant. *)

\* The thread that runs x_session_start on this side
Starter(e) == IF e = "caller" THEN "ui" ELSE "bus"

\* The caller has sent session-initiate.
Called == sess["caller"] # "none" /\ pc["caller"]["ui"] \notin {"run", "activate", "notify"}

\* Flags are in use on this side.
Engaged(e) == IF e = "caller" THEN Called ELSE sess[e] # "none"

\* pthread_join of the worker has returned.
Joined == {"destroyed", "mark", "unsubscribe", "channels", "reap", "unlink"}

\* The jingle object has left the listeners of the session.
Unheard(e) ==
    \/ sess[e] = "closed"
    \/ \E t \in Threads : pc[e][t] \in {"channels", "reap", "unlink"}

\* Before a session is opened nothing of it is there.
FreshInv(e) ==
    sess[e] = "none" =>
        /\ cr0[e] = {} /\ ~hungup[e] /\ worker[e] = "none" /\ local[e] = {}

\* Only one thread of a side starts its session, and it is active from then on;
\* the callee answers on that thread.
StartInv(e) ==
    /\ \A t \in Threads : pc[e][t] \in StartSteps => t = Starter(e)
    /\ \A t \in Threads : pc[e][t] \in AnswerSteps => e = "callee" /\ t = "bus"
    /\ active[e] <=> sess[e] # "none" /\ pc[e][Starter(e)] \notin {"run", "activate"}
    /\ state[e] = IF sess[e] = "none" THEN "GNEW"
                  ELSE IF e = "caller" THEN "OUTCOMING" ELSE "INCOMING"

\* The user interface closes a session that its user hung up, the bus thread
\* one that the peer's session-terminate has marked.
CloseInv(e) ==
    /\ \A t \in Threads : pc[e][t] \in CloseSteps => active[e]
    /\ pc[e]["ui"] \in CloseSteps => hungup[e]
    /\ pc[e]["bus"] \in CloseSteps => "STOPPED" \in cr0[e] /\ pc[e]["bus"] # "mark"
    /\ \A t \in Threads : pc[e][t] \in Joined => worker[e] = "joined"
    /\ \A t \in Threads : pc[e][t] = "unlink" => ice[e] = "joined"
    /\ sess[e] = "closed" => active[e] /\ worker[e] = "joined" /\ ice[e] = "joined"
    /\ listening[e] <=> sess[e] # "none" /\ ~Unheard(e)

\* What the transport has to announce was sent or is being announced.
CandInv(e) ==
    /\ sess[e] # "none" /\ ~Gone(e) => Host[e] \subseteq local[e]
    /\ ice[e] \notin {"check", "deliver"} => found[e] = {}
    /\ active[e] /\ listening[e] /\ pc[e][Starter(e)] \notin StartSteps
           => local[e] \subseteq sent[e] \cup found[e]
    /\ ice[e] # "off" => Engaged(e)

\* The bus thread has loaded cr0 and will store it.
Storing == ReceiveSteps \cup {"store-answer"}

\* What the flags say, in cr0 and in the copy of a thread that stores it later
FlagInv(e) ==
    /\ Engaged(e) => cr0[e] # {}
    /\ pc[e]["bus"] \in Storing => reg[e]["bus"] # {}
    /\ \A f \in {"RUNNING", "REMOTE_CANDIDATE"} :
           f \in cr0[e] \/ (\E t \in Threads : f \in reg[e][t]) =>
               got[e] # {} \/ (e = "caller" /\ f = "RUNNING")
    /\ Answering(e) => got[e] # {}
    /\ pc[e]["bus"] \in Storing /\ ~hungup[e] =>
           cr0[e] \subseteq reg[e]["bus"] /\ reg[e]["bus"] \subseteq cr0[e] \cup {"REMOTE_CANDIDATE"}

SideInv(e) == FreshInv(e) /\ StartInv(e) /\ CloseInv(e) /\ CandInv(e) /\ FlagInv(e)

Has(n, a) == \E i \in DOMAIN n : n[i].action = a

\* The message m names an address of the peer.
Names(m) == m.action = "transport-info" /\ m.cands # {}
Named(n) == \E i \in DOMAIN n : Names(n[i])

\* No session-accept comes before an address.
Ordered(n) ==
    \A j \in DOMAIN n : n[j].action = "session-accept" => \E i \in DOMAIN n : i < j /\ Names(n[i])

\* The callee has answered, or is on its way out.
HasAnswered == "RUNNING" \in cr0["callee"] \/ Answering("callee") \/ hungup["callee"]

\* The order of what the two sides send each other
QuietInv ==
    /\ ~Called => /\ net["caller"] = <<>> /\ net["callee"] = <<>>
                  /\ sess["callee"] = "none" /\ cr0["caller"] = {}
                  /\ pc["caller"]["bus"] = "idle"
    /\ sess["callee"] = "none" =>
           /\ net["caller"] = <<>>
           /\ Called => net["callee"] # <<>> /\ net["callee"][1].action = "session-initiate"
    /\ ~Has(net["callee"], "session-accept") /\ pc["callee"]["bus"] # "store-accept"

AnswerInv ==
    \/ HasAnswered
    \/ /\ "RUNNING" \notin cr0["caller"] /\ \A t \in Threads : "RUNNING" \notin reg["caller"][t]
       /\ pc["caller"]["bus"] # "store-accept"
       /\ ~Has(net["caller"], "session-accept")

\* The callee has taken an address of the caller and may answer.
Replying == {"store-info"} \cup AnswerSteps

\* The caller is not told of an answer before it is told of an address, and a
\* caller that has no address does not consider the call running.
AddressInv ==
    \/ got["caller"] # {} \/ hungup["callee"]
    \/ /\ "RUNNING" \notin cr0["caller"] /\ \A t \in Threads : "RUNNING" \notin reg["caller"][t]
       /\ \/ ~Ok("caller")
          \/ /\ Ordered(net["caller"]) /\ pc["caller"]["bus"] # "store-accept"
             /\ \/ Named(net["caller"])
                \/ /\ listening["callee"] => pc["callee"]["bus"] \in StartSteps
                   /\ pc["callee"]["bus"] \notin Replying

TerminateInv == \A e \in End : Has(net[Peer(e)], "session-terminate") => hungup[e]

LinkInv == QuietInv /\ AnswerInv /\ AddressInv /\ TerminateInv

IInv == TypeOK /\ (\A e \in End : SideInv(e)) /\ LinkInv

-----------------------------------------------------------------------------
(* What a step leaves alone. *)

\* The two sides
LEMMA Sides ==
    /\ Peer("caller") = "callee" /\ Peer("callee") = "caller"
    /\ \A e \in End : Peer(e) \in End /\ Peer(e) # e /\ Peer(Peer(e)) = e
                      /\ \A d \in End : d # e => d = Peer(e)
  <1>1. \A e \in End : \E p \in End : p # e
    BY DEF End
  <1>2. \A e \in End : Peer(e) \in End /\ Peer(e) # e
    BY <1>1 DEF Peer
  <1> QED
    BY <1>2 DEF End

\* The threads, the session, the jingle object and the transport of d
Same(d) ==
    /\ sess'[d] = sess[d] /\ active'[d] = active[d] /\ runbit'[d] = runbit[d]
    /\ worker'[d] = worker[d] /\ state'[d] = state[d] /\ cr0'[d] = cr0[d]
    /\ listening'[d] = listening[d] /\ ice'[d] = ice[d] /\ found'[d] = found[d]
    /\ local'[d] = local[d] /\ hungup'[d] = hungup[d] /\ pc'[d] = pc[d]
    /\ reg'[d] = reg[d] /\ sent'[d] = sent[d] /\ got'[d] = got[d] /\ fault'[d] = fault[d]

\* A side that a step leaves alone keeps its invariant.
LEMMA SideKept ==
    ASSUME NEW d \in End, SideInv(d), Same(d)
    PROVE  SideInv(d)'
  <1>1. FreshInv(d)'
    BY DEF SideInv, Same, FreshInv
  <1>2. StartInv(d)'
    BY DEF SideInv, Same, StartInv
  <1>3. CloseInv(d)'
    BY DEF SideInv, Same, CloseInv, Gone, Unheard
  <1>4. CandInv(d)'
    BY DEF SideInv, Same, CandInv, Engaged, Called, Gone, Threads
  <1>5. FlagInv(d)'
    BY DEF SideInv, Same, FlagInv, Engaged, Called, Answering
  <1> QED
    BY <1>1, <1>2, <1>3, <1>4, <1>5 DEF SideInv

\* A fault is noted.
LEMMA FaultNoted ==
    ASSUME TypeOK, NEW e \in End, NEW f \in Faults
    PROVE  [fault EXCEPT ![e] = @ \cup {f}] \in [End -> SUBSET Faults]
  <1>1. fault \in [End -> SUBSET Faults] /\ fault[e] \cup {f} \subseteq Faults
    BY DEF TypeOK
  <1> QED
    BY <1>1

\* A step of one side
LEMMA Combined ==
    ASSUME IInv, NEW e \in End, TypeOK', SideInv(e)', \A d \in End : d # e => Same(d), LinkInv'
    PROVE  IInv'
  <1>1. ASSUME NEW d \in End
        PROVE  SideInv(d)'
    <2>1. CASE d = e
      BY <2>1
    <2>2. CASE d # e
      BY <2>2, SideKept DEF IInv
    <2> QED
      BY <2>1, <2>2
  <1> QED
    BY <1>1 DEF IInv


-----------------------------------------------------------------------------
(* Messages on their way. *)

\* A message is sent: it comes behind the others.
LEMMA SentProperties ==
    ASSUME NEW n \in Seq(Messages), NEW m \in Messages
    PROVE  /\ Append(n, m) \in Seq(Messages) /\ Append(n, m) # <<>>
           /\ \A a : Has(Append(n, m), a) <=> Has(n, a) \/ m.action = a
           /\ Named(Append(n, m)) <=> Named(n) \/ Names(m)
           /\ Ordered(n) /\ (m.action = "session-accept" => Named(n)) => Ordered(Append(n, m))
           /\ Append(n, m)[1] = IF n = <<>> THEN m ELSE n[1]
  <1> DEFINE u == Append(n, m)
             l == Len(n)
  <1>1. /\ u \in Seq(Messages) /\ Len(u) = l + 1 /\ l \in Nat
        /\ \A i \in 1 .. l : u[i] = n[i]
        /\ u[l + 1] = m
    BY AppendProperties, LenProperties
  <1>2. DOMAIN n = 1 .. l /\ DOMAIN u = 1 .. l + 1 /\ (n = <<>> <=> l = 0)
    BY <1>1, LenProperties, EmptySeq
  <1> HIDE DEF u, l
  <1>3. /\ \A i \in 1 .. l + 1 : i \in 1 .. l \/ i = l + 1
        /\ \A i \in 1 .. l : i \in 1 .. l + 1 /\ i < l + 1
        /\ l + 1 \in 1 .. l + 1
    BY <1>1
  <1>4. \A a : Has(u, a) <=> Has(n, a) \/ m.action = a
    BY <1>1, <1>2, <1>3 DEF Has
  <1>5. Named(u) <=> Named(n) \/ Names(m)
    BY <1>1, <1>2, <1>3 DEF Named
  <1>6. ASSUME Ordered(n), m.action = "session-accept" => Named(n)
        PROVE  Ordered(u)
    <2> SUFFICES ASSUME NEW j \in DOMAIN u, u[j].action = "session-accept"
                 PROVE  \E i \in DOMAIN u : i < j /\ Names(u[i])
      BY DEF Ordered
    <2>1. CASE j \in 1 .. l
      <3>1. PICK i \in DOMAIN n : i < j /\ Names(n[i])
        BY <1>1, <1>2, <1>6, <2>1 DEF Ordered
      <3> QED
        BY <1>1, <1>2, <1>3, <3>1
    <2>2. CASE j = l + 1
      <3>1. PICK i \in DOMAIN n : Names(n[i])
        BY <1>1, <1>6, <2>2 DEF Named
      <3> QED
        BY <1>1, <1>2, <1>3, <2>2, <3>1
    <2> QED
      BY <1>2, <1>3, <2>1, <2>2
  <1>7. u # <<>> /\ u[1] = IF n = <<>> THEN m ELSE n[1]
    <2>1. u # <<>>
      BY <1>1, EmptySeq
    <2>2. CASE l = 0
      BY <1>1, <1>2, <2>1, <2>2
    <2>3. CASE l # 0
      <3>1. 1 \in 1 .. l
        BY <1>1, <2>3
      <3> QED
        BY <1>1, <1>2, <2>1, <2>3, <3>1
    <2> QED
      BY <2>2, <2>3
  <1> QED
    BY <1>1, <1>4, <1>5, <1>6, <1>7 DEF u

\* The first message is taken.
LEMMA TakenProperties ==
    ASSUME NEW n \in Seq(Messages), n # <<>>
    PROVE  /\ Head(n) = n[1] /\ n[1] \in Messages /\ Tail(n) \in Seq(Messages)
           /\ Has(n, n[1].action)
           /\ \A a : Has(Tail(n), a) => Has(n, a)
           /\ Named(n) => Names(n[1]) \/ Named(Tail(n))
           /\ Ordered(n) => n[1].action # "session-accept"
           /\ Ordered(n) => Names(n[1]) \/ Ordered(Tail(n))
  <1> DEFINE u == Tail(n)
             l == Len(n)
  <1>1. /\ u \in Seq(Messages) /\ Len(u) = l - 1 /\ l \in Nat /\ l # 0
        /\ \A i \in 1 .. l - 1 : u[i] = n[i + 1]
        /\ Head(n) = n[1] /\ n[1] \in Messages
    BY HeadTailProperties, LenProperties, EmptySeq, ElementOfSeq
  <1>2. DOMAIN n = 1 .. l /\ DOMAIN u = 1 .. l - 1
    BY <1>1, LenProperties
  <1> HIDE DEF u, l
  <1>3. /\ 1 \in 1 .. l
        /\ \A i \in 1 .. l - 1 : i + 1 \in 1 .. l
        /\ \A i \in 1 .. l : i = 1 \/ (i - 1 \in 1 .. l - 1 /\ (i - 1) + 1 = i)
        /\ \A i \in 1 .. l : ~(i < 1)
    BY <1>1
  <1>4. Has(n, n[1].action) /\ \A a : Has(u, a) => Has(n, a)
    BY <1>1, <1>2, <1>3 DEF Has
  <1>5. ASSUME Named(n), ~Names(n[1])
        PROVE  Named(u)
    <2>1. PICK i \in 1 .. l : Names(n[i])
      BY <1>2, <1>5 DEF Named
    <2>2. i - 1 \in 1 .. l - 1 /\ u[i - 1] = n[i]
      BY <1>1, <1>3, <1>5, <2>1
    <2> QED
      BY <1>2, <2>1, <2>2 DEF Named
  <1>6. Ordered(n) => n[1].action # "session-accept"
    BY <1>2, <1>3 DEF Ordered
  <1>7. ASSUME Ordered(n), ~Names(n[1])
        PROVE  Ordered(u)
    <2> SUFFICES ASSUME NEW j \in 1 .. l - 1, u[j].action = "session-accept"
                 PROVE  \E i \in 1 .. l - 1 : i < j /\ Names(u[i])
      BY <1>2 DEF Ordered
    <2>1. PICK i \in 1 .. l : i < j + 1 /\ Names(n[i])
      BY <1>1, <1>2, <1>3, <1>7 DEF Ordered
    <2>2. i - 1 \in 1 .. l - 1 /\ (i - 1) + 1 = i /\ i - 1 < j
      BY <1>1, <1>3, <1>7, <2>1
    <2> QED
      BY <1>1, <2>1, <2>2
  <1> QED
    BY <1>1, <1>4, <1>5, <1>6, <1>7 DEF u

\* What most steps do to the state that the order of messages depends on
LocalStep ==
    /\ \A d \in End : hungup[d] => hungup'[d]
    /\ HasAnswered => HasAnswered'
    /\ got["caller"] # {} => got'["caller"] # {}
    /\ sess'["callee"] = "none" <=> sess["callee"] = "none"
    /\ Called' <=> Called
    /\ Ok("caller")' => Ok("caller")
    /\ cr0'["caller"] = cr0["caller"] \/ Called
    /\ "RUNNING" \in cr0'["caller"] =>
           \/ "RUNNING" \in cr0["caller"]
           \/ \E t \in Threads : "RUNNING" \in reg["caller"][t]
           \/ HasAnswered /\ (got["caller"] # {} \/ hungup["callee"])
    /\ \A t \in Threads : "RUNNING" \in reg'["caller"][t] =>
           "RUNNING" \in cr0["caller"] \/ "RUNNING" \in reg["caller"][t]
    /\ pc'["caller"]["bus"] = pc["caller"]["bus"]
         \/ (Called /\ pc'["caller"]["bus"] # "store-accept")
    /\ pc'["callee"]["bus"] # "store-accept" \/ pc'["callee"]["bus"] = pc["callee"]["bus"]
    /\ pc'["callee"]["bus"] \in Replying =>
           \/ pc["callee"]["bus"] \in Replying \/ hungup["callee"] \/ Named(net'["caller"])
           \/ listening["callee"] /\ pc["callee"]["bus"] \notin StartSteps
    /\ listening'["callee"] => listening["callee"]
    /\ listening'["callee"] /\ pc["callee"]["bus"] \in StartSteps =>
           pc'["callee"]["bus"] \in StartSteps \/ Named(net'["caller"])

\* It neither sends nor takes a message.
Silent == net' = net /\ LocalStep

\* The caller is still told of an address first.
LEMMA AddressKept ==
    ASSUME LocalStep, AddressInv,
           Ok("caller")' =>
               /\ Named(net["caller"]) => Named(net'["caller"])
               /\ Ordered(net["caller"])
                  /\ (Named(net["caller"]) \/ pc["callee"]["bus"] \notin Replying)
                      => Ordered(net'["caller"])
    PROVE  AddressInv'
  <1>1. CASE got["caller"] # {} \/ hungup["callee"]
    BY <1>1 DEF LocalStep, AddressInv, End
  <1>2. CASE ~(got["caller"] # {} \/ hungup["callee"])
    <2>1. /\ "RUNNING" \notin cr0["caller"] /\ \A t \in Threads : "RUNNING" \notin reg["caller"][t]
          /\ \/ ~Ok("caller")
             \/ /\ Ordered(net["caller"]) /\ pc["caller"]["bus"] # "store-accept"
                /\ \/ Named(net["caller"])
                   \/ /\ listening["callee"] => pc["callee"]["bus"] \in StartSteps
                      /\ pc["callee"]["bus"] \notin Replying
      BY <1>2 DEF AddressInv
    <2>2. "RUNNING" \notin cr0'["caller"] /\ \A t \in Threads : "RUNNING" \notin reg'["caller"][t]
      BY <1>2, <2>1 DEF LocalStep
    <2>3. CASE ~Ok("caller")'
      BY <2>2, <2>3 DEF AddressInv
    <2>4. CASE Ok("caller")'
      <3>1. Ok("caller")
        BY <2>4 DEF LocalStep
      <3>2. pc'["caller"]["bus"] # "store-accept"
        BY <2>1, <3>1 DEF LocalStep
      <3>3. Ordered(net'["caller"])
        BY <2>1, <2>4, <3>1
      <3>4. \/ Named(net'["caller"])
            \/ /\ listening'["callee"] => pc'["callee"]["bus"] \in StartSteps
               /\ pc'["callee"]["bus"] \notin Replying
        BY <1>2, <2>1, <2>4, <3>1 DEF LocalStep
      <3> QED
        BY <2>2, <3>2, <3>3, <3>4 DEF AddressInv
    <2> QED
      BY <2>3, <2>4
  <1> QED
    BY <1>1, <1>2

\* A step that is neither sending nor taking keeps all of it.
LEMMA SilentKept ==
    ASSUME IInv, Silent
    PROVE  LinkInv'
  <1> USE DEF IInv, LinkInv
  <1>1. QuietInv'
    BY DEF Silent, LocalStep, QuietInv
  <1>2. AnswerInv'
    <2>1. CASE HasAnswered
      BY <2>1 DEF AnswerInv, Silent, LocalStep
    <2>2. CASE ~HasAnswered
      BY <2>2 DEF AnswerInv, Silent, LocalStep
    <2> QED
      BY <2>1, <2>2
  <1>3. AddressInv'
    BY AddressKept DEF Silent
  <1>4. TerminateInv'
    BY Sides DEF Silent, LocalStep, TerminateInv
  <1> QED
    BY <1>1, <1>2, <1>3, <1>4

\* It sends a message other than session-initiate; session-accept is an answer.
LEMMA SendKept ==
    ASSUME IInv, LocalStep, NEW e \in End, Engaged(e), NEW m \in Messages,
           m.action \in {"transport-info", "session-terminate", "session-accept"},
           m.action = "session-accept" =>
               e = "callee" /\ HasAnswered' /\ pc["callee"]["bus"] \in Replying,
           m.action = "session-terminate" => hungup[e],
           net' = [net EXCEPT ![Peer(e)] = Append(@, m)]
    PROVE  LinkInv'
  <1> USE DEF IInv, LinkInv
  <1>1. net \in [End -> Seq(Messages)] /\ Peer(e) \in End /\ Peer(e) # e /\ (e = "callee" => Peer(e) = "caller")
        /\ (e = "caller" => Peer(e) = "callee") /\ "caller" \in End /\ "callee" \in End
    BY Sides DEF TypeOK, End
  <1> DEFINE n == net[Peer(e)]
             u == Append(n, m)
  <1>2. /\ u # <<>> /\ \A a : Has(u, a) <=> Has(n, a) \/ m.action = a
        /\ Named(n) => Named(u)
        /\ Ordered(n) /\ (m.action = "session-accept" => Named(n)) => Ordered(u)
        /\ u[1] = IF n = <<>> THEN m ELSE n[1]
    BY <1>1, SentProperties
  <1>3. /\ net'[Peer(e)] = u /\ \A d \in End : d # Peer(e) => net'[d] = net[d]
    BY <1>1
  <1> HIDE DEF u
  <1>4. QuietInv'
    <2>1. Called
      BY <1>1 DEF Engaged, QuietInv, End
    <2>2. sess["callee"] = "none" => e = "caller"
      BY DEF Engaged, End
    <2>3. sess["callee"] = "none" => net["callee"] # <<>>
      BY <2>1 DEF QuietInv
    <2> QED
      BY <1>1, <1>2, <1>3, <2>1, <2>2, <2>3 DEF LocalStep, QuietInv, End
  <1>5. AnswerInv'
    <2>1. CASE HasAnswered \/ HasAnswered'
      BY <2>1 DEF AnswerInv, LocalStep
    <2>2. CASE ~HasAnswered /\ ~HasAnswered'
      <3>1. Has(net'["caller"], "session-accept") => Has(net["caller"], "session-accept")
        BY <1>1, <1>2, <1>3, <2>2
      <3> QED
        BY <2>2, <3>1 DEF AnswerInv, LocalStep
    <2> QED
      BY <2>1, <2>2
  <1>6. AddressInv'
    <2>1. /\ Ordered(net["caller"]) /\ (m.action = "session-accept" => Named(net["caller"]))
                => Ordered(net'["caller"])
          /\ Named(net["caller"]) => Named(net'["caller"])
      BY <1>1, <1>2, <1>3
    <2> QED
      BY <2>1, AddressKept
  <1>7. TerminateInv'
    <2> SUFFICES ASSUME NEW d \in End, Has(net'[Peer(d)], "session-terminate")
                 PROVE  hungup'[d]
      BY DEF TerminateInv
    <2>1. hungup[d] => hungup'[d]
      BY DEF LocalStep
    <2>2. CASE d = e
      BY <1>2, <1>3, <2>1, <2>2 DEF TerminateInv
    <2>3. CASE d # e
      BY <1>3, <2>1, <2>3, Sides DEF TerminateInv
    <2> QED
      BY <2>2, <2>3
  <1> QED
    BY <1>4, <1>5, <1>6, <1>7

\* It takes a message other than session-initiate.
LEMMA TakeKept ==
    ASSUME IInv, LocalStep, NEW e \in End, net[e] # <<>>, net[e][1].action # "session-initiate",
           e = "caller" /\ Names(net[e][1]) => got'["caller"] # {} \/ ~Ok("caller")',
           net' = [net EXCEPT ![e] = Tail(@)]
    PROVE  LinkInv'
  <1> USE DEF IInv, LinkInv
  <1>1. net \in [End -> Seq(Messages)] /\ "caller" \in End /\ "callee" \in End
    BY DEF TypeOK, End
  <1> DEFINE n == net[e]
             u == Tail(n)
  <1>2. /\ \A a : Has(u, a) => Has(n, a)
        /\ Named(n) => Names(n[1]) \/ Named(u)
        /\ Ordered(n) => Names(n[1]) \/ Ordered(u)
    BY <1>1, TakenProperties
  <1>3. net'[e] = u /\ \A d \in End : d # e => net'[d] = net[d]
    BY <1>1
  <1> HIDE DEF u
  <1>4. \A d \in End : \A a : Has(net'[d], a) => Has(net[d], a)
    BY <1>2, <1>3
  <1>5. QuietInv'
    <2>1. Called /\ sess["callee"] # "none"
      BY DEF QuietInv, End
    <2> QED
      BY <1>1, <1>4, <2>1 DEF LocalStep, QuietInv
  <1>6. AnswerInv'
    <2>1. CASE HasAnswered
      BY <2>1 DEF AnswerInv, LocalStep
    <2>2. CASE ~HasAnswered
      BY <1>1, <1>4, <2>2 DEF AnswerInv, LocalStep
    <2> QED
      BY <2>1, <2>2
  <1>7. AddressInv'
    <2>1. CASE got'["caller"] # {}
      BY <2>1 DEF AddressInv
    <2>2. CASE got'["caller"] = {}
      <3>1. Ok("caller")' => /\ Ordered(net["caller"]) => Ordered(net'["caller"])
                             /\ Named(net["caller"]) => Named(net'["caller"])
        BY <1>1, <1>2, <1>3, <2>2
      <3> QED
        BY <3>1, AddressKept
    <2> QED
      BY <2>1, <2>2
  <1>8. TerminateInv'
    BY <1>4, Sides DEF TerminateInv, LocalStep
  <1> QED
    BY <1>5, <1>6, <1>7, <1>8

-----------------------------------------------------------------------------
(* Opening and starting a session. *)

\* The caller places the call: nothing was there before.
LEMMA PlaceCallInv ==
    ASSUME IInv, PlaceCall
    PROVE  IInv'
  <1> DEFINE e == "caller"
  <1> USE DEF session, jingle, transport
  <1>1. /\ e \in End /\ "ui" \in Threads /\ Ok(e) /\ pc[e]["ui"] = "idle" /\ sess[e] = "none"
        /\ sess' = [sess EXCEPT ![e] = "open"] /\ state' = [state EXCEPT ![e] = "OUTCOMING"]
        /\ listening' = [listening EXCEPT ![e] = TRUE] /\ local' = [local EXCEPT ![e] = Host[e]]
        /\ pc' = [pc EXCEPT ![e]["ui"] = "run"]
        /\ UNCHANGED <<active, runbit, worker, cr0, ice, found, hungup, reg, sent, got, net, fault>>
    BY DEF PlaceCall, At, Goto, End, Threads
  <1> HIDE DEF e
  <1>2. TypeOK'
    BY <1>1, CandAssumption DEF IInv, TypeOK, StartSteps
  <1>3. \A d \in End : d # e => Same(d)
    BY <1>1 DEF IInv, TypeOK, Same
  <1>4. SideInv(e)'
    <2>0. pc[e]["ui"] = "idle" /\ pc[e]["bus"] = "idle" /\ ~active[e]
      BY <1>1 DEF IInv, TypeOK, SideInv, StartInv, Threads
    <2>1. FreshInv(e)'
      BY <1>1 DEF IInv, TypeOK, FreshInv
    <2>2. StartInv(e)'
      BY <1>1, <2>0 DEF IInv, TypeOK, StartInv, Starter, StartSteps, Threads, e, AnswerSteps
    <2>3. CloseInv(e)'
      BY <1>1, <2>0 DEF IInv, TypeOK, CloseInv, Gone, Threads, CloseSteps, Joined, Unheard
    <2>4. CandInv(e)'
      BY <1>1, <2>0 DEF IInv, TypeOK, SideInv, CandInv, Engaged, Called, e, Gone, Threads
    <2>5. FlagInv(e)'
      <3>1. pc'[e]["ui"] = "run" /\ pc'[e]["bus"] = "idle"
        BY <1>1, <2>0 DEF IInv, TypeOK, Threads
      <3>2. ~Engaged(e)'
        BY <3>1 DEF Engaged, Called, e
      <3> QED
        BY <1>1, <3>1, <3>2 DEF IInv, SideInv, FlagInv, ReceiveSteps, Storing, Answering
    <2> QED
      BY <2>1, <2>2, <2>3, <2>4, <2>5 DEF SideInv
  <1>5. Silent
    BY <1>1 DEF IInv, TypeOK, Silent, LocalStep, HasAnswered, Called, ReceiveSteps, StartSteps,
                Ok, End, Threads, e, Answering, Replying, AnswerSteps
  <1> QED
    BY <1>1, <1>2, <1>3, <1>4, <1>5, Combined, SilentKept

\* The worker is started; its side is not closing.
LEMMA StartRunInv ==
    ASSUME IInv, NEW e \in End, NEW t \in Threads, StartRun(e, t)
    PROVE  IInv'
  <1> USE DEF session, jingle, transport
  <1>1. /\ Ok(e) /\ pc[e][t] = "run" /\ pc' = [pc EXCEPT ![e][t] = "activate"]
        /\ UNCHANGED <<sess, active, jingle, transport, hungup, reg, sent, got, net, fault>>
    BY DEF StartRun, At, Goto
  <1>2. TypeOK'
    BY <1>1 DEF IInv, TypeOK, StartRun, StartSteps
  <1>3. \A d \in End : d # e => Same(d)
    BY <1>1 DEF IInv, TypeOK, Same, StartRun
  <1>4. SideInv(e)'
    <2>0. ~active[e] /\ sess[e] # "closed" /\ \A u \in Threads : pc[e][u] \notin CloseSteps
      BY <1>1 DEF IInv, SideInv, StartInv, CloseInv, StartSteps, AnswerSteps
    <2>1. FreshInv(e)'
      BY <1>1 DEF IInv, SideInv, TypeOK, FreshInv
    <2>2. StartInv(e)'
      BY <1>1 DEF IInv, SideInv, TypeOK, StartInv, Starter, StartSteps, Threads, AnswerSteps
    <2>3. CloseInv(e)'
      <3>1. \A u \in Threads : pc'[e][u] \notin CloseSteps
        BY <1>1, <2>0 DEF IInv, TypeOK, CloseSteps
      <3>2. (Gone(e)' <=> Gone(e)) /\ (Unheard(e)' <=> Unheard(e))
        BY <1>1, <2>0, <3>1 DEF Gone, CloseSteps, Unheard
      <3>3. \A u \in Threads : pc'[e][u] \notin Joined /\ pc'[e][u] # "unlink"
        BY <3>1 DEF CloseSteps, Joined
      <3>4. listening'[e] <=> sess'[e] # "none" /\ ~Unheard(e)'
        BY <1>1, <3>2 DEF IInv, SideInv, CloseInv
      <3> QED
        BY <1>1, <2>0, <3>1, <3>3, <3>4 DEF CloseInv, Threads
    <2>4. CandInv(e)'
      BY <1>1 DEF IInv, SideInv, TypeOK, CandInv, Engaged, Called, StartInv, Threads, StartSteps,
                  Starter, End, AnswerSteps, Gone
    <2>5. FlagInv(e)'
      BY <1>1 DEF IInv, SideInv, TypeOK, FlagInv, Engaged, Called, Threads, ReceiveSteps, End,
                  Storing, Answering
    <2> QED
      BY <2>1, <2>2, <2>3, <2>4, <2>5 DEF SideInv
  <1>5. Silent
    BY <1>1 DEF IInv, TypeOK, SideInv, StartInv, Starter, Silent, LocalStep, HasAnswered, Called,
                ReceiveSteps, StartSteps, Ok, End, Threads, AnswerSteps, Answering, Replying
  <1> QED
    BY <1>2, <1>3, <1>4, <1>5, Combined, SilentKept

\* The session becomes active.
LEMMA StartActivateInv ==
    ASSUME IInv, NEW e \in End, NEW t \in Threads, StartActivate(e, t)
    PROVE  IInv'
  <1> USE DEF session, jingle, transport
  <1>1. /\ Ok(e) /\ pc[e][t] = "activate" /\ pc' = [pc EXCEPT ![e][t] = "notify"]
        /\ active' = [active EXCEPT ![e] = TRUE]
        /\ UNCHANGED <<sess, runbit, worker, jingle, transport, hungup, reg, sent, got, net, fault>>
    BY DEF StartActivate, At, Goto
  <1>2. TypeOK'
    BY <1>1 DEF IInv, TypeOK, StartSteps
  <1>3. \A d \in End : d # e => Same(d)
    BY <1>1 DEF IInv, TypeOK, Same
  <1>4. SideInv(e)'
    <2>0. ~active[e] /\ sess[e] # "closed" /\ \A u \in Threads : pc[e][u] \notin CloseSteps
      BY <1>1 DEF IInv, SideInv, StartInv, CloseInv, StartSteps, AnswerSteps
    <2>1. FreshInv(e)'
      BY <1>1 DEF IInv, SideInv, TypeOK, FreshInv
    <2>2. StartInv(e)'
      <3>1. t = Starter(e) /\ sess[e] # "none" /\ active'[e] /\ pc'[e][t] = "notify"
        BY <1>1 DEF IInv, SideInv, TypeOK, StartInv, StartSteps, AnswerSteps
      <3> QED
        BY <1>1, <3>1 DEF IInv, SideInv, TypeOK, StartInv, StartSteps, AnswerSteps
    <2>3. CloseInv(e)'
      <3>1. \A u \in Threads : pc'[e][u] \notin CloseSteps
        BY <1>1, <2>0 DEF IInv, TypeOK, CloseSteps
      <3>2. (Gone(e)' <=> Gone(e)) /\ (Unheard(e)' <=> Unheard(e))
        BY <1>1, <2>0, <3>1 DEF Gone, CloseSteps, Unheard
      <3>3. \A u \in Threads : pc'[e][u] \notin Joined /\ pc'[e][u] # "unlink"
        BY <3>1 DEF CloseSteps, Joined
      <3>4. listening'[e] <=> sess'[e] # "none" /\ ~Unheard(e)'
        BY <1>1, <3>2 DEF IInv, SideInv, CloseInv
      <3> QED
        BY <1>1, <2>0, <3>1, <3>3, <3>4 DEF CloseInv, Threads
    <2>4. CandInv(e)'
      BY <1>1 DEF IInv, SideInv, TypeOK, CandInv, Engaged, Called, StartInv, Threads, StartSteps,
                  Starter, End, AnswerSteps, Gone
    <2>5. FlagInv(e)'
      BY <1>1 DEF IInv, SideInv, TypeOK, FlagInv, Engaged, Called, Threads, ReceiveSteps, End,
                  Storing, Answering
    <2> QED
      BY <2>1, <2>2, <2>3, <2>4, <2>5 DEF SideInv
  <1>5. Silent
    BY <1>1 DEF IInv, TypeOK, SideInv, StartInv, Starter, Silent, LocalStep, HasAnswered, Called,
                ReceiveSteps, StartSteps, Ok, End, Threads, AnswerSteps, Answering, Replying
  <1> QED
    BY <1>2, <1>3, <1>4, <1>5, Combined, SilentKept

\* "session-activate" at the callee
LEMMA CalleeNotifyInv ==
    ASSUME IInv, NEW t \in Threads, StartNotify("callee", t)
    PROVE  IInv'
  <1> USE DEF session, jingle, transport
  <1> DEFINE e == "callee"
  <1>1. /\ e \in End /\ Ok(e) /\ pc[e][t] = "notify"
        /\ pc' = [pc EXCEPT ![e][t] = IF listening[e] THEN "info" ELSE "idle"]
        /\ UNCHANGED <<session, state, listening, transport, hungup, reg, sent, got, fault>>
    BY DEF StartNotify, At, Goto, End
  <1>2. t = "bus" /\ sess[e] # "none" /\ active[e] /\ state[e] = "INCOMING"
    BY <1>1 DEF IInv, TypeOK, SideInv, StartInv, StartSteps, Starter, AnswerSteps
  <1>3. UNCHANGED <<cr0, net>>
    BY <1>2 DEF StartNotify
  <1>4. TypeOK'
    BY <1>1, <1>3 DEF IInv, TypeOK, StartSteps
  <1>5. \A d \in End : d # e => Same(d)
    BY <1>1, <1>3 DEF IInv, TypeOK, Same
  <1>6. SideInv(e)'
    <2>0. /\ pc'[e]["bus"] = (IF listening[e] THEN "info" ELSE "idle") /\ pc'[e]["ui"] = pc[e]["ui"]
          /\ pc[e]["bus"] = "notify" /\ Starter(e) = "bus"
      BY <1>1, <1>2 DEF IInv, TypeOK, Threads, Starter
    <2>1. FreshInv(e)'
      BY <1>1, <1>2 DEF FreshInv
    <2>2. StartInv(e)'
      BY <1>1, <1>2, <2>0 DEF IInv, SideInv, StartInv, StartSteps, Threads, AnswerSteps
    <2>3. CloseInv(e)'
      <3>1. (Gone(e)' <=> Gone(e)) /\ (Unheard(e)' <=> Unheard(e))
        BY <1>1, <2>0 DEF Gone, Threads, Unheard
      <3> QED
        BY <1>1, <1>2, <1>3, <2>0, <3>1 DEF IInv, SideInv, CloseInv, CloseSteps, Joined, Threads
    <2>4. CandInv(e)'
      BY <1>1, <1>2, <2>0 DEF IInv, SideInv, CandInv, Engaged, StartSteps, Gone, Threads
    <2>5. FlagInv(e)'
      BY <1>1, <1>2, <1>3, <2>0 DEF IInv, SideInv, FlagInv, Engaged, ReceiveSteps, Storing,
                                    Answering
    <2> QED
      BY <2>1, <2>2, <2>3, <2>4, <2>5 DEF SideInv
  <1>7. Silent
    BY <1>1, <1>2, <1>3 DEF IInv, TypeOK, Silent, LocalStep, HasAnswered, Called, Ok, End,
                            Threads, StartSteps, Answering, Replying, AnswerSteps
  <1> QED
    BY <1>1, <1>4, <1>5, <1>6, <1>7, Combined, SilentKept

\* "session-activate" at the caller: session-initiate is the first message.
LEMMA CallerNotifyInv ==
    ASSUME IInv, NEW t \in Threads, StartNotify("caller", t)
    PROVE  IInv'
  <1> USE DEF session, jingle, transport
  <1> DEFINE e == "caller"
             m == [action |-> "session-initiate", cands |-> {}]
  <1>1. e \in End /\ Ok(e) /\ pc[e][t] = "notify"
    BY DEF StartNotify, At, End
  <1>2. t = "ui" /\ sess[e] # "none" /\ active[e] /\ state[e] = "OUTCOMING" /\ ~Called
    BY <1>1 DEF IInv, TypeOK, SideInv, StartInv, StartSteps, Starter, Called, AnswerSteps
  <1>3. /\ net["caller"] = <<>> /\ net["callee"] = <<>> /\ sess["callee"] = "none"
        /\ pc[e]["bus"] = "idle" /\ cr0[e] = {}
    BY <1>2 DEF IInv, LinkInv, QuietInv
  <1>4. ice[e] = "off" /\ sess[e] # "closed"
    BY <1>1, <1>2 DEF IInv, SideInv, CandInv, CloseInv, Engaged
  <1>5. listening[e] /\ ~Gone(e)
    BY <1>1, <1>2, <1>3, <1>4 DEF IInv, SideInv, CloseInv, Gone, Threads, Unheard
  <1>6. /\ pc' = [pc EXCEPT ![e][t] = "info"] /\ cr0' = [cr0 EXCEPT ![e] = {"PENDING"}]
        /\ net' = [net EXCEPT !["callee"] = Append(@, m)]
        /\ UNCHANGED <<session, state, listening, transport, hungup, reg, sent, got, fault>>
    BY <1>2, <1>5, Sides DEF StartNotify, Goto, SendTo
  <1>7. m \in Messages /\ m.action = "session-initiate"
    BY DEF Messages, Actions
  <1> HIDE DEF m
  <1>8. /\ net'["callee"] = Append(<<>>, m) /\ net'["caller"] = <<>> /\ <<>> \in Seq(Messages)
        /\ net \in [End -> Seq(Messages)]
    BY <1>3, <1>6 DEF IInv, TypeOK, End
  <1>9. /\ net'["callee"] \in Seq(Messages) /\ net'["callee"] # <<>> /\ net'["callee"][1] = m
        /\ \A a : Has(net'["callee"], a) => a = "session-initiate"
    <2>1. /\ Append(<<>>, m) \in Seq(Messages) /\ Append(<<>>, m) # <<>> /\ Append(<<>>, m)[1] = m
          /\ \A a : Has(Append(<<>>, m), a) <=> Has(<<>>, a) \/ m.action = a
      BY <1>7, <1>8, SentProperties
    <2>2. \A a : ~Has(<<>>, a)
      BY DEF Has
    <2> QED
      BY <1>7, <1>8, <2>1, <2>2
  <1>10. TypeOK'
    <2>1. net' \in [End -> Seq(Messages)]
      BY <1>6, <1>8, <1>9 DEF End
    <2>2. cr0' \in [End -> SUBSET Flags]
      BY <1>6 DEF IInv, TypeOK, Flags
    <2> QED
      BY <1>1, <1>6, <2>1, <2>2 DEF IInv, TypeOK, StartSteps
  <1>11. \A d \in End : d # e => Same(d)
    BY <1>6 DEF IInv, TypeOK, Same
  <1>12. SideInv(e)'
    <2>0. /\ pc'[e]["ui"] = "info" /\ pc'[e]["bus"] = "idle" /\ pc[e]["ui"] = "notify"
          /\ cr0'[e] = {"PENDING"} /\ Starter(e) = "ui"
      BY <1>1, <1>2, <1>3, <1>6 DEF IInv, TypeOK, Threads, Starter
    <2>1. FreshInv(e)'
      BY <1>2, <1>6 DEF FreshInv
    <2>2. StartInv(e)'
      BY <1>2, <1>6, <2>0 DEF IInv, SideInv, StartInv, StartSteps, Threads, AnswerSteps
    <2>3. CloseInv(e)'
      <3>1. ~Unheard(e)'
        BY <1>4, <1>6, <2>0 DEF Threads, Unheard
      <3> QED
        BY <1>2, <1>4, <1>5, <1>6, <2>0, <3>1 DEF CloseInv, CloseSteps, Joined, Threads
    <2>4. CandInv(e)'
      BY <1>1, <1>4, <1>6, <2>0 DEF IInv, SideInv, CandInv, StartSteps, Gone, Threads
    <2>5. FlagInv(e)'
      <3>1. \A f \in {"RUNNING", "REMOTE_CANDIDATE"} : f \notin cr0'[e]
        BY <2>0
      <3> QED
        BY <1>1, <1>6, <2>0, <3>1 DEF IInv, SideInv, FlagInv, ReceiveSteps, Storing, Answering
    <2> QED
      BY <2>1, <2>2, <2>3, <2>4, <2>5 DEF SideInv
  <1>13. Called' /\ sess'["callee"] = "none" /\ pc'["caller"]["bus"] = "idle"
    BY <1>1, <1>2, <1>3, <1>6 DEF IInv, TypeOK, Called, End, Threads
  <1>14. ~listening'["callee"] /\ pc'["callee"]["bus"] = "idle"
    <2>1. ~listening["callee"]
      BY <1>3 DEF IInv, SideInv, CloseInv, End
    <2>2. pc["callee"]["bus"] = "idle"
      BY <1>3 DEF IInv, TypeOK, End, Threads
    <2> QED
      BY <1>6, <2>1, <2>2 DEF IInv, TypeOK, End
  <1>15. QuietInv'
    BY <1>7, <1>8, <1>9, <1>13, <1>14 DEF QuietInv
  <1>16. /\ "RUNNING" \notin cr0'["caller"] /\ \A u \in Threads : "RUNNING" \notin reg'["caller"][u]
         /\ ~Has(net'["caller"], "session-accept") /\ Ordered(net'["caller"])
    <2>1. "RUNNING" \notin cr0'["caller"]
      BY <1>1, <1>6 DEF IInv, TypeOK
    <2>2. pc["callee"]["bus"] = "idle"
      BY <1>3 DEF IInv, TypeOK, End, Threads
    <2>3. ~HasAnswered
      BY <1>3, <2>2 DEF IInv, SideInv, FreshInv, HasAnswered, End, Answering
    <2>4. \A u \in Threads : "RUNNING" \notin reg'["caller"][u]
      BY <1>6, <2>3 DEF IInv, LinkInv, AnswerInv
    <2> QED
      BY <1>8, <2>1, <2>4 DEF Has, Ordered
  <1>17. AnswerInv' /\ AddressInv'
    BY <1>13, <1>14, <1>16 DEF AnswerInv, AddressInv, Replying, AnswerSteps
  <1>18. TerminateInv'
    <2>1. \A d \in End : ~Has(net'[d], "session-terminate")
      BY <1>8, <1>9 DEF Has, End
    <2> QED
      BY <2>1, Sides DEF TerminateInv
  <1> QED
    BY <1>1, <1>10, <1>11, <1>12, <1>15, <1>17, <1>18, Combined DEF LinkInv

\* The caller's candidates are sent.
LEMMA CallerInfoInv ==
    ASSUME IInv, NEW t \in Threads, StartInfo("caller", t)
    PROVE  IInv'
  <1> USE DEF session, jingle, transport
  <1> DEFINE e == "caller"
             m == [action |-> "transport-info", cands |-> local[e]]
  <1>1. /\ e \in End /\ Ok(e) /\ pc[e][t] = "info"
        /\ UNCHANGED <<session, jingle, transport, hungup, reg, got>>
    BY DEF StartInfo, At, End
  <1>2. t = "ui" /\ sess[e] # "none" /\ active[e] /\ state[e] = "OUTCOMING" /\ Called
    BY <1>1 DEF IInv, TypeOK, SideInv, StartInv, StartSteps, Starter, Called
  <1>3. /\ \/ /\ Gone(e) /\ net' = net /\ sent' = sent
              /\ \E f \in {"late", "torn"} : fault' = [fault EXCEPT ![e] = @ \cup {f}]
           \/ /\ ~Gone(e) /\ fault' = fault /\ net' = [net EXCEPT ![Peer(e)] = Append(@, m)]
              /\ sent' = [sent EXCEPT ![e] = @ \cup local[e]]
        /\ pc' = [pc EXCEPT ![e][t] = "idle"]
    BY <1>2 DEF StartInfo, UsesGone, Fault, SendTo, Goto, GotoAnswer
  <1>4. cr0' = cr0
    BY <1>1
  <1>5. m \in Messages /\ m.action = "transport-info"
    BY <1>1 DEF IInv, TypeOK, Messages, Actions
  <1> HIDE DEF m
  <1>6. TypeOK'
    <2>1. fault' \in [End -> SUBSET Faults]
      <3>1. {"late", "torn", "rejoin", "nothread", "cell", "tree"} \subseteq Faults /\ TypeOK
        BY DEF IInv, Faults
      <3>2. fault \in [End -> SUBSET Faults]
        BY <3>1 DEF TypeOK
      <3> QED
        BY <1>1, <1>3, <3>1, <3>2, FaultNoted
    <2>2. net' \in [End -> Seq(Messages)]
      <3>1. net \in [End -> Seq(Messages)] /\ Peer(e) \in End
        BY <1>1, Sides DEF IInv, TypeOK
      <3>2. Append(net[Peer(e)], m) \in Seq(Messages)
        BY <1>5, <3>1, SentProperties
      <3> QED
        BY <1>3, <3>1, <3>2
    <2>3. sent' \in [End -> SUBSET Cand]
      BY <1>1, <1>3 DEF IInv, TypeOK
    <2> QED
      BY <1>1, <1>3, <2>1, <2>2, <2>3 DEF IInv, TypeOK
  <1>7. \A d \in End : d # e => Same(d)
    BY <1>1, <1>3, <1>4 DEF IInv, TypeOK, Same
  <1>8. SideInv(e)'
    <2>0. /\ pc'[e]["bus"] = pc[e]["bus"] /\ pc'[e]["ui"] = "idle"
          /\ pc[e]["ui"] = "info" /\ Starter(e) = "ui" /\ Called'
      BY <1>1, <1>2, <1>3 DEF IInv, TypeOK, Threads, Starter, Called
    <2>1. FreshInv(e)'
      BY <1>1, <1>2 DEF FreshInv
    <2>2. StartInv(e)'
      BY <1>1, <1>2, <2>0 DEF IInv, SideInv, StartInv, StartSteps, Threads, AnswerSteps
    <2>3. CloseInv(e)'
      <3>1. (Gone(e)' <=> Gone(e)) /\ (Unheard(e)' <=> Unheard(e))
        BY <1>1, <2>0 DEF Gone, Threads, Unheard
      <3> QED
        BY <1>1, <1>2, <1>4, <2>0, <3>1 DEF IInv, SideInv, CloseInv, CloseSteps, Joined, Threads
    <2>4. CandInv(e)'
      <3>1. listening'[e] => local'[e] \subseteq sent'[e]
        <4>1. CASE Gone(e)
          BY <1>1, <4>1 DEF IInv, SideInv, CloseInv, Gone, Unheard
        <4>2. CASE ~Gone(e)
          BY <1>1, <1>3, <4>2 DEF IInv, TypeOK
        <4> QED
          BY <4>1, <4>2
      <3>2. Gone(e)' <=> Gone(e)
        BY <1>1, <2>0 DEF Gone, Threads
      <3> QED
        BY <1>1, <2>0, <3>1, <3>2 DEF IInv, SideInv, CandInv, Engaged
    <2>5. FlagInv(e)'
      BY <1>1, <1>2, <1>4, <2>0 DEF IInv, SideInv, FlagInv, Engaged, ReceiveSteps, Storing,
                                    Answering
    <2> QED
      BY <2>1, <2>2, <2>3, <2>4, <2>5 DEF SideInv
  <1>9. LocalStep
    <2>1. Ok("caller")' => Ok("caller")
      BY <1>1
    <2> QED
      BY <1>1, <1>2, <1>3, <1>4, <2>1 DEF IInv, TypeOK, LocalStep, HasAnswered, Called, End, Threads,
                                    Answering, Replying, AnswerSteps, StartSteps
  <1>10. LinkInv'
    <2>1. CASE Gone(e)
      BY <1>3, <1>9, <2>1, SilentKept DEF Silent
    <2>2. CASE ~Gone(e)
      BY <1>1, <1>2, <1>3, <1>5, <1>9, <2>2, SendKept DEF Engaged
    <2> QED
      BY <2>1, <2>2
  <1> QED
    BY <1>1, <1>6, <1>7, <1>8, <1>10, Combined

\* The callee's candidates are sent.
LEMMA CalleeInfoInv ==
    ASSUME IInv, NEW t \in Threads, StartInfo("callee", t)
    PROVE  IInv'
  <1> USE DEF session, jingle, transport
  <1> DEFINE e == "callee"
             m == [action |-> "transport-info", cands |-> local[e]]
  <1>1. /\ e \in End /\ "caller" \in End /\ Ok(e) /\ pc[e][t] = "info"
        /\ UNCHANGED <<session, jingle, transport, hungup, reg, got>>
    BY DEF StartInfo, At, End
  <1>2. t = "bus" /\ sess[e] # "none" /\ active[e] /\ state[e] = "INCOMING" /\ pc[e]["bus"] = "info"
    BY <1>1 DEF IInv, TypeOK, SideInv, StartInv, StartSteps, Starter
  <1>3. \/ /\ Gone(e) /\ net' = net /\ sent' = sent /\ pc' = [pc EXCEPT ![e]["bus"] = "idle"]
           /\ \E f \in {"late", "torn"} : fault' = [fault EXCEPT ![e] = @ \cup {f}]
        \/ /\ ~Gone(e) /\ fault' = fault /\ net' = [net EXCEPT !["caller"] = Append(@, m)]
           /\ sent' = [sent EXCEPT ![e] = @ \cup local[e]] /\ pc' = [pc EXCEPT ![e]["bus"] = "answer"]
    BY <1>2, Sides DEF StartInfo, UsesGone, Fault, SendTo, Goto, GotoAnswer
  <1>4. /\ m \in Messages /\ m.action = "transport-info" /\ (~Gone(e) => Names(m))
        /\ net \in [End -> Seq(Messages)]
    <2>1. ~Gone(e) => Host[e] # {} /\ Host[e] \subseteq local[e]
      BY <1>1, <1>2, CandAssumption DEF IInv, SideInv, CandInv
    <2> QED
      BY <1>1, <2>1 DEF IInv, TypeOK, Messages, Actions, Names
  <1> HIDE DEF m
  <1>5. Append(net["caller"], m) \in Seq(Messages) /\ (~Gone(e) => Named(Append(net["caller"], m)))
    BY <1>1, <1>4, SentProperties
  <1>6. /\ pc'[e]["bus"] \in {"idle", "answer"} /\ (Gone(e) => pc'[e]["bus"] = "idle")
        /\ pc'[e]["ui"] = pc[e]["ui"] /\ Starter(e) = "bus" /\ pc'["caller"] = pc["caller"]
    BY <1>1, <1>2, <1>3 DEF IInv, TypeOK, Threads, Starter
  <1>7. TypeOK'
    <2>1. fault' \in [End -> SUBSET Faults]
      <3>1. {"late", "torn"} \subseteq Faults /\ TypeOK /\ fault \in [End -> SUBSET Faults]
        BY DEF IInv, TypeOK, Faults
      <3> QED
        BY <1>1, <1>3, <3>1, FaultNoted
    <2>2. net' \in [End -> Seq(Messages)]
      BY <1>3, <1>4, <1>5
    <2>3. sent' \in [End -> SUBSET Cand]
      <3>1. sent \in [End -> SUBSET Cand] /\ sent[e] \cup local[e] \in SUBSET Cand
        BY <1>1 DEF IInv, TypeOK
      <3> QED
        BY <1>3, <3>1
    <2>4. /\ pc' \in [End -> [Threads -> {"idle"} \cup StartSteps \cup ReceiveSteps \cup AnswerSteps
                                      \cup CloseSteps]]
          /\ \A d \in End, u \in Threads : pc'[d][u] # "idle" => sess'[d] # "none"
      <3>1. CASE pc' = [pc EXCEPT ![e]["bus"] = "idle"]
        BY <1>1, <1>2, <3>1 DEF IInv, TypeOK
      <3>2. CASE pc' = [pc EXCEPT ![e]["bus"] = "answer"]
        BY <1>1, <1>2, <3>2 DEF IInv, TypeOK, AnswerSteps
      <3> QED
        BY <1>3, <3>1, <3>2
    <2> QED
      BY <1>1, <2>1, <2>2, <2>3, <2>4 DEF IInv, TypeOK
  <1>8. \A d \in End : d # e => Same(d)
    BY <1>1, <1>3 DEF IInv, TypeOK, Same
  <1>9. SideInv(e)'
    <2>0. (Gone(e)' <=> Gone(e)) /\ (Unheard(e)' <=> Unheard(e))
      BY <1>1, <1>2, <1>6 DEF Gone, Unheard, Threads
    <2>1. FreshInv(e)'
      BY <1>1, <1>2 DEF FreshInv
    <2>2. StartInv(e)'
      BY <1>1, <1>2, <1>6 DEF IInv, SideInv, StartInv, StartSteps, AnswerSteps, Threads
    <2>3. CloseInv(e)'
      BY <1>1, <1>2, <1>6, <2>0 DEF IInv, SideInv, CloseInv, CloseSteps, Joined, Threads
    <2>4. CandInv(e)'
      <3>1. listening'[e] => local'[e] \subseteq sent'[e]
        <4>1. CASE Gone(e)
          BY <1>1, <4>1 DEF IInv, SideInv, CloseInv, Gone, Unheard
        <4>2. CASE ~Gone(e)
          BY <1>1, <1>3, <4>2 DEF IInv, TypeOK
        <4> QED
          BY <4>1, <4>2
      <3> QED
        BY <1>1, <2>0, <3>1 DEF IInv, SideInv, CandInv, Engaged
    <2>5. FlagInv(e)'
      BY <1>1, <1>6 DEF IInv, SideInv, FlagInv, Engaged, ReceiveSteps, Storing, Answering
    <2> QED
      BY <2>1, <2>2, <2>3, <2>4, <2>5 DEF SideInv
  <1>10. LocalStep
    <2>1. Ok("caller")' => Ok("caller")
      BY <1>3 DEF Ok, IInv, TypeOK, End
    <2>2. Gone(e) => ~listening'[e]
      BY <1>1 DEF IInv, SideInv, CloseInv, Gone, Unheard
    <2>3. ~Gone(e) => Named(net'["caller"])
      BY <1>1, <1>3, <1>4, <1>5
    <2>4. HasAnswered => HasAnswered'
      BY <1>1, <1>2 DEF HasAnswered, Answering
    <2> QED
      BY <1>1, <1>2, <1>6, <2>1, <2>2, <2>3, <2>4 DEF LocalStep, Called, Replying, AnswerSteps, StartSteps
  <1>11. LinkInv'
    <2>1. CASE Gone(e)
      BY <1>3, <1>10, <2>1, SilentKept DEF Silent
    <2>2. CASE ~Gone(e)
      <3>1. Engaged(e) /\ net' = [net EXCEPT ![Peer(e)] = Append(@, m)]
        BY <1>1, <1>2, <1>3, <2>2, Sides DEF Engaged
      <3> QED
        BY <1>1, <1>4, <1>10, <3>1, SendKept
    <2> QED
      BY <2>1, <2>2
  <1> QED
    BY <1>1, <1>7, <1>8, <1>9, <1>11, Combined

-----------------------------------------------------------------------------
(* Answering a call. *)

\* A step of the bus thread of the callee on the way to the answer
ReplyStep ==
    /\ Ok("callee") /\ pc["callee"]["bus"] \in Replying
    /\ pc' = [pc EXCEPT !["callee"]["bus"] = pc'["callee"]["bus"]]
    /\ pc'["callee"]["bus"] \in {"idle"} \cup AnswerSteps
    /\ cr0' = [cr0 EXCEPT !["callee"] = cr0'["callee"]]
    /\ cr0'["callee"] \in (SUBSET Flags) \ {{}}
    /\ reg' = [reg EXCEPT !["callee"]["bus"] = reg'["callee"]["bus"]]
    /\ reg'["callee"]["bus"] \in SUBSET Flags
    /\ fault' = [fault EXCEPT !["callee"] = fault'["callee"]]
    /\ fault'["callee"] \in SUBSET Faults
    /\ \A f \in {"RUNNING", "REMOTE_CANDIDATE"} :
           f \in cr0'["callee"] \cup reg'["callee"]["bus"] => got["callee"] # {}
    /\ Answering("callee")' => got["callee"] # {}
    /\ pc'["callee"]["bus"] = "store-answer" => reg'["callee"]["bus"] = cr0'["callee"]
    /\ HasAnswered => HasAnswered'
    /\ net' \in [End -> Seq(Messages)]
    /\ UNCHANGED <<session, state, listening, transport, hungup, sent, got>>

\* Such a step keeps what the invariant says of the callee.
LEMMA ReplyMoved ==
    ASSUME IInv, ReplyStep
    PROVE  /\ TypeOK' /\ SideInv("callee")' /\ LocalStep /\ Engaged("callee")
           /\ \A d \in End : d # "callee" => Same(d)
  <1> USE DEF session, transport, ReplyStep
  <1> DEFINE e == "callee"
             to == pc'["callee"]["bus"]
             c == cr0'["callee"]
             r == reg'["callee"]["bus"]
  <1>1. /\ e \in End /\ "caller" \in End /\ sess[e] # "none" /\ pc'[e]["bus"] = to
        /\ pc'[e]["ui"] = pc[e]["ui"] /\ Starter(e) = "bus"
        /\ cr0'[e] = c /\ reg'[e]["bus"] = r /\ reg'[e]["ui"] = reg[e]["ui"]
    BY DEF IInv, TypeOK, End, Threads, Starter, Replying, AnswerSteps
  <1>2. \A d \in End : d # e => Same(d)
    BY DEF IInv, TypeOK, Same
  <1>3. TypeOK'
    <2> DEFINE x == fault'["callee"]
    <2>0. /\ to \in {"idle"} \cup AnswerSteps /\ c \in SUBSET Flags /\ r \in SUBSET Flags
          /\ x \in SUBSET Faults /\ pc' = [pc EXCEPT ![e]["bus"] = to]
          /\ cr0' = [cr0 EXCEPT ![e] = c] /\ reg' = [reg EXCEPT ![e]["bus"] = r]
          /\ fault' = [fault EXCEPT ![e] = x] /\ sess' = sess
      OBVIOUS
    <2> HIDE DEF to, c, r, x, ReplyStep
    <2>1. /\ cr0' \in [End -> SUBSET Flags] /\ reg' \in [End -> [Threads -> SUBSET Flags]]
          /\ fault' \in [End -> SUBSET Faults]
      BY <2>0 DEF IInv, TypeOK
    <2>2. /\ pc' \in [End -> [Threads -> {"idle"} \cup StartSteps \cup ReceiveSteps \cup AnswerSteps
                                      \cup CloseSteps]]
          /\ \A d \in End, u \in Threads : pc'[d][u] # "idle" => sess'[d] # "none"
      <3>1. pc \in [End -> [Threads -> {"idle"} \cup StartSteps \cup ReceiveSteps \cup AnswerSteps
                                     \cup CloseSteps]]
        BY DEF IInv, TypeOK
      <3>2. \A d \in End, u \in Threads : pc[d][u] # "idle" => sess[d] # "none"
        BY DEF IInv, TypeOK
      <3>3. \A d \in End : d # e => pc'[d] = pc[d]
        BY <2>0, <3>1
      <3>4. pc' \in [End -> [Threads -> {"idle"} \cup StartSteps \cup ReceiveSteps \cup AnswerSteps
                                      \cup CloseSteps]]
        BY <2>0, <3>1
      <3>5. ASSUME NEW d \in End, NEW u \in Threads, pc'[d][u] # "idle"
            PROVE  sess'[d] # "none"
        <4>1. CASE d = e
          BY <1>1, <2>0, <4>1
        <4>2. CASE d # e
          BY <2>0, <3>2, <3>3, <3>5, <4>2
        <4> QED
          BY <4>1, <4>2
      <3> QED
        BY <3>4, <3>5
    <2> QED
      BY <2>1, <2>2 DEF IInv, TypeOK, ReplyStep
  <1>4. SideInv(e)'
    <2>0. (Gone(e)' <=> Gone(e)) /\ (Unheard(e)' <=> Unheard(e))
      BY <1>1 DEF Gone, Unheard, Threads, Replying, AnswerSteps
    <2>1. FreshInv(e)'
      BY <1>1 DEF FreshInv
    <2>2. StartInv(e)'
      BY <1>1 DEF IInv, SideInv, StartInv, StartSteps, AnswerSteps, Replying, Threads
    <2>3. CloseInv(e)'
      BY <1>1, <2>0 DEF IInv, SideInv, CloseInv, CloseSteps, Joined, Threads, Replying, AnswerSteps
    <2>4. CandInv(e)'
      BY <1>1, <2>0 DEF IInv, SideInv, CandInv, Engaged, StartSteps, Replying, AnswerSteps
    <2>5. FlagInv(e)'
      <3>1. pc'[e]["bus"] \in Storing => to = "store-answer"
        BY <1>1 DEF Storing, ReceiveSteps, AnswerSteps
      <3>2. \A f \in {"RUNNING", "REMOTE_CANDIDATE"} :
                f \in cr0'[e] \/ (\E t \in Threads : f \in reg'[e][t]) => got'[e] # {}
        BY <1>1 DEF IInv, SideInv, FlagInv, Threads
      <3> QED
        BY <1>1, <3>1, <3>2 DEF FlagInv
    <2> QED
      BY <2>1, <2>2, <2>3, <2>4, <2>5 DEF SideInv
  <1>5. LocalStep
    <2>1. Same("caller")
      BY <1>1, <1>2
    <2> QED
      BY <1>1, <2>1 DEF LocalStep, Same, Called, Ok, Replying, AnswerSteps, StartSteps
  <1> QED
    BY <1>1, <1>2, <1>3, <1>4, <1>5 DEF Engaged

\* The callee answers: an address of its own is on the way before
\* session-accept.
LEMMA AnswerSendInv ==
    ASSUME IInv, NEW e \in End, NEW t \in Threads, Answer(e, t)
    PROVE  IInv'
  <1> USE DEF session, jingle, transport
  <1> DEFINE a == [action |-> "session-accept", cands |-> {}]
             c == cr0["callee"]
             r == reg["callee"]["bus"]
  <1>1. /\ Ok(e) /\ pc[e][t] = "answer"
        /\ UNCHANGED <<session, jingle, transport, hungup, reg, sent, got>>
    BY DEF Answer, At
  <1>2. e = "callee" /\ t = "bus" /\ e \in End /\ "caller" \in End /\ pc[e]["bus"] \in Replying
    BY <1>1 DEF IInv, SideInv, StartInv, AnswerSteps, Replying, End
  <1>3. /\ c \in SUBSET Flags /\ cr0' = [cr0 EXCEPT !["callee"] = c] /\ c # {}
        /\ r \in SUBSET Flags /\ reg' = [reg EXCEPT !["callee"]["bus"] = r]
        /\ \A f \in {"RUNNING", "REMOTE_CANDIDATE"} : f \in c \cup r => got["callee"] # {}
        /\ net \in [End -> Seq(Messages)] /\ fault \in [End -> SUBSET Faults]
    <2>1. sess["callee"] # "none"
      BY <1>1, <1>2 DEF IInv, TypeOK
    <2>2. c # {} /\ \A f \in {"RUNNING", "REMOTE_CANDIDATE"} : f \in c \cup r => got["callee"] # {}
      BY <1>2, <2>1 DEF IInv, SideInv, FlagInv, Engaged, Threads
    <2> QED
      BY <1>1, <1>2, <2>2 DEF IInv, TypeOK, Threads
  <1>4. a \in Messages /\ a.action = "session-accept"
    BY DEF Messages, Actions
  <1>5. CASE ~(MayAccept(cr0[e]) /\ ~Gone(e))
    <2> DEFINE x == fault'["callee"]
    <2>1. /\ pc' = [pc EXCEPT !["callee"]["bus"] = "idle"] /\ net' = net
          /\ (\E f \in {"late", "torn"} : fault' = [fault EXCEPT ![e] = @ \cup {f}]) \/ fault' = fault
      BY <1>2, <1>5 DEF Answer, UsesGone, Fault, Goto
    <2>2. x \in SUBSET Faults /\ fault' = [fault EXCEPT !["callee"] = x]
      BY <1>2, <1>3, <2>1 DEF Faults
    <2>3. pc'["callee"]["bus"] = "idle"
      BY <1>2, <2>1 DEF IInv, TypeOK, Threads
    <2>4. ~Answering("callee")' /\ (HasAnswered => HasAnswered')
      BY <1>1, <1>2, <2>3 DEF HasAnswered, Answering
    <2>5. ReplyStep
      BY <1>1, <1>2, <1>3, <2>1, <2>2, <2>3, <2>4 DEF ReplyStep
    <2>6. TypeOK' /\ SideInv("callee")' /\ LocalStep /\ \A d \in End : d # "callee" => Same(d)
      BY <2>5, ReplyMoved
    <2> QED
      BY <1>2, <2>1, <2>6, SilentKept, Combined DEF Silent
  <1>6. CASE MayAccept(cr0[e]) /\ ~Gone(e)
    <2> DEFINE x == fault["callee"]
    <2>1. /\ pc' = [pc EXCEPT !["callee"]["bus"] = "answered"] /\ fault' = fault
          /\ net' = [net EXCEPT ![Peer("callee")] = Append(@, a)]
      BY <1>2, <1>6 DEF Answer, UsesGone, Goto, SendTo
    <2>2. x \in SUBSET Faults /\ fault' = [fault EXCEPT !["callee"] = x] /\ "answered" \in AnswerSteps
      BY <1>2, <1>3, <2>1 DEF AnswerSteps
    <2>3. pc'["callee"]["bus"] = "answered"
      BY <1>2, <2>1 DEF IInv, TypeOK, Threads
    <2>4. got["callee"] # {} /\ HasAnswered'
      BY <1>2, <1>3, <1>6, <2>3 DEF MayAccept, HasAnswered, Answering
    <2>5. net' \in [End -> Seq(Messages)]
      <3>1. Append(net[Peer("callee")], a) \in Seq(Messages)
        BY <1>2, <1>3, <1>4, Sides, SentProperties
      <3> QED
        BY <1>3, <2>1, <3>1
    <2> HIDE DEF a
    <2>6. /\ TypeOK' /\ SideInv("callee")' /\ LocalStep /\ Engaged("callee")
          /\ \A d \in End : d # "callee" => Same(d)
      <3>1. ReplyStep
        BY <1>1, <1>2, <1>3, <2>1, <2>2, <2>3, <2>4, <2>5 DEF ReplyStep
      <3> QED
        BY <3>1, ReplyMoved
    <2>7. LinkInv'
      BY <1>2, <1>4, <2>1, <2>4, <2>6, SendKept
    <2> QED
      BY <1>2, <2>6, <2>7, Combined
  <1> QED
    BY <1>5, <1>6

\* The flags are loaded after the answer was sent.
LEMMA AnswerLoadInv ==
    ASSUME IInv, NEW e \in End, NEW t \in Threads, AnswerLoad(e, t)
    PROVE  IInv'
  <1> USE DEF session, jingle, transport
  <1> DEFINE c == cr0["callee"]
             x == fault["callee"]
  <1>1. /\ Ok(e) /\ pc[e][t] = "answered" /\ reg' = [reg EXCEPT ![e][t] = cr0[e]]
        /\ pc' = [pc EXCEPT ![e][t] = "store-answer"]
        /\ UNCHANGED <<session, jingle, transport, hungup, sent, got, net, fault>>
    BY DEF AnswerLoad, At, Load, Goto
  <1>2. e = "callee" /\ t = "bus" /\ e \in End /\ pc[e]["bus"] \in Replying /\ Answering("callee")
    BY <1>1 DEF IInv, SideInv, StartInv, AnswerSteps, Replying, Answering
  <1>3. /\ c \in SUBSET Flags /\ cr0' = [cr0 EXCEPT !["callee"] = c] /\ c # {}
        /\ net' \in [End -> Seq(Messages)] /\ x \in SUBSET Faults /\ got["callee"] # {}
        /\ fault' = [fault EXCEPT !["callee"] = x] /\ "store-answer" \in AnswerSteps
    <2>1. sess["callee"] # "none"
      BY <1>1, <1>2 DEF IInv, TypeOK
    <2>2. c # {} /\ got["callee"] # {}
      BY <1>2, <2>1 DEF IInv, SideInv, FlagInv, Engaged
    <2> QED
      BY <1>1, <1>2, <2>2 DEF IInv, TypeOK, AnswerSteps
  <1>4. pc'["callee"]["bus"] = "store-answer" /\ reg'["callee"]["bus"] = c /\ HasAnswered'
    <2>1. pc'["callee"]["bus"] = "store-answer" /\ reg'["callee"]["bus"] = c
      BY <1>1, <1>2 DEF IInv, TypeOK, Threads
    <2> QED
      BY <2>1 DEF HasAnswered, Answering
  <1>5. TypeOK' /\ SideInv("callee")' /\ LocalStep /\ \A d \in End : d # "callee" => Same(d)
    <2>1. ReplyStep
      BY <1>1, <1>2, <1>3, <1>4 DEF ReplyStep
    <2> QED
      BY <2>1, ReplyMoved
  <1> QED
    BY <1>1, <1>2, <1>5, SilentKept, Combined DEF Silent

\* The call is marked as running.
LEMMA StoreAnswerInv ==
    ASSUME IInv, NEW e \in End, NEW t \in Threads, StoreAnswer(e, t)
    PROVE  IInv'
  <1> USE DEF session, transport
  <1> DEFINE c == (reg["callee"]["bus"] \ {"PENDING"}) \cup {"RUNNING"}
             x == fault["callee"]
  <1>1. /\ Ok(e) /\ pc[e][t] = "store-answer" /\ reg' = [reg EXCEPT ![e][t] = {}]
        /\ cr0' = [cr0 EXCEPT ![e] = (reg[e][t] \ {"PENDING"}) \cup {"RUNNING"}]
        /\ pc' = [pc EXCEPT ![e][t] = "idle"]
        /\ UNCHANGED <<session, state, listening, transport, hungup, sent, got, net, fault>>
    BY DEF StoreAnswer, At, Drop, Goto
  <1>2. e = "callee" /\ t = "bus" /\ e \in End /\ pc[e]["bus"] \in Replying /\ Answering("callee")
    BY <1>1 DEF IInv, SideInv, StartInv, AnswerSteps, Replying, Answering
  <1>3. /\ c \in SUBSET Flags /\ "RUNNING" \in c /\ c # {} /\ got["callee"] # {}
        /\ net' \in [End -> Seq(Messages)] /\ x \in SUBSET Faults
        /\ fault' = [fault EXCEPT !["callee"] = x]
    BY <1>1, <1>2 DEF IInv, TypeOK, SideInv, FlagInv, Flags, Threads
  <1>4. cr0' = [cr0 EXCEPT !["callee"] = c]
    BY <1>1, <1>2
  <1> HIDE DEF c
  <1>5. /\ pc'["callee"]["bus"] = "idle" /\ reg'["callee"]["bus"] = {} /\ cr0'["callee"] = c
        /\ HasAnswered'
    <2>1. pc'["callee"]["bus"] = "idle" /\ reg'["callee"]["bus"] = {} /\ cr0'["callee"] = c
      BY <1>1, <1>2, <1>4 DEF IInv, TypeOK, Threads
    <2> QED
      BY <1>3, <2>1 DEF HasAnswered
  <1>6. TypeOK' /\ SideInv("callee")' /\ LocalStep /\ \A d \in End : d # "callee" => Same(d)
    <2>1. ReplyStep
      BY <1>1, <1>2, <1>3, <1>4, <1>5 DEF ReplyStep
    <2> QED
      BY <2>1, ReplyMoved
  <1> QED
    BY <1>1, <1>2, <1>6, SilentKept, Combined DEF Silent

-----------------------------------------------------------------------------
(* Closing a session. *)

\* The user hangs up an active call.
LEMMA HangUpInv ==
    ASSUME IInv, NEW e \in End, HangUp(e)
    PROVE  IInv'
  <1> USE DEF session, jingle, transport
  <1>1. /\ "ui" \in Threads /\ Ok(e) /\ pc[e]["ui"] = "idle" /\ sess[e] = "open" /\ active[e]
        /\ hungup' = [hungup EXCEPT ![e] = TRUE] /\ pc' = [pc EXCEPT ![e]["ui"] = "stop"]
        /\ UNCHANGED <<reg, session, jingle, transport, sent, got, net, fault>>
    BY DEF HangUp, At, Goto, Threads
  <1>2. TypeOK'
    BY <1>1 DEF IInv, TypeOK, CloseSteps
  <1>3. \A d \in End : d # e => Same(d)
    BY <1>1 DEF IInv, TypeOK, Same
  <1>4. SideInv(e)'
    <2>1. FreshInv(e)'
      BY <1>1 DEF IInv, TypeOK, FreshInv
    <2>2. StartInv(e)'
      BY <1>1 DEF IInv, SideInv, TypeOK, StartInv, StartSteps, Threads, Starter, AnswerSteps
    <2>3. CloseInv(e)'
      BY <1>1 DEF IInv, SideInv, TypeOK, CloseInv, Gone, CloseSteps, Joined, Threads, Unheard
    <2>4. /\ pc[e]["bus"] = pc'[e]["bus"] /\ pc'[e]["ui"] = "stop" /\ (Gone(e)' <=> Gone(e))
          /\ (Engaged(e)' <=> Engaged(e))
      <3>1. pc[e]["bus"] = pc'[e]["bus"] /\ pc'[e]["ui"] = "stop"
        BY <1>1 DEF IInv, TypeOK, Threads
      <3>2. Gone(e)' <=> Gone(e)
        BY <1>1, <3>1 DEF Gone, Threads
      <3>3. Engaged(e)' <=> Engaged(e)
        BY <1>1, <3>1 DEF Engaged, Called
      <3> QED
        BY <3>1, <3>2, <3>3
    <2>5. CandInv(e)'
      BY <1>1, <2>4 DEF IInv, SideInv, CandInv, StartSteps, Starter
    <2>6. FlagInv(e)'
      <3>1. cr0' = cr0 /\ reg' = reg /\ got' = got /\ (hungup'[e])
        BY <1>1 DEF IInv, TypeOK
      <3> QED
        BY <2>4, <3>1 DEF IInv, SideInv, FlagInv, Answering
    <2> QED
      BY <2>1, <2>2, <2>3, <2>5, <2>6 DEF SideInv
  <1>5. Silent
    BY <1>1 DEF IInv, TypeOK, Silent, LocalStep, HasAnswered, Called, ReceiveSteps, StartSteps,
                Ok, End, Threads, Answering, Replying, AnswerSteps
  <1> QED
    BY <1>2, <1>3, <1>4, <1>5, Combined, SilentKept

\* The worker is told to stop.
LEMMA CloseStopInv ==
    ASSUME IInv, NEW e \in End, NEW t \in Threads, CloseStop(e, t)
    PROVE  IInv'
  <1> USE DEF session, jingle, transport
  <1>1. /\ Ok(e) /\ pc[e][t] = "stop"
        /\ pc' = [pc EXCEPT ![e][t] = "join"] /\ runbit' = [runbit EXCEPT ![e] = FALSE]
        /\ (\E f \in {"nothread", "rejoin"} : fault' = [fault EXCEPT ![e] = @ \cup {f}]) \/ fault' = fault
        /\ UNCHANGED <<sess, active, worker, jingle, transport, hungup, reg, sent, got, net>>
    BY DEF CloseStop, At, Goto, Fault
  <1>2. TypeOK'
    <2>1. fault' \in [End -> SUBSET Faults]
      <3>1. {"late", "torn", "rejoin", "nothread", "cell", "tree"} \subseteq Faults /\ TypeOK
        BY DEF IInv, Faults
      <3>2. fault \in [End -> SUBSET Faults]
        BY <3>1 DEF TypeOK
      <3> QED
        BY <1>1, <3>1, <3>2, FaultNoted
    <2> QED
      BY <1>1, <2>1 DEF IInv, TypeOK, CloseSteps
  <1>3. \A d \in End : d # e => Same(d)
    BY <1>1 DEF IInv, TypeOK, Same, Faults
  <1>4. SideInv(e)'
    <2>0. active[e] /\ sess[e] # "none" /\ t \in {"ui", "bus"} /\ Engaged(e)
      <3>1. active[e] /\ sess[e] # "none" /\ t \in {"ui", "bus"}
        BY <1>1 DEF IInv, SideInv, TypeOK, StartInv, CloseInv, CloseSteps, Threads
      <3> QED
        BY <1>1, <3>1 DEF IInv, LinkInv, QuietInv, Engaged, Called, End
    <2>1. FreshInv(e)'
      BY <1>1, <2>0 DEF IInv, TypeOK, FreshInv
    <2>2. StartInv(e)'
      BY <1>1, <2>0 DEF IInv, SideInv, TypeOK, StartInv, StartSteps, Threads, Starter, AnswerSteps
    <2>3. CloseInv(e)'
      BY <1>1, <2>0 DEF IInv, SideInv, TypeOK, CloseInv, Gone, CloseSteps, Joined, Threads,
                        Unheard
    <2>4. CandInv(e)'
      BY <1>1, <2>0 DEF IInv, SideInv, TypeOK, CandInv, CloseInv, Gone, Engaged, Called,
                        StartSteps, Threads, Starter, Unheard
    <2>5. FlagInv(e)'
      BY <1>1, <2>0 DEF IInv, SideInv, TypeOK, FlagInv, Engaged, Called, ReceiveSteps, Threads,
                        Storing, Answering
    <2> QED
      BY <2>1, <2>2, <2>3, <2>4, <2>5 DEF SideInv
  <1>5. Silent
    <2>1. Ok("caller")' => Ok("caller")
      BY <1>1 DEF IInv, TypeOK, Ok, End
    <2> QED
      BY <1>1, <2>1 DEF IInv, TypeOK, LinkInv, QuietInv, Silent, LocalStep, HasAnswered, Called,
                        ReceiveSteps, StartSteps, End, Threads, Answering, Replying, AnswerSteps
  <1> QED
    BY <1>2, <1>3, <1>4, <1>5, Combined, SilentKept

\* The worker has ended.
LEMMA CloseJoinInv ==
    ASSUME IInv, NEW e \in End, NEW t \in Threads, CloseJoin(e, t)
    PROVE  IInv'
  <1> USE DEF session, jingle, transport
  <1>1. /\ Ok(e) /\ pc[e][t] = "join"
        /\ pc' = [pc EXCEPT ![e][t] = "destroyed"] /\ worker' = [worker EXCEPT ![e] = "joined"]
        /\ UNCHANGED <<sess, active, runbit, jingle, transport, hungup, reg, sent, got, net, fault>>
    BY DEF CloseJoin, At, Goto
  <1>2. TypeOK'
    BY <1>1 DEF IInv, TypeOK, CloseSteps
  <1>3. \A d \in End : d # e => Same(d)
    BY <1>1 DEF IInv, TypeOK, Same
  <1>4. SideInv(e)'
    <2>0. active[e] /\ sess[e] # "none" /\ t \in {"ui", "bus"} /\ Engaged(e)
      <3>1. active[e] /\ sess[e] # "none" /\ t \in {"ui", "bus"}
        BY <1>1 DEF IInv, SideInv, TypeOK, StartInv, CloseInv, CloseSteps, Threads
      <3> QED
        BY <1>1, <3>1 DEF IInv, LinkInv, QuietInv, Engaged, Called, End
    <2>1. FreshInv(e)'
      BY <1>1, <2>0 DEF IInv, TypeOK, FreshInv
    <2>2. StartInv(e)'
      BY <1>1, <2>0 DEF IInv, SideInv, TypeOK, StartInv, StartSteps, Threads, Starter, AnswerSteps
    <2>3. CloseInv(e)'
      BY <1>1, <2>0 DEF IInv, SideInv, TypeOK, CloseInv, Gone, CloseSteps, Joined, Threads,
                        Unheard
    <2>4. CandInv(e)'
      BY <1>1, <2>0 DEF IInv, SideInv, TypeOK, CandInv, CloseInv, Gone, Engaged, Called,
                        StartSteps, Threads, Starter, Unheard
    <2>5. FlagInv(e)'
      BY <1>1, <2>0 DEF IInv, SideInv, TypeOK, FlagInv, Engaged, Called, ReceiveSteps, Threads,
                        Storing, Answering
    <2> QED
      BY <2>1, <2>2, <2>3, <2>4, <2>5 DEF SideInv
  <1>5. Silent
    BY <1>1 DEF IInv, TypeOK, LinkInv, QuietInv, Silent, LocalStep, HasAnswered, Called,
                ReceiveSteps, StartSteps, Ok, End, Threads, Answering, Replying, AnswerSteps
  <1> QED
    BY <1>2, <1>3, <1>4, <1>5, Combined, SilentKept

\* The jingle object learns of the end: the bus thread finds the mark that
\* the peer's session-terminate left.
LEMMA CloseDestroyedInv ==
    ASSUME IInv, NEW e \in End, NEW t \in Threads, CloseDestroyed(e, t)
    PROVE  IInv'
  <1> USE DEF session, jingle, transport
  <1>1. /\ Ok(e) /\ pc[e][t] = "destroyed"
        /\ reg' = IF listening[e] /\ "STOPPED" \notin cr0[e] THEN [reg EXCEPT ![e][t] = cr0[e]] ELSE reg
        /\ pc' = [pc EXCEPT ![e][t] = IF ~listening[e] THEN "channels"
                                      ELSE IF "STOPPED" \in cr0[e] THEN "unsubscribe" ELSE "mark"]
        /\ UNCHANGED <<session, jingle, transport, hungup, sent, got, net, fault>>
    BY DEF CloseDestroyed, At, Goto, Load
  <1>2. TypeOK'
    BY <1>1 DEF IInv, TypeOK, CloseSteps
  <1>3. \A d \in End : d # e => Same(d)
    BY <1>1 DEF IInv, TypeOK, Same
  <1>4. SideInv(e)'
    <2>0. active[e] /\ sess[e] # "none" /\ t \in {"ui", "bus"} /\ Engaged(e)
      <3>1. active[e] /\ sess[e] # "none" /\ t \in {"ui", "bus"}
        BY <1>1 DEF IInv, SideInv, TypeOK, StartInv, CloseInv, CloseSteps, Threads
      <3> QED
        BY <1>1, <3>1 DEF IInv, LinkInv, QuietInv, Engaged, Called, End
    <2>1. FreshInv(e)'
      BY <1>1, <2>0 DEF IInv, TypeOK, FreshInv
    <2>2. StartInv(e)'
      BY <1>1, <2>0 DEF IInv, SideInv, TypeOK, StartInv, StartSteps, Threads, Starter, AnswerSteps
    <2>3. CloseInv(e)'
      BY <1>1, <2>0 DEF IInv, SideInv, TypeOK, CloseInv, Gone, CloseSteps, Joined, Threads,
                        Unheard
    <2>4. CandInv(e)'
      BY <1>1, <2>0 DEF IInv, SideInv, TypeOK, CandInv, CloseInv, Gone, Engaged, Called,
                        StartSteps, Threads, Starter, Unheard
    <2>5. FlagInv(e)'
      BY <1>1, <2>0 DEF IInv, SideInv, TypeOK, FlagInv, Engaged, Called, ReceiveSteps, Threads,
                        Storing, Answering
    <2> QED
      BY <2>1, <2>2, <2>3, <2>4, <2>5 DEF SideInv
  <1>5. Silent
    BY <1>1 DEF IInv, TypeOK, LinkInv, QuietInv, Silent, LocalStep, HasAnswered, Called,
                ReceiveSteps, StartSteps, Ok, End, Threads, Answering, Replying, AnswerSteps
  <1> QED
    BY <1>2, <1>3, <1>4, <1>5, Combined, SilentKept

\* The jingle object leaves the listeners.
LEMMA CloseUnsubscribeInv ==
    ASSUME IInv, NEW e \in End, NEW t \in Threads, CloseUnsubscribe(e, t)
    PROVE  IInv'
  <1> USE DEF session, jingle, transport
  <1>1. /\ Ok(e) /\ pc[e][t] = "unsubscribe"
        /\ pc' = [pc EXCEPT ![e][t] = "channels"] /\ listening' = [listening EXCEPT ![e] = FALSE]
        /\ fault' = [fault EXCEPT ![e] = @ \cup {"cell"}] \/ fault' = fault
        /\ UNCHANGED <<session, state, cr0, transport, hungup, reg, sent, got, net>>
    BY DEF CloseUnsubscribe, At, Goto, Fault
  <1>2. TypeOK'
    <2>1. fault' \in [End -> SUBSET Faults]
      <3>1. {"late", "torn", "rejoin", "nothread", "cell", "tree"} \subseteq Faults /\ TypeOK
        BY DEF IInv, Faults
      <3>2. fault \in [End -> SUBSET Faults]
        BY <3>1 DEF TypeOK
      <3> QED
        BY <1>1, <3>1, <3>2, FaultNoted
    <2> QED
      BY <1>1, <2>1 DEF IInv, TypeOK, CloseSteps
  <1>3. \A d \in End : d # e => Same(d)
    BY <1>1 DEF IInv, TypeOK, Same, Faults
  <1>4. SideInv(e)'
    <2>0. active[e] /\ sess[e] # "none" /\ t \in {"ui", "bus"} /\ Engaged(e)
      <3>1. active[e] /\ sess[e] # "none" /\ t \in {"ui", "bus"}
        BY <1>1 DEF IInv, SideInv, TypeOK, StartInv, CloseInv, CloseSteps, Threads
      <3> QED
        BY <1>1, <3>1 DEF IInv, LinkInv, QuietInv, Engaged, Called, End
    <2>1. FreshInv(e)'
      BY <1>1, <2>0 DEF IInv, TypeOK, FreshInv
    <2>2. StartInv(e)'
      BY <1>1, <2>0 DEF IInv, SideInv, TypeOK, StartInv, StartSteps, Threads, Starter, AnswerSteps
    <2>3. CloseInv(e)'
      BY <1>1, <2>0 DEF IInv, SideInv, TypeOK, CloseInv, Gone, CloseSteps, Joined, Threads,
                        Unheard
    <2>4. CandInv(e)'
      BY <1>1, <2>0 DEF IInv, SideInv, TypeOK, CandInv, CloseInv, Gone, Engaged, Called,
                        StartSteps, Threads, Starter, Unheard
    <2>5. FlagInv(e)'
      BY <1>1, <2>0 DEF IInv, SideInv, TypeOK, FlagInv, Engaged, Called, ReceiveSteps, Threads,
                        Storing, Answering
    <2> QED
      BY <2>1, <2>2, <2>3, <2>4, <2>5 DEF SideInv
  <1>5. Silent
    <2>1. Ok("caller")' => Ok("caller")
      BY <1>1 DEF IInv, TypeOK, Ok, End
    <2> QED
      BY <1>1, <2>1 DEF IInv, TypeOK, LinkInv, QuietInv, Silent, LocalStep, HasAnswered, Called,
                        ReceiveSteps, StartSteps, End, Threads, Answering, Replying, AnswerSteps
  <1> QED
    BY <1>2, <1>3, <1>4, <1>5, Combined, SilentKept

\* The candidates of the transport go.
LEMMA CloseChannelsInv ==
    ASSUME IInv, NEW e \in End, NEW t \in Threads, CloseChannels(e, t)
    PROVE  IInv'
  <1> USE DEF session, jingle, transport
  <1>1. /\ Ok(e) /\ pc[e][t] = "channels"
        /\ pc' = [pc EXCEPT ![e][t] = "reap"] /\ local' = [local EXCEPT ![e] = {}]
        /\ UNCHANGED <<session, jingle, ice, found, hungup, reg, sent, got, net, fault>>
    BY DEF CloseChannels, At, Goto
  <1>2. TypeOK'
    BY <1>1 DEF IInv, TypeOK, CloseSteps
  <1>3. \A d \in End : d # e => Same(d)
    BY <1>1 DEF IInv, TypeOK, Same
  <1>4. SideInv(e)'
    <2>0. active[e] /\ sess[e] # "none" /\ t \in {"ui", "bus"} /\ Engaged(e)
      <3>1. active[e] /\ sess[e] # "none" /\ t \in {"ui", "bus"}
        BY <1>1 DEF IInv, SideInv, TypeOK, StartInv, CloseInv, CloseSteps, Threads
      <3> QED
        BY <1>1, <3>1 DEF IInv, LinkInv, QuietInv, Engaged, Called, End
    <2>1. FreshInv(e)'
      BY <1>1, <2>0 DEF IInv, TypeOK, FreshInv
    <2>2. StartInv(e)'
      BY <1>1, <2>0 DEF IInv, SideInv, TypeOK, StartInv, StartSteps, Threads, Starter, AnswerSteps
    <2>3. CloseInv(e)'
      BY <1>1, <2>0 DEF IInv, SideInv, TypeOK, CloseInv, Gone, CloseSteps, Joined, Threads,
                        Unheard
    <2>4. CandInv(e)'
      BY <1>1, <2>0 DEF IInv, SideInv, TypeOK, CandInv, CloseInv, Gone, Engaged, Called,
                        StartSteps, Threads, Starter, Unheard
    <2>5. FlagInv(e)'
      BY <1>1, <2>0 DEF IInv, SideInv, TypeOK, FlagInv, Engaged, Called, ReceiveSteps, Threads,
                        Storing, Answering
    <2> QED
      BY <2>1, <2>2, <2>3, <2>4, <2>5 DEF SideInv
  <1>5. Silent
    BY <1>1 DEF IInv, TypeOK, LinkInv, QuietInv, Silent, LocalStep, HasAnswered, Called,
                ReceiveSteps, StartSteps, Ok, End, Threads, Answering, Replying, AnswerSteps
  <1> QED
    BY <1>2, <1>3, <1>4, <1>5, Combined, SilentKept

\* The ICE thread is joined.
LEMMA CloseReapInv ==
    ASSUME IInv, NEW e \in End, NEW t \in Threads, CloseReap(e, t)
    PROVE  IInv'
  <1> USE DEF session, jingle, transport
  <1>1. /\ Ok(e) /\ pc[e][t] = "reap"
        /\ pc' = [pc EXCEPT ![e][t] = "unlink"] /\ ice' = [ice EXCEPT ![e] = "joined"]
        /\ ice[e] \in {"off", "loop"}
        /\ fault' = [fault EXCEPT ![e] = @ \cup {"nothread"}] \/ fault' = fault
        /\ UNCHANGED <<session, jingle, found, local, hungup, reg, sent, got, net>>
    BY DEF CloseReap, At, Goto, Fault
  <1>2. TypeOK'
    <2>1. fault' \in [End -> SUBSET Faults]
      <3>1. {"late", "torn", "rejoin", "nothread", "cell", "tree"} \subseteq Faults /\ TypeOK
        BY DEF IInv, Faults
      <3>2. fault \in [End -> SUBSET Faults]
        BY <3>1 DEF TypeOK
      <3> QED
        BY <1>1, <3>1, <3>2, FaultNoted
    <2> QED
      BY <1>1, <2>1 DEF IInv, TypeOK, CloseSteps
  <1>3. \A d \in End : d # e => Same(d)
    BY <1>1 DEF IInv, TypeOK, Same, Faults
  <1>4. SideInv(e)'
    <2>0. active[e] /\ sess[e] # "none" /\ t \in {"ui", "bus"} /\ Engaged(e)
      <3>1. active[e] /\ sess[e] # "none" /\ t \in {"ui", "bus"}
        BY <1>1 DEF IInv, SideInv, TypeOK, StartInv, CloseInv, CloseSteps, Threads
      <3> QED
        BY <1>1, <3>1 DEF IInv, LinkInv, QuietInv, Engaged, Called, End
    <2>1. FreshInv(e)'
      BY <1>1, <2>0 DEF IInv, TypeOK, FreshInv
    <2>2. StartInv(e)'
      BY <1>1, <2>0 DEF IInv, SideInv, TypeOK, StartInv, StartSteps, Threads, Starter, AnswerSteps
    <2>3. CloseInv(e)'
      BY <1>1, <2>0 DEF IInv, SideInv, TypeOK, CloseInv, Gone, CloseSteps, Joined, Threads,
                        Unheard
    <2>4. CandInv(e)'
      <3>1. found[e] = {} /\ found'[e] = found[e] /\ ~listening'[e]
        BY <1>1 DEF IInv, SideInv, CandInv, CloseInv, Gone, Unheard
      <3>2. Engaged(e)'
        BY <1>1, <2>0 DEF IInv, TypeOK, Engaged, Called, Threads
      <3>3. Gone(e)'
        BY <1>1 DEF IInv, TypeOK, Gone
      <3> QED
        BY <3>1, <3>2, <3>3 DEF CandInv
    <2>5. FlagInv(e)'
      BY <1>1, <2>0 DEF IInv, SideInv, TypeOK, FlagInv, Engaged, Called, ReceiveSteps, Threads,
                        Storing, Answering
    <2> QED
      BY <2>1, <2>2, <2>3, <2>4, <2>5 DEF SideInv
  <1>5. Silent
    <2>1. Ok("caller")' => Ok("caller")
      BY <1>1 DEF IInv, TypeOK, Ok, End
    <2> QED
      BY <1>1, <2>1 DEF IInv, TypeOK, LinkInv, QuietInv, Silent, LocalStep, HasAnswered, Called,
                        ReceiveSteps, StartSteps, End, Threads, Answering, Replying, AnswerSteps
  <1> QED
    BY <1>2, <1>3, <1>4, <1>5, Combined, SilentKept

\* The session is over.
LEMMA CloseUnlinkInv ==
    ASSUME IInv, NEW e \in End, NEW t \in Threads, CloseUnlink(e, t)
    PROVE  IInv'
  <1> USE DEF session, jingle, transport
  <1>1. /\ Ok(e) /\ pc[e][t] = "unlink"
        /\ pc' = [pc EXCEPT ![e][t] = "idle"] /\ sess' = [sess EXCEPT ![e] = "closed"]
        /\ UNCHANGED <<active, runbit, worker, jingle, transport, hungup, reg, sent, got, net, fault>>
    BY DEF CloseUnlink, At, Goto
  <1>2. TypeOK'
    BY <1>1 DEF IInv, TypeOK, CloseSteps
  <1>3. \A d \in End : d # e => Same(d)
    BY <1>1 DEF IInv, TypeOK, Same
  <1>4. SideInv(e)'
    <2>0. active[e] /\ sess[e] # "none" /\ t \in {"ui", "bus"} /\ Engaged(e)
      <3>1. active[e] /\ sess[e] # "none" /\ t \in {"ui", "bus"}
        BY <1>1 DEF IInv, SideInv, TypeOK, StartInv, CloseInv, CloseSteps, Threads
      <3> QED
        BY <1>1, <3>1 DEF IInv, LinkInv, QuietInv, Engaged, Called, End
    <2>1. FreshInv(e)'
      BY <1>1, <2>0 DEF IInv, TypeOK, FreshInv
    <2>2. StartInv(e)'
      BY <1>1, <2>0 DEF IInv, SideInv, TypeOK, StartInv, StartSteps, Threads, Starter, AnswerSteps
    <2>3. CloseInv(e)'
      BY <1>1, <2>0 DEF IInv, SideInv, TypeOK, CloseInv, Gone, CloseSteps, Joined, Threads,
                        Unheard
    <2>4. CandInv(e)'
      BY <1>1, <2>0 DEF IInv, SideInv, TypeOK, CandInv, CloseInv, Gone, Engaged, Called,
                        StartSteps, Threads, Starter, Unheard
    <2>5. FlagInv(e)'
      BY <1>1, <2>0 DEF IInv, SideInv, TypeOK, FlagInv, Engaged, Called, ReceiveSteps, Threads,
                        Storing, Answering
    <2> QED
      BY <2>1, <2>2, <2>3, <2>4, <2>5 DEF SideInv
  <1>5. Silent
    BY <1>1 DEF IInv, TypeOK, LinkInv, QuietInv, Silent, LocalStep, HasAnswered, Called,
                ReceiveSteps, StartSteps, Ok, End, Threads, Answering, Replying, AnswerSteps
  <1> QED
    BY <1>2, <1>3, <1>4, <1>5, Combined, SilentKept

\* The peer is told: only the user interface comes here.
LEMMA CloseMarkInv ==
    ASSUME IInv, NEW e \in End, NEW t \in Threads, CloseMark(e, t)
    PROVE  IInv'
  <1> USE DEF session, jingle, transport
  <1> DEFINE m == [action |-> "session-terminate", cands |-> {}]
  <1>1. /\ Ok(e) /\ pc[e][t] = "mark" /\ pc' = [pc EXCEPT ![e][t] = "unsubscribe"]
        /\ cr0' = [cr0 EXCEPT ![e] = reg[e][t] \cup {"STOPPED"}]
        /\ reg' = [reg EXCEPT ![e][t] = {}]
        /\ net' = [net EXCEPT ![Peer(e)] = Append(@, m)]
        /\ UNCHANGED <<session, state, listening, transport, hungup, sent, got, fault>>
    BY DEF CloseMark, At, Goto, Drop, SendTo
  <1>2. t = "ui" /\ hungup[e] /\ active[e] /\ sess[e] # "none" /\ m \in Messages /\ m.action = "session-terminate"
    <2>1. t = "ui" /\ hungup[e] /\ active[e] /\ sess[e] # "none"
      BY <1>1 DEF IInv, SideInv, TypeOK, StartInv, CloseInv, CloseSteps, Threads
    <2> QED
      BY <2>1 DEF Messages, Actions
  <1> HIDE DEF m
  <1>3. Engaged(e)
    BY <1>1, <1>2 DEF IInv, Engaged, Called
  <1>4. TypeOK'
    <2>1. net' \in [End -> Seq(Messages)]
      BY <1>1, <1>2, Sides, SentProperties DEF IInv, TypeOK
    <2>2. cr0' \in [End -> SUBSET Flags]
      BY <1>1 DEF IInv, TypeOK, Flags
    <2> QED
      BY <1>1, <2>1, <2>2 DEF IInv, TypeOK, CloseSteps
  <1>5. \A d \in End : d # e => Same(d)
    BY <1>1 DEF IInv, TypeOK, Same
  <1>6. SideInv(e)'
    <2>1. FreshInv(e)'
      BY <1>1, <1>2 DEF IInv, TypeOK, FreshInv
    <2>2. StartInv(e)'
      BY <1>1, <1>2 DEF IInv, SideInv, TypeOK, StartInv, StartSteps, Threads, Starter, AnswerSteps
    <2>3. CloseInv(e)'
      <3>1. /\ pc'[e]["ui"] = "unsubscribe" /\ pc'[e]["bus"] = pc[e]["bus"] /\ "STOPPED" \in cr0'[e]
            /\ pc[e]["ui"] = "mark"
        BY <1>1, <1>2 DEF IInv, TypeOK, Threads
      <3>2. (Gone(e)' <=> Gone(e)) /\ (Unheard(e)' <=> Unheard(e))
        BY <1>1, <3>1 DEF Gone, Threads, Unheard
      <3>3. /\ sess' = sess /\ active' = active /\ worker' = worker /\ ice' = ice /\ listening' = listening
            /\ hungup' = hungup
        BY <1>1
      <3> QED
        BY <1>2, <3>1, <3>2, <3>3 DEF IInv, SideInv, CloseInv, CloseSteps, Joined, Threads
    <2>4. CandInv(e)'
      BY <1>1, <1>2 DEF IInv, SideInv, TypeOK, CandInv, CloseInv, Gone, Engaged, Called,
                        StartSteps, Threads, Starter, Unheard
    <2>5. FlagInv(e)'
      BY <1>1, <1>2 DEF IInv, SideInv, TypeOK, FlagInv, ReceiveSteps, Threads, Storing, Answering
    <2> QED
      BY <2>1, <2>2, <2>3, <2>4, <2>5 DEF SideInv
  <1>7. LocalStep
    BY <1>1, <1>2, <1>3 DEF IInv, TypeOK, LocalStep, HasAnswered, Engaged, Called, ReceiveSteps,
                            StartSteps, Ok, End, Threads, Answering, Replying, AnswerSteps
  <1>8. LinkInv'
    BY <1>1, <1>2, <1>3, <1>7, SendKept
  <1> QED
    BY <1>4, <1>5, <1>6, <1>8, Combined

-----------------------------------------------------------------------------
(* The worker and the ICE thread. *)

\* The worker ends; no thread has joined it yet.
LEMMA WorkerExitInv ==
    ASSUME IInv, NEW e \in End, WorkerExit(e)
    PROVE  IInv'
  <1> USE DEF session, jingle, transport
  <1>1. /\ worker[e] = "running" /\ worker' = [worker EXCEPT ![e] = "exited"]
        /\ UNCHANGED <<sess, active, runbit, jingle, transport, hungup, reg, pc, sent, got, net, fault>>
    BY DEF WorkerExit
  <1>2. TypeOK'
    BY <1>1 DEF IInv, TypeOK
  <1>3. \A d \in End : d # e => Same(d)
    BY <1>1 DEF IInv, TypeOK, Same
  <1>4. SideInv(e)'
    <2>1. FreshInv(e)'
      BY <1>1 DEF IInv, SideInv, FreshInv
    <2>2. StartInv(e)'
      BY <1>1 DEF IInv, SideInv, StartInv
    <2>3. CloseInv(e)'
      BY <1>1 DEF IInv, SideInv, CloseInv, Gone, Unheard
    <2>4. CandInv(e)'
      BY <1>1 DEF IInv, SideInv, CandInv, Engaged, Called, Gone, Threads
    <2>5. FlagInv(e)'
      BY <1>1 DEF IInv, SideInv, FlagInv, Engaged, Called, Answering
    <2> QED
      BY <2>1, <2>2, <2>3, <2>4, <2>5 DEF SideInv
  <1>5. Silent
    BY <1>1 DEF IInv, Silent, LocalStep, HasAnswered, Called, Ok, Answering
  <1> QED
    BY <1>2, <1>3, <1>4, <1>5, Combined, SilentKept

\* A STUN answer shows a new address.
LEMMA IceInsertInv ==
    ASSUME IInv, NEW e \in End, IceInsert(e)
    PROVE  IInv'
  <1> USE DEF session, jingle, transport
  <1>1. PICK c \in Reflexive[e] : found' = [found EXCEPT ![e] = {c}] /\ local' = [local EXCEPT ![e] = @ \cup {c}]
    BY DEF IceInsert
  <1>2. /\ ice[e] = "loop" /\ ice' = [ice EXCEPT ![e] = "check"]
        /\ fault' = [fault EXCEPT ![e] = @ \cup {"tree"}] \/ fault' = fault
        /\ UNCHANGED <<session, jingle, hungup, reg, pc, sent, got, net>>
    BY DEF IceInsert, Fault
  <1>3. TypeOK'
    <2>1. fault' \in [End -> SUBSET Faults]
      <3>1. {"late", "torn", "rejoin", "nothread", "cell", "tree"} \subseteq Faults /\ TypeOK
        BY DEF IInv, Faults
      <3>2. fault \in [End -> SUBSET Faults]
        BY <3>1 DEF TypeOK
      <3> QED
        BY <1>2, <3>1, <3>2, FaultNoted
    <2>2. c \in Cand
      BY CandAssumption
    <2>3. found' \in [End -> SUBSET Cand] /\ local' \in [End -> SUBSET Cand]
      BY <1>1, <2>2 DEF IInv, TypeOK
    <2> QED
      BY <1>2, <2>1, <2>3 DEF IInv, TypeOK
  <1>4. \A d \in End : d # e => Same(d)
    BY <1>1, <1>2 DEF IInv, TypeOK, Same
  <1>5. SideInv(e)'
    <2>0. found[e] = {} /\ Engaged(e) /\ sess[e] # "none" /\ ice'[e] = "check"
          /\ found'[e] = {c} /\ local'[e] = local[e] \cup {c}
      BY <1>1, <1>2 DEF IInv, SideInv, TypeOK, CandInv, Engaged, Called
    <2>1. FreshInv(e)'
      BY <1>2, <2>0 DEF FreshInv
    <2>2. StartInv(e)'
      BY <1>2 DEF IInv, SideInv, StartInv
    <2>3. CloseInv(e)'
      BY <1>2, <2>0 DEF IInv, SideInv, CloseInv, Gone, Unheard
    <2>4. CandInv(e)'
      BY <1>2, <2>0 DEF IInv, SideInv, CandInv, Engaged, Called, Gone, Threads
    <2>5. FlagInv(e)'
      BY <1>2 DEF IInv, SideInv, FlagInv, Engaged, Called, Answering
    <2> QED
      BY <2>1, <2>2, <2>3, <2>4, <2>5 DEF SideInv
  <1>6. Silent
    <2>1. Ok("caller")' => Ok("caller")
      BY <1>2 DEF IInv, TypeOK, Ok, End
    <2> QED
      BY <1>2, <2>1 DEF IInv, Silent, LocalStep, HasAnswered, Called, Answering
  <1> QED
    BY <1>3, <1>4, <1>5, <1>6, Combined, SilentKept

\* It is announced to the session.
LEMMA IceCheckInv ==
    ASSUME IInv, NEW e \in End, IceCheck(e)
    PROVE  IInv'
  <1> USE DEF session, jingle, transport
  <1>1. /\ ice[e] = "check"
        /\ \/ active[e] /\ listening[e] /\ ice' = [ice EXCEPT ![e] = "deliver"] /\ found' = found
           \/ ~(active[e] /\ listening[e]) /\ ice' = [ice EXCEPT ![e] = "loop"] /\ found' = [found EXCEPT ![e] = {}]
        /\ UNCHANGED <<session, jingle, local, hungup, reg, pc, sent, got, net, fault>>
    BY DEF IceCheck
  <1>2. TypeOK'
    BY <1>1 DEF IInv, TypeOK
  <1>3. \A d \in End : d # e => Same(d)
    BY <1>1 DEF IInv, TypeOK, Same
  <1>4. SideInv(e)'
    <2>0. ice'[e] \in {"deliver", "loop"}
      BY <1>1 DEF IInv, TypeOK
    <2>1. FreshInv(e)'
      BY <1>1 DEF IInv, SideInv, FreshInv
    <2>2. StartInv(e)'
      BY <1>1 DEF IInv, SideInv, StartInv
    <2>3. CloseInv(e)'
      BY <1>1, <2>0 DEF IInv, SideInv, CloseInv, Gone, Unheard
    <2>4. CandInv(e)'
      BY <1>1, <2>0 DEF IInv, TypeOK, SideInv, CandInv, Engaged, Called, Gone, Threads
    <2>5. FlagInv(e)'
      BY <1>1 DEF IInv, SideInv, FlagInv, Engaged, Called, Answering
    <2> QED
      BY <2>1, <2>2, <2>3, <2>4, <2>5 DEF SideInv
  <1>5. Silent
    BY <1>1 DEF IInv, Silent, LocalStep, HasAnswered, Called, Ok, Answering
  <1> QED
    BY <1>2, <1>3, <1>4, <1>5, Combined, SilentKept

\* The peer is told of it: the flags are set by then.
LEMMA IceDeliverInv ==
    ASSUME IInv, NEW e \in End, IceDeliver(e)
    PROVE  IInv'
  <1> USE DEF session, jingle, transport
  <1> DEFINE m == [action |-> "transport-info", cands |-> found[e]]
  <1>1. Engaged(e) /\ cr0[e] # {} /\ sess[e] # "none"
    BY DEF IInv, SideInv, CandInv, FlagInv, IceDeliver, Engaged, Called
  <1>2. /\ ice[e] = "deliver" /\ ice' = [ice EXCEPT ![e] = "loop"]
        /\ net' = [net EXCEPT ![Peer(e)] = Append(@, m)]
        /\ sent' = [sent EXCEPT ![e] = @ \cup found[e]] /\ found' = [found EXCEPT ![e] = {}]
        /\ UNCHANGED <<session, jingle, local, hungup, reg, pc, got, fault>>
    BY <1>1 DEF IceDeliver, SendTo
  <1>3. m \in Messages /\ m.action = "transport-info"
    BY DEF IInv, TypeOK, Messages, Actions
  <1> HIDE DEF m
  <1>4. TypeOK'
    <2>1. net' \in [End -> Seq(Messages)]
      BY <1>2, <1>3, Sides, SentProperties DEF IInv, TypeOK
    <2>2. sent' \in [End -> SUBSET Cand]
      BY <1>2 DEF IInv, TypeOK
    <2> QED
      BY <1>2, <2>1, <2>2 DEF IInv, TypeOK
  <1>5. \A d \in End : d # e => Same(d)
    BY <1>2 DEF IInv, TypeOK, Same
  <1>6. SideInv(e)'
    <2>0. ice'[e] = "loop" /\ found'[e] = {} /\ sent'[e] = sent[e] \cup found[e]
      BY <1>2 DEF IInv, TypeOK
    <2>1. FreshInv(e)'
      BY <1>1, <1>2 DEF FreshInv
    <2>2. StartInv(e)'
      BY <1>2 DEF IInv, SideInv, StartInv
    <2>3. CloseInv(e)'
      BY <1>2, <2>0 DEF IInv, SideInv, CloseInv, Gone, Unheard
    <2>4. CandInv(e)'
      BY <1>2, <2>0 DEF IInv, SideInv, CandInv, Engaged, Called, Gone, Threads
    <2>5. FlagInv(e)'
      BY <1>2 DEF IInv, SideInv, FlagInv, Engaged, Called, Answering
    <2> QED
      BY <2>1, <2>2, <2>3, <2>4, <2>5 DEF SideInv
  <1>7. LocalStep
    BY <1>2 DEF LocalStep, HasAnswered, Called, Ok, Answering
  <1>8. LinkInv'
    BY <1>1, <1>2, <1>3, <1>7, SendKept
  <1> QED
    BY <1>4, <1>5, <1>6, <1>8, Combined

-----------------------------------------------------------------------------
(* Messages from the peer. *)

\* A message other than session-initiate finds the session open, or closed.
LEMMA MessageTaken ==
    ASSUME IInv, NEW e \in End, NEW a \in Actions, a # "session-initiate", Receives(e, a)
    PROVE  /\ Ok(e) /\ pc[e]["bus"] = "idle" /\ net \in [End -> Seq(Messages)] /\ net[e] \in Seq(Messages)
           /\ net[e] # <<>> /\ net[e][1] \in Messages /\ net[e][1].action = a /\ Head(net[e]) = net[e][1]
           /\ Has(net[e], a) /\ Tail(net[e]) \in Seq(Messages)
           /\ Called /\ sess[e] # "none" /\ Engaged(e) /\ active[e]
  <1>1. Ok(e) /\ pc[e]["bus"] = "idle" /\ net[e] # <<>> /\ Head(net[e]).action = a
    BY DEF Receives, At
  <1>2. net \in [End -> Seq(Messages)] /\ net[e] \in Seq(Messages)
    BY DEF IInv, TypeOK
  <1>3. Head(net[e]) = net[e][1] /\ net[e][1] \in Messages /\ Has(net[e], net[e][1].action) /\ Tail(net[e]) \in Seq(Messages)
    BY <1>1, <1>2, TakenProperties
  <1>4. Called
    BY <1>1 DEF IInv, LinkInv, QuietInv, End
  <1>5. sess[e] # "none"
    BY <1>1, <1>3, <1>4 DEF IInv, LinkInv, QuietInv, End, Called
  <1>6. active[e]
    BY <1>1, <1>4, <1>5 DEF IInv, SideInv, StartInv, Starter, Called, End
  <1> QED
    BY <1>1, <1>2, <1>3, <1>4, <1>5, <1>6 DEF Engaged

\* The first message opens the session of the callee.
LEMMA OnInitiateInv ==
    ASSUME IInv, NEW e \in End, OnInitiate(e)
    PROVE  IInv'
  <1> USE DEF session, jingle, transport
  <1>1. /\ Ok(e) /\ pc[e]["bus"] = "idle" /\ net[e] # <<>> /\ sess[e] = "none"
        /\ sess' = [sess EXCEPT ![e] = "open"] /\ state' = [state EXCEPT ![e] = "INCOMING"]
        /\ listening' = [listening EXCEPT ![e] = TRUE] /\ local' = [local EXCEPT ![e] = Host[e]]
        /\ ice' = [ice EXCEPT ![e] = IceStarted(e)] /\ cr0' = [cr0 EXCEPT ![e] = {"PENDING"}]
        /\ net' = [net EXCEPT ![e] = Tail(@)] /\ pc' = [pc EXCEPT ![e]["bus"] = "run"]
        /\ UNCHANGED <<active, runbit, worker, found, hungup, reg, sent, got, fault>>
    BY DEF OnInitiate, Receives, At, Consumed, Goto
  <1>2. e = "callee" /\ Called
    BY <1>1 DEF IInv, LinkInv, QuietInv, Called, End
  <1>3. /\ pc[e]["ui"] = "idle" /\ ~active[e] /\ ~hungup[e] /\ ice[e] = "off" /\ found[e] = {}
        /\ net["caller"] = <<>> /\ cr0[e] = {} /\ worker[e] = "none" /\ ~HasAnswered
    <2>1. pc[e]["ui"] = "idle" /\ ~active[e]
      BY <1>1 DEF IInv, TypeOK, SideInv, StartInv, Threads
    <2>2. cr0[e] = {} /\ ~hungup[e] /\ worker[e] = "none"
      BY <1>1 DEF IInv, SideInv, FreshInv
    <2>3. ice[e] = "off" /\ found[e] = {}
      BY <1>1, <1>2 DEF IInv, SideInv, CandInv, Engaged
    <2>4. net["caller"] = <<>>
      BY <1>1, <1>2 DEF IInv, LinkInv, QuietInv
    <2> QED
      BY <1>1, <1>2, <2>1, <2>2, <2>3, <2>4 DEF HasAnswered, Answering
  <1>4. /\ net \in [End -> Seq(Messages)] /\ Tail(net[e]) \in Seq(Messages)
        /\ \A a : Has(Tail(net[e]), a) => Has(net[e], a)
    <2>1. net \in [End -> Seq(Messages)]
      BY DEF IInv, TypeOK
    <2> QED
      BY <1>1, <2>1, TakenProperties
  <1>5. /\ net' \in [End -> Seq(Messages)] /\ net'["caller"] = <<>>
        /\ \A d \in End : \A a : Has(net'[d], a) => Has(net[d], a)
    BY <1>1, <1>2, <1>3, <1>4 DEF End
  <1>6. TypeOK'
    <2>1. /\ cr0' \in [End -> SUBSET Flags] /\ local' \in [End -> SUBSET Cand]
      BY <1>1, CandAssumption DEF IInv, TypeOK, Flags
    <2>2. /\ sess' \in [End -> {"none", "open", "closed"}] /\ state' \in [End -> {"GNEW", "OUTCOMING", "INCOMING"}]
          /\ listening' \in [End -> BOOLEAN]
      BY <1>1 DEF IInv, TypeOK
    <2>3. ice' \in [End -> {"off", "loop", "check", "deliver", "joined"}]
      BY <1>1 DEF IInv, TypeOK, IceStarted
    <2>4. pc' \in [End -> [Threads -> {"idle"} \cup StartSteps \cup ReceiveSteps \cup AnswerSteps
                                      \cup CloseSteps]]
      BY <1>1 DEF IInv, TypeOK, StartSteps
    <2>5. \A d \in End, t \in Threads : pc'[d][t] # "idle" => sess'[d] # "none"
      BY <1>1, <1>3 DEF IInv, TypeOK
    <2> QED
      BY <1>1, <1>5, <2>1, <2>2, <2>3, <2>4, <2>5 DEF IInv, TypeOK
  <1>7. \A d \in End : d # e => Same(d)
    BY <1>1 DEF IInv, TypeOK, Same
  <1>8. /\ pc'[e]["bus"] = "run" /\ pc'[e]["ui"] = "idle" /\ sess'[e] = "open" /\ listening'[e]
        /\ cr0'[e] = {"PENDING"} /\ local'[e] = Host[e] /\ ice'[e] = "loop" /\ state'[e] = "INCOMING"
        /\ Starter(e) = "bus" /\ ~active'[e] /\ pc'["caller"] = pc["caller"]
    BY <1>1, <1>2, <1>3 DEF IInv, TypeOK, Threads, IceStarted, Starter, End
  <1>9. SideInv(e)'
    <2>1. FreshInv(e)'
      BY <1>8 DEF FreshInv
    <2>2. StartInv(e)'
      BY <1>2, <1>8 DEF StartInv, StartSteps, Threads, AnswerSteps
    <2>3. CloseInv(e)'
      <3>1. ~Unheard(e)'
        BY <1>8 DEF Threads, Unheard
      <3> QED
        BY <1>8, <3>1 DEF CloseInv, CloseSteps, Joined, Threads
    <2>4. CandInv(e)'
      BY <1>1, <1>2, <1>3, <1>8 DEF CandInv, StartSteps, Engaged, Gone, Threads
    <2>5. FlagInv(e)'
      <3>1. \A f \in {"RUNNING", "REMOTE_CANDIDATE"} : f \notin cr0'[e]
        BY <1>8
      <3> QED
        BY <1>1, <1>8, <3>1 DEF IInv, SideInv, FlagInv, ReceiveSteps, Storing, Answering
    <2> QED
      BY <2>1, <2>2, <2>3, <2>4, <2>5 DEF SideInv
  <1>10. QuietInv'
    <2>1. Called'
      BY <1>1, <1>2, <1>8 DEF IInv, TypeOK, Called, End
    <2> QED
      BY <1>2, <1>5, <1>8, <2>1 DEF IInv, LinkInv, QuietInv, End
  <1>11. /\ "RUNNING" \notin cr0'["caller"] /\ \A u \in Threads : "RUNNING" \notin reg'["caller"][u]
         /\ pc'["caller"]["bus"] # "store-accept" /\ ~Has(net'["caller"], "session-accept")
    <2>1. cr0'["caller"] = cr0["caller"] /\ reg' = reg
      BY <1>1, <1>2 DEF IInv, TypeOK, End
    <2> QED
      BY <1>3, <1>5, <1>8, <2>1 DEF IInv, LinkInv, AnswerInv, End
  <1>12. AnswerInv'
    BY <1>11 DEF AnswerInv
  <1>13. AddressInv'
    <2>1. Ordered(net'["caller"])
      BY <1>5 DEF Ordered
    <2> QED
      BY <1>2, <1>8, <1>11, <2>1 DEF AddressInv, StartSteps, Replying, AnswerSteps
  <1>14. TerminateInv'
    BY <1>1, <1>5, Sides DEF IInv, LinkInv, TerminateInv
  <1> QED
    BY <1>6, <1>7, <1>9, <1>10, <1>12, <1>13, <1>14, Combined DEF LinkInv

\* The addresses of the peer are installed.
LEMMA OnTransportInfoInv ==
    ASSUME IInv, NEW e \in End, OnTransportInfo(e)
    PROVE  IInv'
  <1> USE DEF session, jingle, transport
  <1>0. "transport-info" \in Actions /\ Receives(e, "transport-info")
    BY DEF Actions, OnTransportInfo
  <1>1. /\ Ok(e) /\ pc[e]["bus"] = "idle" /\ net \in [End -> Seq(Messages)] /\ net[e] \in Seq(Messages)
        /\ net[e] # <<>> /\ net[e][1] \in Messages /\ net[e][1].action = "transport-info" /\ Head(net[e]) = net[e][1]
        /\ Tail(net[e]) \in Seq(Messages)
        /\ Called /\ sess[e] # "none" /\ Engaged(e) /\ active[e]
    BY <1>0, MessageTaken
  <1>2. net' = [net EXCEPT ![e] = Tail(@)] /\ UNCHANGED <<session, jingle, found, local, hungup, sent>>
    BY DEF OnTransportInfo, Consumed
  <1>3. net' \in [End -> Seq(Messages)]
    BY <1>1, <1>2
  <1>4. CASE Gone(e)
    <2>1. /\ \E f \in {"late", "torn"} : fault' = [fault EXCEPT ![e] = @ \cup {f}]
          /\ UNCHANGED <<got, ice, reg, pc>>
      BY <1>4 DEF OnTransportInfo, UsesGone, Fault
    <2>2. TypeOK'
      <3>1. fault' \in [End -> SUBSET Faults]
        <4>1. {"late", "torn", "rejoin", "nothread", "cell", "tree"} \subseteq Faults /\ TypeOK
          BY DEF IInv, Faults
        <4> QED
          BY <2>1, <4>1, FaultNoted
      <3> QED
        BY <1>2, <1>3, <2>1, <3>1 DEF IInv, TypeOK
    <2>3. \A d \in End : d # e => Same(d)
      BY <1>2, <2>1 DEF IInv, TypeOK, Same
    <2>4. SideInv(e)'
      <3>1. FreshInv(e)'
        BY <1>2, <2>1 DEF IInv, SideInv, FreshInv
      <3>2. StartInv(e)'
        BY <1>2, <2>1 DEF IInv, SideInv, StartInv
      <3>3. CloseInv(e)'
        BY <1>2, <2>1 DEF IInv, SideInv, CloseInv, Gone, Unheard
      <3>4. CandInv(e)'
        BY <1>2, <2>1 DEF IInv, SideInv, CandInv, Engaged, Called, Gone, Threads
      <3>5. FlagInv(e)'
        BY <1>2, <2>1 DEF IInv, SideInv, FlagInv, Engaged, Called, Answering
      <3> QED
        BY <3>1, <3>2, <3>3, <3>4, <3>5 DEF SideInv
    <2>5. LocalStep
      <3>1. Ok("caller")' => Ok("caller")
        BY <2>1 DEF Ok, IInv, TypeOK, End
      <3> QED
        BY <1>2, <2>1, <3>1 DEF LocalStep, HasAnswered, Called, Answering
    <2>6. ~Ok(e)'
      BY <2>1 DEF Ok, IInv, TypeOK
    <2> QED
      BY <1>1, <1>2, <2>2, <2>3, <2>4, <2>5, <2>6, TakeKept, Combined
  <1>5. CASE ~Gone(e)
    <2> DEFINE cs == net[e][1].cands
               rc == cr0[e] \cup (IF cs = {} THEN {} ELSE {"REMOTE_CANDIDATE"})
    <2>1. /\ got' = [got EXCEPT ![e] = @ \cup cs] /\ ice' = [ice EXCEPT ![e] = IceStarted(e)]
          /\ reg' = [reg EXCEPT ![e]["bus"] = rc] /\ pc' = [pc EXCEPT ![e]["bus"] = "store-info"]
          /\ fault' = fault
      BY <1>1, <1>5 DEF OnTransportInfo, UsesGone, Goto
    <2>2. cs \in SUBSET Cand
      BY <1>1 DEF Messages
    <2>3. /\ rc \in SUBSET Flags /\ rc # {} /\ cr0[e] \subseteq rc /\ rc \subseteq cr0[e] \cup {"REMOTE_CANDIDATE"}
          /\ "REMOTE_CANDIDATE" \in rc => "REMOTE_CANDIDATE" \in cr0[e] \/ cs # {}
      <3>1. cr0[e] # {} /\ cr0[e] \in SUBSET Flags
        BY <1>1 DEF IInv, SideInv, FlagInv, TypeOK
      <3> QED
        BY <3>1 DEF Flags
    <2> HIDE DEF rc
    <2>4. TypeOK'
      <3>1. got' \in [End -> SUBSET Cand]
        BY <2>1, <2>2 DEF IInv, TypeOK
      <3>2. reg' \in [End -> [Threads -> SUBSET Flags]]
        BY <2>1, <2>3 DEF IInv, TypeOK
      <3>3. ice' \in [End -> {"off", "loop", "check", "deliver", "joined"}]
        BY <2>1 DEF IInv, TypeOK, IceStarted
      <3>4. /\ pc' \in [End -> [Threads -> {"idle"} \cup StartSteps \cup ReceiveSteps \cup AnswerSteps
                                      \cup CloseSteps]]
            /\ \A d \in End, t \in Threads : pc'[d][t] # "idle" => sess'[d] # "none"
        BY <1>1, <1>2, <2>1 DEF IInv, TypeOK, ReceiveSteps
      <3> QED
        BY <1>2, <1>3, <2>1, <3>1, <3>2, <3>3, <3>4 DEF IInv, TypeOK
    <2>5. \A d \in End : d # e => Same(d)
      BY <1>2, <2>1 DEF IInv, TypeOK, Same
    <2> HIDE DEF cs
    <2>6. /\ pc'[e]["bus"] = "store-info" /\ pc'[e]["ui"] = pc[e]["ui"] /\ got'[e] = got[e] \cup cs
          /\ reg'[e]["bus"] = rc /\ reg'[e]["ui"] = reg[e]["ui"] /\ ice'[e] = IceStarted(e)
      BY <2>1 DEF IInv, TypeOK, Threads
    <2>7. /\ listening[e] \/ hungup[e]
          /\ sess[e] # "closed" /\ pc[e]["ui"] # "unlink"
          /\ ice'[e] \notin {"check", "deliver"} => found[e] = {}
          /\ Engaged(e)'
      <3>1. listening[e] \/ hungup[e]
        BY <1>1, <1>5 DEF IInv, SideInv, CloseInv, Gone, Unheard, Threads, CloseSteps
      <3>2. sess[e] # "closed" /\ pc[e]["ui"] # "unlink"
        BY <1>5 DEF Gone, Threads, Unheard
      <3>3. ice'[e] \notin {"check", "deliver"} => found[e] = {}
        BY <2>6 DEF IInv, SideInv, CandInv, IceStarted
      <3>4. Engaged(e)'
        BY <1>1, <1>2, <2>6 DEF Engaged, Called
      <3> QED
        BY <3>1, <3>2, <3>3, <3>4
    <2>8. SideInv(e)'
      <3>1. FreshInv(e)'
        BY <1>1, <1>2 DEF FreshInv
      <3>2. StartInv(e)'
        BY <1>1, <1>2, <2>6 DEF IInv, SideInv, StartInv, StartSteps, Threads, Starter, AnswerSteps
      <3>3. CloseInv(e)'
        <4>1. (Gone(e)' <=> Gone(e)) /\ (Unheard(e)' <=> Unheard(e))
          BY <1>1, <1>2, <2>6 DEF Gone, Threads, Unheard
        <4> QED
          BY <1>1, <1>2, <2>6, <2>7, <4>1 DEF IInv, SideInv, CloseInv, CloseSteps, Joined, Threads
      <3>4. CandInv(e)'
        BY <1>1, <1>2, <2>6, <2>7 DEF IInv, SideInv, CandInv, Starter, StartSteps, Gone, Threads
      <3>5. FlagInv(e)'
        <4>1. \A f \in {"RUNNING", "REMOTE_CANDIDATE"} :
                  f \in rc => got'[e] # {} \/ (e = "caller" /\ f = "RUNNING")
          BY <2>3, <2>6 DEF IInv, SideInv, FlagInv
        <4>2. \A f \in {"RUNNING", "REMOTE_CANDIDATE"} :
                  f \in cr0'[e] \/ (\E t \in Threads : f \in reg'[e][t]) =>
                      got'[e] # {} \/ (e = "caller" /\ f = "RUNNING")
          BY <1>2, <2>6, <4>1 DEF IInv, SideInv, FlagInv, Threads
        <4>3. cr0' = cr0
          BY <1>2
        <4> QED
          BY <1>1, <2>3, <2>6, <4>2, <4>3 DEF IInv, SideInv, FlagInv, Answering
      <3> QED
        BY <3>1, <3>2, <3>3, <3>4, <3>5 DEF SideInv
    <2>9. LocalStep
      <3>1. \A t \in Threads : "RUNNING" \in reg'["caller"][t] =>
               "RUNNING" \in cr0["caller"] \/ "RUNNING" \in reg["caller"][t]
        BY <2>1, <2>3, <2>6 DEF IInv, TypeOK, End, Threads
      <3>2. got["caller"] # {} => got'["caller"] # {}
        BY <2>1, <2>6 DEF IInv, TypeOK, End
      <3>3. Called'
        BY <1>1, <1>2, <2>1 DEF IInv, TypeOK, Called, End, Threads
      <3>4. /\ pc'["caller"]["bus"] = pc["caller"]["bus"] \/ pc'["caller"]["bus"] = "store-info"
            /\ pc'["callee"]["bus"] = pc["callee"]["bus"]
                  \/ (e = "callee" /\ pc'["callee"]["bus"] = "store-info")
        BY <2>1, <2>6 DEF IInv, TypeOK, End
      <3>5. HasAnswered => HasAnswered'
        BY <1>1, <1>2, <3>4 DEF HasAnswered, Answering
      <3> QED
        BY <1>1, <1>2, <2>1, <2>7, <3>1, <3>2, <3>3, <3>4, <3>5 DEF LocalStep, Ok, StartSteps,
           Replying, AnswerSteps
    <2>10. e = "caller" /\ Names(net[e][1]) => got'["caller"] # {}
      BY <2>6 DEF Names, cs
    <2>11. LinkInv'
      BY <1>1, <1>2, <2>9, <2>10, TakeKept
    <2> QED
      BY <2>4, <2>5, <2>8, <2>11, Combined
  <1> QED
    BY <1>4, <1>5

\* The flags are stored at the callee, which then looks whether it may answer.
LEMMA CalleeStoreInfoInv ==
    ASSUME IInv, StoreInfo("callee")
    PROVE  IInv'
  <1> USE DEF session, transport
  <1> DEFINE e == "callee"
             c == reg[e]["bus"]
  <1>1. /\ Ok(e) /\ pc[e]["bus"] = "store-info" /\ e \in End /\ "bus" \in Threads
        /\ cr0' = [cr0 EXCEPT ![e] = c] /\ reg' = [reg EXCEPT ![e]["bus"] = {}]
        /\ UNCHANGED <<session, state, listening, transport, hungup, sent, got, net, fault>>
    BY DEF StoreInfo, At, Drop, End, Threads
  <1>2. sess[e] # "none" /\ pc[e]["bus"] \in Replying
    BY <1>1 DEF IInv, TypeOK, Replying
  <1>3. pc' = [pc EXCEPT ![e]["bus"] = "answer"]
    <2>1. state[e] = "INCOMING"
      BY <1>1, <1>2 DEF IInv, SideInv, StartInv
    <2> QED
      BY <2>1 DEF StoreInfo, Goto, GotoAnswer
  <1>4. /\ c \in SUBSET Flags /\ c # {} /\ fault[e] \in SUBSET Faults
        /\ \A f \in {"RUNNING", "REMOTE_CANDIDATE"} : f \in c => got[e] # {}
        /\ net' \in [End -> Seq(Messages)] /\ fault' = [fault EXCEPT ![e] = fault[e]]
        /\ "answer" \in AnswerSteps
    <2>1. c # {} /\ \A f \in {"RUNNING", "REMOTE_CANDIDATE"} : f \in c => got[e] # {}
      BY <1>1 DEF IInv, SideInv, FlagInv, Storing, ReceiveSteps
    <2> QED
      BY <1>1, <2>1 DEF IInv, TypeOK, AnswerSteps
  <1>5. /\ pc'[e]["bus"] = "answer" /\ cr0'[e] = c /\ reg'[e]["bus"] = {}
        /\ ~Answering(e)' /\ (HasAnswered => HasAnswered')
    <2>1. pc'[e]["bus"] = "answer" /\ cr0'[e] = c /\ reg'[e]["bus"] = {}
      BY <1>1, <1>3 DEF IInv, TypeOK
    <2>2. ~hungup[e] => cr0[e] \subseteq c
      BY <1>1 DEF IInv, SideInv, FlagInv, Storing, ReceiveSteps
    <2> QED
      BY <1>1, <2>1, <2>2 DEF HasAnswered, Answering
  <1>6. TypeOK' /\ SideInv(e)' /\ LocalStep /\ \A d \in End : d # e => Same(d)
    <2>1. ReplyStep
      BY <1>1, <1>2, <1>3, <1>4, <1>5 DEF ReplyStep
    <2> QED
      BY <2>1, ReplyMoved
  <1> QED
    BY <1>1, <1>6, SilentKept, Combined DEF Silent

\* The flags are stored at the caller.
LEMMA CallerStoreInfoInv ==
    ASSUME IInv, StoreInfo("caller")
    PROVE  IInv'
  <1> USE DEF session, transport
  <1> DEFINE e == "caller"
             rg == reg[e]["bus"]
  <1>1. /\ Ok(e) /\ pc[e]["bus"] = "store-info" /\ e \in End /\ "bus" \in Threads
        /\ cr0' = [cr0 EXCEPT ![e] = rg] /\ reg' = [reg EXCEPT ![e]["bus"] = {}]
        /\ UNCHANGED <<session, state, listening, transport, hungup, sent, got, net, fault>>
    BY DEF StoreInfo, At, Drop, End, Threads
  <1>2. sess[e] # "none" /\ Called /\ rg \in SUBSET Flags /\ rg # {}
    <2>1. sess[e] # "none" /\ rg \in SUBSET Flags
      BY <1>1 DEF IInv, TypeOK
    <2>2. Called
      BY <1>1, <2>1 DEF IInv, LinkInv, QuietInv
    <2> QED
      BY <1>1, <2>1, <2>2 DEF IInv, SideInv, FlagInv, ReceiveSteps, Storing
  <1>3. pc' = [pc EXCEPT ![e]["bus"] = "idle"]
    <2>1. state[e] = "OUTCOMING"
      BY <1>1, <1>2 DEF IInv, SideInv, StartInv
    <2> QED
      BY <2>1 DEF StoreInfo, Goto, GotoAnswer
  <1>4. TypeOK'
    <2>1. cr0' \in [End -> SUBSET Flags] /\ reg' \in [End -> [Threads -> SUBSET Flags]]
      BY <1>1, <1>2 DEF IInv, TypeOK
    <2>2. /\ pc' \in [End -> [Threads -> {"idle"} \cup StartSteps \cup ReceiveSteps \cup AnswerSteps
                                      \cup CloseSteps]]
          /\ \A d \in End, t \in Threads : pc'[d][t] # "idle" => sess'[d] # "none"
      BY <1>1, <1>3 DEF IInv, TypeOK
    <2> QED
      BY <1>1, <2>1, <2>2 DEF IInv, TypeOK
  <1>5. \A d \in End : d # e => Same(d)
    BY <1>1, <1>3 DEF IInv, TypeOK, Same
  <1>6. /\ pc'[e]["bus"] = "idle" /\ pc'[e]["ui"] = pc[e]["ui"] /\ cr0'[e] = rg
        /\ reg'[e]["bus"] = {} /\ reg'[e]["ui"] = reg[e]["ui"] /\ Called'
    BY <1>1, <1>2, <1>3 DEF IInv, TypeOK, Threads, Called
  <1>7. SideInv(e)'
    <2>0. (Gone(e)' <=> Gone(e)) /\ (Unheard(e)' <=> Unheard(e))
      BY <1>1, <1>6 DEF Gone, Unheard, Threads
    <2>1. FreshInv(e)'
      BY <1>1, <1>2 DEF FreshInv
    <2>2. StartInv(e)'
      BY <1>1, <1>6 DEF IInv, SideInv, StartInv, StartSteps, Threads, Starter, AnswerSteps
    <2>3. CloseInv(e)'
      BY <1>1, <1>6, <2>0 DEF IInv, SideInv, CloseInv, CloseSteps, Joined, Threads
    <2>4. CandInv(e)'
      BY <1>1, <1>2, <1>6, <2>0 DEF IInv, SideInv, CandInv, Starter, StartSteps, Engaged
    <2>5. FlagInv(e)'
      <3>1. \A f \in {"RUNNING", "REMOTE_CANDIDATE"} :
                f \in cr0'[e] \/ (\E t \in Threads : f \in reg'[e][t]) =>
                    got'[e] # {} \/ (e = "caller" /\ f = "RUNNING")
        BY <1>1, <1>6 DEF IInv, SideInv, FlagInv, Threads
      <3> QED
        BY <1>2, <1>6, <3>1 DEF FlagInv, ReceiveSteps, Storing, Answering
    <2> QED
      BY <2>1, <2>2, <2>3, <2>4, <2>5 DEF SideInv
  <1>8. Silent
    <2>1. "RUNNING" \in cr0'[e] => \E t \in Threads : "RUNNING" \in reg[e][t]
      BY <1>1, <1>6
    <2>2. \A t \in Threads : "RUNNING" \in reg'[e][t] => "RUNNING" \in reg[e][t]
      BY <1>6 DEF Threads
    <2>3. Same("callee")
      BY <1>5 DEF End
    <2> QED
      BY <1>1, <1>2, <1>6, <2>1, <2>2, <2>3 DEF Silent, LocalStep, Same, HasAnswered, Answering, Ok, End
  <1> QED
    BY <1>1, <1>4, <1>5, <1>7, <1>8, SilentKept, Combined

\* session-accept comes to a caller that has installed an address.
LEMMA OnAcceptInv ==
    ASSUME IInv, NEW e \in End, OnAccept(e)
    PROVE  IInv'
  <1> USE DEF session, jingle, transport
  <1>0. "session-accept" \in Actions /\ Receives(e, "session-accept")
    BY DEF Actions, OnAccept
  <1>1. /\ Ok(e) /\ pc[e]["bus"] = "idle" /\ net \in [End -> Seq(Messages)] /\ net[e] \in Seq(Messages)
        /\ net[e] # <<>> /\ net[e][1].action = "session-accept" /\ Has(net[e], "session-accept")
        /\ Tail(net[e]) \in Seq(Messages) /\ Called /\ sess[e] # "none" /\ Engaged(e) /\ active[e]
    BY <1>0, MessageTaken
  <1>2. /\ net' = [net EXCEPT ![e] = Tail(@)] /\ reg' = [reg EXCEPT ![e]["bus"] = cr0[e]]
        /\ pc' = [pc EXCEPT ![e]["bus"] = "store-accept"]
        /\ UNCHANGED <<session, jingle, transport, hungup, sent, got, fault>>
    BY DEF OnAccept, Consumed, Load, Goto
  <1>3. e = "caller" /\ HasAnswered
    <2>1. e = "caller"
      BY <1>1 DEF IInv, LinkInv, QuietInv, End
    <2> QED
      BY <1>1, <2>1 DEF IInv, LinkInv, AnswerInv
  <1>4. got["caller"] # {} \/ hungup["callee"]
    <2>1. ~Ordered(net[e])
      BY <1>1, TakenProperties
    <2> QED
      BY <1>1, <1>3, <2>1 DEF IInv, LinkInv, AddressInv
  <1>5. TypeOK'
    <2>1. net' \in [End -> Seq(Messages)]
      BY <1>1, <1>2
    <2>2. reg' \in [End -> [Threads -> SUBSET Flags]]
      BY <1>2 DEF IInv, TypeOK
    <2>3. /\ pc' \in [End -> [Threads -> {"idle"} \cup StartSteps \cup ReceiveSteps \cup AnswerSteps
                                      \cup CloseSteps]]
          /\ \A d \in End, t \in Threads : pc'[d][t] # "idle" => sess'[d] # "none"
      BY <1>1, <1>2 DEF IInv, TypeOK, ReceiveSteps
    <2> QED
      BY <1>2, <2>1, <2>2, <2>3 DEF IInv, TypeOK
  <1>6. \A d \in End : d # e => Same(d)
    BY <1>2 DEF IInv, TypeOK, Same
  <1>7. /\ pc'[e]["bus"] = "store-accept" /\ pc'[e]["ui"] = pc[e]["ui"]
        /\ reg'[e]["bus"] = cr0[e] /\ reg'[e]["ui"] = reg[e]["ui"] /\ Called' /\ Engaged(e)'
        /\ pc'["callee"] = pc["callee"]
    BY <1>1, <1>2, <1>3 DEF IInv, TypeOK, Threads, Engaged, Called, End
  <1>8. SideInv(e)'
    <2>1. FreshInv(e)'
      BY <1>1, <1>2 DEF FreshInv
    <2>2. StartInv(e)'
      BY <1>2, <1>3, <1>7 DEF IInv, SideInv, StartInv, StartSteps, Threads, Starter, AnswerSteps
    <2>3. CloseInv(e)'
      <3>1. (Gone(e)' <=> Gone(e)) /\ (Unheard(e)' <=> Unheard(e))
        BY <1>1, <1>2, <1>7 DEF Gone, Threads, Unheard
      <3> QED
        BY <1>1, <1>2, <1>7, <3>1 DEF IInv, SideInv, CloseInv, CloseSteps, Joined, Threads
    <2>4. CandInv(e)'
      BY <1>1, <1>2, <1>3, <1>7 DEF IInv, SideInv, CandInv, Starter, StartSteps, Gone, Threads
    <2>5. FlagInv(e)'
      <3>1. cr0' = cr0 /\ got' = got /\ hungup' = hungup
        BY <1>2
      <3>2. cr0[e] # {}
        BY <1>1 DEF IInv, SideInv, FlagInv
      <3>3. pc'[e]["bus"] \notin {"answered", "store-answer"}
        BY <1>7
      <3> QED
        BY <1>7, <3>1, <3>2, <3>3 DEF IInv, SideInv, FlagInv, Answering, Threads
    <2> QED
      BY <2>1, <2>2, <2>3, <2>4, <2>5 DEF SideInv
  <1>9. \A d \in End : \A a : Has(net'[d], a) => Has(net[d], a)
    <2>1. \A a : Has(Tail(net[e]), a) => Has(net[e], a)
      BY <1>1, TakenProperties
    <2> QED
      BY <1>1, <1>2, <2>1
  <1>10. QuietInv'
    <2>1. sess["callee"] # "none"
      BY <1>1, <1>3 DEF IInv, LinkInv, QuietInv
    <2> QED
      BY <1>2, <1>7, <1>9, <2>1 DEF IInv, LinkInv, QuietInv, End
  <1>11. AnswerInv'
    BY <1>2, <1>3 DEF AnswerInv, HasAnswered, Answering
  <1>12. AddressInv'
    BY <1>2, <1>4 DEF AddressInv
  <1>13. TerminateInv'
    BY <1>2, <1>9, Sides DEF IInv, LinkInv, TerminateInv
  <1> QED
    BY <1>5, <1>6, <1>8, <1>10, <1>11, <1>12, <1>13, Combined DEF LinkInv

\* The caller considers the call running.
LEMMA StoreAcceptInv ==
    ASSUME IInv, NEW e \in End, StoreAccept(e)
    PROVE  IInv'
  <1> USE DEF session, jingle, transport
  <1> DEFINE rg == reg[e]["bus"]
             fl == (rg \ {"PENDING"}) \cup {"RUNNING"}
  <1>1. /\ Ok(e) /\ pc[e]["bus"] = "store-accept" /\ pc' = [pc EXCEPT ![e]["bus"] = "idle"]
        /\ cr0' = [cr0 EXCEPT ![e] = fl] /\ reg' = [reg EXCEPT ![e]["bus"] = {}]
        /\ \/ \E f \in {"late", "torn"} :
                 Gone(e) /\ fault' = [fault EXCEPT ![e] = @ \cup {f}] /\ ice' = ice
           \/ ~Gone(e) /\ fault' = fault /\ ice' = [ice EXCEPT ![e] = IceStarted(e)]
        /\ UNCHANGED <<session, state, listening, found, local, hungup, sent, got, net>>
    BY DEF StoreAccept, At, Goto, Drop, Fault, UsesGone
  <1>2. /\ e = "caller" /\ sess[e] # "none" /\ Called /\ HasAnswered
        /\ got[e] # {} \/ hungup["callee"]
    <2>1. e = "caller"
      BY <1>1 DEF IInv, LinkInv, QuietInv, End
    <2>2. sess[e] # "none"
      BY <1>1 DEF IInv, TypeOK, Threads
    <2>3. Called
      BY <1>1, <2>1 DEF IInv, LinkInv, QuietInv
    <2>4. HasAnswered
      BY <1>1, <2>1 DEF IInv, LinkInv, AnswerInv
    <2>5. got[e] # {} \/ hungup["callee"]
      BY <1>1, <2>1 DEF IInv, LinkInv, AddressInv
    <2> QED
      BY <2>1, <2>2, <2>3, <2>4, <2>5
  <1>3. fl \in SUBSET Flags /\ fl # {}
    <2>1. rg \in SUBSET Flags
      BY DEF IInv, TypeOK, Threads
    <2> QED
      BY <2>1 DEF Flags
  <1> HIDE DEF fl
  <1>4. TypeOK'
    <2>1. fault' \in [End -> SUBSET Faults]
      <3>1. {"late", "torn", "rejoin", "nothread", "cell", "tree"} \subseteq Faults /\ TypeOK
        BY DEF IInv, Faults
      <3>2. fault \in [End -> SUBSET Faults]
        BY <3>1 DEF TypeOK
      <3> QED
        BY <1>1, <3>1, <3>2, FaultNoted
    <2>2. cr0' \in [End -> SUBSET Flags]
      BY <1>1, <1>3 DEF IInv, TypeOK
    <2>3. reg' \in [End -> [Threads -> SUBSET Flags]]
      BY <1>1 DEF IInv, TypeOK
    <2>4. /\ pc' \in [End -> [Threads -> {"idle"} \cup StartSteps \cup ReceiveSteps \cup AnswerSteps
                                      \cup CloseSteps]]
          /\ \A d \in End, t \in Threads : pc'[d][t] # "idle" => sess'[d] # "none"
      BY <1>1 DEF IInv, TypeOK
    <2>5. ice' \in [End -> {"off", "loop", "check", "deliver", "joined"}]
      BY <1>1 DEF IInv, TypeOK, IceStarted
    <2> QED
      BY <1>1, <2>1, <2>2, <2>3, <2>4, <2>5 DEF IInv, TypeOK
  <1>5. \A d \in End : d # e => Same(d)
    BY <1>1 DEF IInv, TypeOK, Same
  <1>6. /\ pc'[e]["bus"] = "idle" /\ pc'[e]["ui"] = pc[e]["ui"] /\ cr0'[e] = fl
        /\ reg'[e]["bus"] = {} /\ reg'[e]["ui"] = reg[e]["ui"] /\ Called' /\ Engaged(e)' /\ Engaged(e)
        /\ pc'["callee"] = pc["callee"] /\ cr0'["callee"] = cr0["callee"]
    BY <1>1, <1>2 DEF IInv, TypeOK, Threads, Engaged, Called, End
  <1>7. /\ ice'[e] \notin {"check", "deliver"} => found[e] = {}
        /\ ice'[e] = ice[e] \/ (~Gone(e) /\ ice'[e] = IceStarted(e))
    <2>1. ice'[e] = ice[e] \/ (~Gone(e) /\ ice'[e] = IceStarted(e))
      BY <1>1 DEF IInv, TypeOK
    <2> QED
      BY <2>1 DEF IInv, SideInv, CandInv, IceStarted
  <1>8. SideInv(e)'
    <2>1. FreshInv(e)'
      BY <1>1, <1>2 DEF FreshInv
    <2>2. StartInv(e)'
      BY <1>1, <1>2, <1>6 DEF IInv, SideInv, StartInv, StartSteps, Threads, Starter, AnswerSteps
    <2>3. CloseInv(e)'
      <3>1. (Gone(e)' <=> Gone(e)) /\ (Unheard(e)' <=> Unheard(e))
        BY <1>1, <1>6 DEF Gone, Threads, Unheard
      <3>2. ice[e] = "joined" => ice'[e] = "joined"
        BY <1>7 DEF IceStarted
      <3> QED
        BY <1>1, <1>6, <3>1, <3>2 DEF IInv, SideInv, CloseInv, CloseSteps, Joined, Threads
    <2>4. CandInv(e)'
      BY <1>1, <1>2, <1>6, <1>7 DEF IInv, SideInv, CandInv, Starter, StartSteps, Gone, Threads
    <2>5. FlagInv(e)'
      <3>1. rg \subseteq Flags /\ fl \subseteq rg \cup {"RUNNING"}
        BY DEF IInv, TypeOK, Threads, fl
      <3>2. pc'[e]["bus"] \notin Storing /\ ~Answering(e)'
        BY <1>6 DEF Storing, ReceiveSteps, Answering
      <3>3. "REMOTE_CANDIDATE" \in fl => "REMOTE_CANDIDATE" \in rg
        BY <3>1
      <3> QED
        BY <1>1, <1>2, <1>3, <1>6, <3>2, <3>3 DEF IInv, SideInv, FlagInv, Threads
    <2> QED
      BY <2>1, <2>2, <2>3, <2>4, <2>5 DEF SideInv
  <1>9. Silent
    <2>1. Ok("caller")' => Ok("caller")
      BY <1>1, <1>2
    <2>2. \A t \in Threads : "RUNNING" \in reg'["caller"][t] => "RUNNING" \in reg["caller"][t]
      BY <1>2, <1>6 DEF Threads
    <2> QED
      BY <1>1, <1>2, <1>6, <2>1, <2>2 DEF Silent, LocalStep, HasAnswered, Answering
  <1> QED
    BY <1>4, <1>5, <1>8, <1>9, SilentKept, Combined

\* session-terminate marks the session, and the bus thread closes it.
LEMMA OnTerminateInv ==
    ASSUME IInv, NEW e \in End, OnTerminate(e)
    PROVE  IInv'
  <1> USE DEF session, jingle, transport
  <1> DEFINE st == IF "STOPPED" \notin cr0[e] /\ sess[e] # "none" THEN "stop" ELSE "idle"
  <1>0. "session-terminate" \in Actions /\ Receives(e, "session-terminate")
    BY DEF Actions, OnTerminate
  <1>1. /\ Ok(e) /\ pc[e]["bus"] = "idle" /\ net \in [End -> Seq(Messages)] /\ net[e] \in Seq(Messages)
        /\ net[e] # <<>> /\ net[e][1].action = "session-terminate"
        /\ Tail(net[e]) \in Seq(Messages) /\ Called /\ sess[e] # "none" /\ Engaged(e) /\ active[e]
    BY <1>0, MessageTaken
  <1>2. /\ net' = [net EXCEPT ![e] = Tail(@)] /\ cr0' = [cr0 EXCEPT ![e] = @ \cup {"STOPPED"}]
        /\ pc' = [pc EXCEPT ![e]["bus"] = st]
        /\ UNCHANGED <<session, state, listening, transport, hungup, reg, sent, got, fault>>
    BY DEF OnTerminate, Consumed, Goto
  <1>3. st \in {"stop", "idle"}
    OBVIOUS
  <1> HIDE DEF st
  <1>4. TypeOK'
    <2>1. net' \in [End -> Seq(Messages)]
      BY <1>1, <1>2
    <2>2. cr0' \in [End -> SUBSET Flags]
      BY <1>2 DEF IInv, TypeOK, Flags
    <2>3. /\ pc' \in [End -> [Threads -> {"idle"} \cup StartSteps \cup ReceiveSteps \cup AnswerSteps
                                      \cup CloseSteps]]
          /\ \A d \in End, t \in Threads : pc'[d][t] # "idle" => sess'[d] # "none"
      BY <1>1, <1>2, <1>3 DEF IInv, TypeOK, CloseSteps
    <2> QED
      BY <1>2, <2>1, <2>2, <2>3 DEF IInv, TypeOK
  <1>5. \A d \in End : d # e => Same(d)
    BY <1>2 DEF IInv, TypeOK, Same
  <1>6. /\ pc'[e]["bus"] = st /\ pc'[e]["ui"] = pc[e]["ui"] /\ cr0'[e] = cr0[e] \cup {"STOPPED"}
        /\ Called' /\ Engaged(e)'
    <2>1. /\ pc'[e]["bus"] = st /\ pc'[e]["ui"] = pc[e]["ui"] /\ cr0'[e] = cr0[e] \cup {"STOPPED"}
          /\ pc'["caller"]["ui"] = pc["caller"]["ui"]
      BY <1>2 DEF IInv, TypeOK, Threads, End
    <2> QED
      BY <1>1, <1>2, <2>1 DEF Engaged, Called
  <1>7. SideInv(e)'
    <2>1. FreshInv(e)'
      BY <1>1, <1>2 DEF FreshInv
    <2>2. StartInv(e)'
      BY <1>1, <1>2, <1>3, <1>6 DEF IInv, SideInv, StartInv, StartSteps, Threads, Starter,
                                    AnswerSteps
    <2>3. CloseInv(e)'
      <3>1. (Gone(e)' <=> Gone(e)) /\ (Unheard(e)' <=> Unheard(e))
        BY <1>1, <1>2, <1>3, <1>6 DEF Gone, Threads, Unheard
      <3> QED
        BY <1>1, <1>2, <1>3, <1>6, <3>1 DEF IInv, SideInv, CloseInv, CloseSteps, Joined, Threads
    <2>4. CandInv(e)'
      BY <1>1, <1>2, <1>3, <1>6 DEF IInv, SideInv, CandInv, Starter, StartSteps, Gone, Threads
    <2>5. FlagInv(e)'
      BY <1>1, <1>2, <1>3, <1>6 DEF IInv, SideInv, FlagInv, ReceiveSteps, Storing, Answering
    <2> QED
      BY <2>1, <2>2, <2>3, <2>4, <2>5 DEF SideInv
  <1>8. LocalStep
    <2>1. "RUNNING" \in cr0'["caller"] => "RUNNING" \in cr0["caller"]
      BY <1>2, <1>6 DEF IInv, TypeOK, End
    <2>2. HasAnswered => HasAnswered'
      <3>1. e = "callee" => ~Answering("callee")
        BY <1>1 DEF Answering
      <3>2. e # "callee" => pc'["callee"] = pc["callee"]
        BY <1>2 DEF IInv, TypeOK, End
      <3>3. "RUNNING" \in cr0["callee"] => "RUNNING" \in cr0'["callee"]
        BY <1>2 DEF IInv, TypeOK, End
      <3> QED
        BY <1>2, <3>1, <3>2, <3>3 DEF HasAnswered, Answering
    <2>3. /\ pc'["caller"]["bus"] = pc["caller"]["bus"] \/ pc'["caller"]["bus"] \in {"stop", "idle"}
          /\ \/ pc'["callee"]["bus"] = pc["callee"]["bus"]
             \/ pc["callee"]["bus"] = "idle" /\ pc'["callee"]["bus"] \in {"stop", "idle"}
      BY <1>1, <1>2, <1>3, <1>6 DEF IInv, TypeOK, End
    <2> QED
      BY <1>1, <1>2, <1>6, <2>1, <2>2, <2>3 DEF LocalStep, Ok, StartSteps, Replying, AnswerSteps
  <1>9. ~Names(net[e][1])
    BY <1>1 DEF Names
  <1>10. LinkInv'
    BY <1>1, <1>2, <1>8, <1>9, TakeKept
  <1> QED
    BY <1>4, <1>5, <1>7, <1>10, Combined

-----------------------------------------------------------------------------
(* The invariant of the specification and what follows from it. *)

\* Nothing has been called yet.
LEMMA InitInv == Init => IInv
  <1> SUFFICES ASSUME Init
               PROVE  IInv
    OBVIOUS
  <1> USE DEF Init
  <1>1. TypeOK
    BY DEF TypeOK
  <1>2. ASSUME NEW e \in End
        PROVE  SideInv(e)
    <2>1. pc[e]["ui"] = "idle" /\ pc[e]["bus"] = "idle" /\ pc[e][Starter(e)] = "idle"
      BY DEF Threads, Starter
    <2>2. ~Engaged(e) /\ ~Gone(e) /\ ~Unheard(e)
      BY <2>1 DEF Engaged, Called, Gone, Threads, End, Unheard
    <2>3. FreshInv(e) /\ StartInv(e)
      BY <2>1 DEF FreshInv, StartInv, StartSteps, Threads, AnswerSteps
    <2>4. CloseInv(e)
      BY <2>1, <2>2 DEF CloseInv, CloseSteps, Joined, Threads
    <2>5. CandInv(e) /\ FlagInv(e)
      BY <2>1, <2>2 DEF CandInv, FlagInv, ReceiveSteps, Threads, Storing, Answering
    <2> QED
      BY <2>3, <2>4, <2>5 DEF SideInv
  <1>3. \A d \in End : net[d] = <<>> /\ pc[d]["bus"] = "idle"
    BY DEF Threads
  <1>4. QuietInv /\ AnswerInv /\ AddressInv
    BY <1>3 DEF QuietInv, AnswerInv, AddressInv, Called, Has, Ordered, End, Threads, Replying,
                     AnswerSteps
  <1>5. TerminateInv
    BY <1>3, Sides DEF TerminateInv, Has
  <1> QED
    BY <1>1, <1>2, <1>4, <1>5 DEF IInv, LinkInv

\* No step of any thread of either side breaks it.
LEMMA NextInv == IInv /\ [Next]_vars => IInv'
  <1> SUFFICES ASSUME IInv, [Next]_vars
               PROVE  IInv'
    OBVIOUS
  <1>1. CASE PlaceCall
    BY <1>1, PlaceCallInv
  <1>2. ASSUME NEW e \in End, HangUp(e) \/ WorkerExit(e) \/ IceInsert(e) \/ Announce(e)
        PROVE  IInv'
    BY <1>2, HangUpInv, WorkerExitInv, IceInsertInv, IceCheckInv, IceDeliverInv DEF Announce
  <1>3. ASSUME NEW e \in End, Receive(e)
        PROVE  IInv'
    <2>1. CASE StoreInfo(e)
      BY <2>1, CallerStoreInfoInv, CalleeStoreInfoInv DEF End
    <2> QED
      BY <1>3, <2>1, OnInitiateInv, OnTransportInfoInv, OnAcceptInv, StoreAcceptInv, OnTerminateInv
         DEF Receive
  <1>4. ASSUME NEW e \in End, NEW t \in Threads, StartStep(e, t)
        PROVE  IInv'
    <2>1. CASE StartNotify(e, t)
      BY <2>1, CallerNotifyInv, CalleeNotifyInv DEF End
    <2>2. CASE StartInfo(e, t)
      BY <2>2, CallerInfoInv, CalleeInfoInv DEF End
    <2> QED
      BY <1>4, <2>1, <2>2, StartRunInv, StartActivateInv DEF StartStep
  <1>5. ASSUME NEW e \in End, NEW t \in Threads, CloseStep(e, t)
        PROVE  IInv'
    BY <1>5, CloseStopInv, CloseJoinInv, CloseDestroyedInv, CloseMarkInv, CloseUnsubscribeInv,
       CloseChannelsInv, CloseReapInv, CloseUnlinkInv DEF CloseStep
  <1>6. ASSUME NEW e \in End, NEW t \in Threads, AnswerStep(e, t)
        PROVE  IInv'
    BY <1>6, AnswerSendInv, AnswerLoadInv, StoreAnswerInv DEF AnswerStep
  <1>7. CASE UNCHANGED vars
    <2> USE <1>7 DEF vars, session, jingle, transport
    <2>1. TypeOK'
      BY DEF IInv, TypeOK
    <2>2. \A d \in End : Same(d)
      BY DEF Same
    <2>3. \A d \in End : SideInv(d)'
      BY <2>2, SideKept DEF IInv
    <2>4. Silent
      BY DEF Silent, LocalStep, HasAnswered, Called, Ok, Answering
    <2> QED
      BY <2>1, <2>3, <2>4, SilentKept DEF IInv
  <1> QED
    BY <1>1, <1>2, <1>3, <1>4, <1>5, <1>6, <1>7 DEF Next, ThreadStep

\* The invariant holds in every state of a call.
LEMMA Invariance == Spec => []IInv
  BY InitInv, NextInv, PTL DEF Spec

\* Fields hold what they may, and no thread works on a session that was never
\* opened.
THEOREM TypeCorrect == Spec => []TypeOK
  <1>1. IInv => TypeOK
    BY DEF IInv
  <1> QED
    BY <1>1, Invariance, PTL

\* A caller that considers the call running was answered by a callee that does
\* too, or is between sending session-accept and storing cr0, and it has an
\* address of the callee, unless the callee's user is hanging up; a callee that
\* considers the call running has an address of the caller.  This holds however
\* the two streams, the user interfaces and the threads that store cr0
\* interleave.
THEOREM AgreementHolds == Spec => []RunningAgreement
  <1>1. IInv => RunningAgreement
    <2> SUFFICES ASSUME IInv
                 PROVE  RunningAgreement
      OBVIOUS
    <2>1. "RUNNING" \in cr0["caller"] => HasAnswered
      BY DEF IInv, LinkInv, AnswerInv
    <2>2. "RUNNING" \in cr0["caller"] => got["caller"] # {} \/ hungup["callee"]
      BY DEF IInv, LinkInv, AddressInv
    <2>3. "RUNNING" \in cr0["callee"] => got["callee"] # {}
      BY DEF IInv, SideInv, FlagInv, End
    <2> QED
      BY <2>1, <2>2, <2>3 DEF RunningAgreement, HasAnswered, Answering
  <1> QED
    BY <1>1, Invariance, PTL

\* Every candidate of a started session was sent to the peer, by the list that
\* starts it or by the announcement of the ICE thread.
THEOREM CandidatesKept == Spec => []NoCandidateLost
  <1>1. IInv => NoCandidateLost
    <2> SUFFICES ASSUME IInv, NEW e \in End, active[e], listening[e], ice[e] \in {"off", "loop"},
                        \A t \in Threads : pc[e][t] \notin StartSteps
                 PROVE  local[e] \subseteq sent[e]
      BY DEF NoCandidateLost
    <2>1. pc[e][Starter(e)] \notin StartSteps
      BY DEF Starter, Threads
    <2> QED
      BY <2>1 DEF IInv, SideInv, CandInv
  <1> QED
    BY <1>1, Invariance, PTL

\* A session-terminate on its way was sent by a side whose user hung up.
THEOREM TerminatesAreOurs == Spec => []TerminateIsOurs
  <1>1. IInv => TerminateIsOurs
    BY DEF IInv, LinkInv, TerminateInv, TerminateIsOurs, Has
  <1> QED
    BY <1>1, Invariance, PTL

\* A closed session has joined its worker and its ICE thread.
THEOREM NoThreadLeft == Spec => []NoOrphanThread
  <1>1. IInv => NoOrphanThread
    BY DEF IInv, SideInv, CloseInv, NoOrphanThread
  <1> QED
    BY <1>1, Invariance, PTL

-----------------------------------------------------------------------------
(* A call as the two users see it. *)

\* No phase changes.
Unmoved == hungup' = hungup /\ \A d \in End : Phase(d)' = Phase(d)

\* Only e changes its phase, as its own user did not ask it to.
Moved(e, from, to) ==
    /\ hungup' = hungup
    /\ Phase(e) = from /\ Phase(e)' = to
    /\ \A d \in End : d # e => Phase(d)' = Phase(d)

\* Then the call is what it was.
LEMMA UnmovedStutters ==
    ASSUME Unmoved
    PROVE  UNCHANGED Abstract!vars
  <1>1. [d \in End |-> Phase(d)]' = [d \in End |-> Phase(d)]
    BY DEF Unmoved
  <1>2. {d \in End : hungup[d]}' = {d \in End : hungup[d]}
    BY DEF Unmoved
  <1> QED
    BY <1>1, <1>2 DEF Abstract!vars

\* Then the call moves on at e.
LEMMA MovedMoves ==
    ASSUME NEW e \in End, NEW from, NEW to, Moved(e, from, to)
    PROVE  /\ Abstract!Moves(e, {from}, to)
           /\ {d \in End : hungup[d]}' = {d \in End : hungup[d]}
  BY DEF Moved, Abstract!Moves

\* The answer is neither sent nor noted.
AnswerKept == \A d \in End : Answering(d)' <=> Answering(d)

\* A thread goes on without sending or noting the answer.
LEMMA AnswerNotMoved ==
    ASSUME IInv, NEW e \in End, NEW t \in Threads, NEW to, pc' = [pc EXCEPT ![e][t] = to],
           t = "ui" \/ (to \in {"answered", "store-answer"} <=> pc[e][t] \in {"answered", "store-answer"})
    PROVE  AnswerKept
  <1>1. \A d \in End : \A u \in Threads : pc'[d][u] = IF d = e /\ u = t THEN to ELSE pc[d][u]
    BY DEF IInv, TypeOK
  <1> QED
    BY <1>1 DEF AnswerKept, Answering, Threads

\* The caller never answers.
LEMMA CallerDoesNotAnswer ==
    ASSUME IInv
    PROVE  ~Answering("caller")
  BY DEF IInv, SideInv, StartInv, Answering, AnswerSteps, Threads, End

\* A side whose session, user, flags and answer stay as they were keeps its phase.
LEMMA PhaseSame ==
    ASSUME NEW d \in End, sess'[d] = sess[d], hungup'[d] = hungup[d],
           "STOPPED" \in cr0'[d] <=> "STOPPED" \in cr0[d],
           "RUNNING" \in cr0'[d] <=> "RUNNING" \in cr0[d],
           Answering(d)' <=> Answering(d)
    PROVE  Phase(d)' = Phase(d)
  BY DEF Phase

\* Nobody has called, in either view.
LEMMA AbstractInit == Init => Abstract!Init
  <1> SUFFICES ASSUME Init
               PROVE  Abstract!Init
    OBVIOUS
  <1>1. \A e \in End : sess[e] = "none" /\ ~hungup[e]
    BY DEF Init
  <1>2. \A e \in End : Phase(e) = "idle"
    BY <1>1 DEF Phase
  <1> QED
    BY <1>1, <1>2 DEF Abstract!Init, Abstract!End, End

\* A step that only changes what users do not see
LEMMA Hidden ==
    ASSUME sess' = sess, hungup' = hungup, cr0' = cr0, AnswerKept
    PROVE  UNCHANGED Abstract!vars
  BY PhaseSame, UnmovedStutters DEF Unmoved, AnswerKept

\* PlaceCall is Place.
LEMMA PlaceStep ==
    ASSUME IInv, PlaceCall
    PROVE  Abstract!Place
  <1>1. /\ "caller" \in End /\ sess["caller"] = "none" /\ sess' = [sess EXCEPT !["caller"] = "open"]
        /\ hungup' = hungup /\ cr0' = cr0 /\ AnswerKept
    <2>1. "ui" \in Threads /\ "caller" \in End /\ pc' = [pc EXCEPT !["caller"]["ui"] = "run"]
      BY DEF PlaceCall, Goto, Threads, End
    <2>2. AnswerKept
      BY <2>1, AnswerNotMoved
    <2> QED
      BY <2>1, <2>2 DEF PlaceCall
  <1>2. cr0["caller"] = {} /\ ~hungup["caller"] /\ sess'["caller"] = "open"
    BY <1>1 DEF IInv, SideInv, FreshInv, TypeOK
  <1>3. \A d \in End : d # "caller" => Phase(d)' = Phase(d)
    BY <1>1, PhaseSame DEF IInv, TypeOK, AnswerKept
  <1>4. Phase("caller") = "idle" /\ Phase("caller")' = "ringing"
    BY <1>1, <1>2, CallerDoesNotAnswer DEF Phase, AnswerKept
  <1> QED
    BY <1>1, <1>3, <1>4, MovedMoves DEF Moved, Abstract!Place

\* OnInitiate is Ring: the caller has placed the call.
LEMMA RingStep ==
    ASSUME IInv, NEW e \in End, OnInitiate(e)
    PROVE  Abstract!Ring
  <1>1. /\ net[e] # <<>> /\ sess[e] = "none" /\ sess' = [sess EXCEPT ![e] = "open"]
        /\ hungup' = hungup /\ cr0' = [cr0 EXCEPT ![e] = {"PENDING"}] /\ AnswerKept /\ ~Answering(e)
    <2>1. "bus" \in Threads /\ pc[e]["bus"] = "idle" /\ pc' = [pc EXCEPT ![e]["bus"] = "run"]
      BY DEF OnInitiate, Receives, At, Goto, Threads
    <2>2. AnswerKept
      BY <2>1, AnswerNotMoved
    <2> QED
      BY <2>1, <2>2 DEF OnInitiate, Receives, Answering
  <1>2. e = "callee" /\ sess["caller"] # "none" /\ "caller" \in End
    BY <1>1 DEF IInv, LinkInv, QuietInv, Called, End
  <1>3. ~hungup[e] /\ sess'[e] = "open" /\ cr0'[e] = {"PENDING"}
    BY <1>1 DEF IInv, SideInv, FreshInv, TypeOK
  <1>4. \A d \in End : d # e => Phase(d)' = Phase(d)
    BY <1>1, PhaseSame DEF IInv, TypeOK, AnswerKept
  <1>5. Phase(e) = "idle" /\ Phase(e)' = "ringing" /\ Phase("caller") # "idle"
    BY <1>1, <1>2, <1>3 DEF Phase, AnswerKept
  <1>6. [d \in End |-> Phase(d)]["caller"] # "idle"
    BY <1>2, <1>5
  <1> QED
    BY <1>1, <1>2, <1>4, <1>5, <1>6, MovedMoves DEF Moved, Abstract!Ring

\* Flags that a thread stores over others, where users see no difference on a
\* side whose own user has not hung up
LEMMA FlagsKept ==
    ASSUME IInv, NEW e \in End, NEW fl, cr0' = [cr0 EXCEPT ![e] = fl],
           sess' = sess, hungup' = hungup, AnswerKept,
           ~hungup[e] => /\ "STOPPED" \in fl <=> "STOPPED" \in cr0[e]
                         /\ "RUNNING" \in fl <=> "RUNNING" \in cr0[e]
    PROVE  UNCHANGED Abstract!vars
  <1>1. cr0'[e] = fl /\ \A d \in End : d # e => Phase(d)' = Phase(d)
    BY PhaseSame DEF IInv, TypeOK, AnswerKept
  <1>2. Phase(e)' = Phase(e)
    <2>1. CASE hungup[e]
      BY <2>1 DEF Phase
    <2>2. CASE ~hungup[e]
      BY <1>1, <2>2, PhaseSame DEF AnswerKept
    <2> QED
      BY <2>1, <2>2
  <1> QED
    BY <1>1, <1>2, UnmovedStutters DEF Unmoved

\* RUNNING is stored: a side that was about to answer, or that rang, talks.
LEMMA RunningStored ==
    ASSUME IInv, NEW e \in End, sess[e] # "none", NEW fl, cr0' = [cr0 EXCEPT ![e] = fl],
           sess' = sess, hungup' = hungup, "RUNNING" \in fl,
           \A d \in End : d # e => (Answering(d)' <=> Answering(d)),
           ~hungup[e] => ("STOPPED" \in fl <=> "STOPPED" \in cr0[e])
    PROVE  Unmoved \/ Moved(e, IF Answering(e) THEN "answering" ELSE "ringing", "talking")
  <1>1. cr0'[e] = fl /\ \A d \in End : d # e => Phase(d)' = Phase(d)
    BY PhaseSame DEF IInv, TypeOK
  <1>2. sess[e] \in {"open", "closed"}
    BY DEF IInv, TypeOK
  <1>3. \/ Phase(e)' = Phase(e)
        \/ Phase(e) = (IF Answering(e) THEN "answering" ELSE "ringing") /\ Phase(e)' = "talking"
    <2>1. CASE hungup[e] \/ sess[e] = "closed" \/ "STOPPED" \in cr0[e]
      BY <1>1, <1>2, <2>1 DEF Phase
    <2>2. CASE ~(hungup[e] \/ sess[e] = "closed" \/ "STOPPED" \in cr0[e])
      BY <1>1, <1>2, <2>2 DEF Phase
    <2> QED
      BY <2>1, <2>2
  <1> QED
    BY <1>1, <1>3 DEF Unmoved, Moved

\* session-accept is sent: the callee picks up.
LEMMA PickUpStep ==
    ASSUME IInv, NEW e \in End, NEW t \in Threads, Answer(e, t)
    PROVE  Abstract!PickUp \/ UNCHANGED Abstract!vars
  <1>1. /\ sess' = sess /\ hungup' = hungup /\ cr0' = cr0 /\ pc[e][t] = "answer"
        /\ pc' = [pc EXCEPT ![e][t] = "idle"] \/ pc' = [pc EXCEPT ![e][t] = "answered"]
    BY DEF Answer, At, Goto, session, jingle
  <1>2. e = "callee" /\ t = "bus" /\ sess[e] \in {"open", "closed"} /\ ~Answering(e)
    BY <1>1 DEF IInv, TypeOK, SideInv, StartInv, AnswerSteps, Answering
  <1>3. CASE pc' = [pc EXCEPT ![e][t] = "idle"]
    <2>1. AnswerKept
      BY <1>1, <1>3, AnswerNotMoved
    <2> QED
      BY <1>1, <2>1, Hidden
  <1>4. CASE pc' = [pc EXCEPT ![e][t] = "answered"]
    <2>1. Answering(e)' /\ \A d \in End : d # e => (Answering(d)' <=> Answering(d))
      BY <1>2, <1>4 DEF IInv, TypeOK, Answering
    <2>2. \A d \in End : d # e => Phase(d)' = Phase(d)
      BY <1>1, <2>1, PhaseSame
    <2>3. Phase(e)' = Phase(e) \/ (Phase(e) = "ringing" /\ Phase(e)' = "answering")
      BY <1>1, <1>2, <2>1 DEF Phase
    <2>4. CASE Phase(e)' = Phase(e)
      BY <1>1, <2>2, <2>4, UnmovedStutters DEF Unmoved
    <2>5. CASE Phase(e) = "ringing" /\ Phase(e)' = "answering"
      <3>1. Moved(e, "ringing", "answering")
        BY <1>1, <2>2, <2>5 DEF Moved
      <3> QED
        BY <1>2, <3>1, MovedMoves DEF Abstract!PickUp
    <2> QED
      BY <2>3, <2>4, <2>5
  <1> QED
    BY <1>1, <1>3, <1>4

\* The callee notes that the call is running: it talks.
LEMMA TalkStep ==
    ASSUME IInv, NEW e \in End, NEW t \in Threads, StoreAnswer(e, t)
    PROVE  Abstract!Talk \/ UNCHANGED Abstract!vars
  <1> DEFINE rg == reg[e][t]
             fl == (rg \ {"PENDING"}) \cup {"RUNNING"}
  <1>1. /\ sess' = sess /\ hungup' = hungup /\ pc[e][t] = "store-answer"
        /\ cr0' = [cr0 EXCEPT ![e] = fl] /\ pc' = [pc EXCEPT ![e][t] = "idle"]
    BY DEF StoreAnswer, At, Goto, session
  <1>2. e = "callee" /\ t = "bus" /\ sess[e] # "none" /\ Answering(e)
    BY <1>1 DEF IInv, TypeOK, SideInv, StartInv, AnswerSteps, Answering
  <1>3. ~hungup[e] => cr0[e] \subseteq rg /\ rg \subseteq cr0[e] \cup {"REMOTE_CANDIDATE"}
    BY <1>1, <1>2 DEF IInv, SideInv, FlagInv, Storing
  <1>4. "RUNNING" \in fl /\ (~hungup[e] => ("STOPPED" \in fl <=> "STOPPED" \in cr0[e]))
    BY <1>3
  <1>5. \A d \in End : d # e => (Answering(d)' <=> Answering(d))
    BY <1>1 DEF IInv, TypeOK, Answering
  <1> HIDE DEF fl
  <1>6. Unmoved \/ Moved(e, "answering", "talking")
    BY <1>1, <1>2, <1>4, <1>5, RunningStored
  <1>7. CASE Unmoved
    BY <1>7, UnmovedStutters
  <1>8. CASE Moved(e, "answering", "talking")
    BY <1>2, <1>8, MovedMoves DEF Abstract!Talk
  <1> QED
    BY <1>6, <1>7, <1>8

\* The flags of transport-info are stored: users see nothing.
LEMMA StoreInfoStep ==
    ASSUME IInv, NEW e \in End, StoreInfo(e)
    PROVE  UNCHANGED Abstract!vars
  <1> DEFINE rg == reg[e]["bus"]
  <1>1. /\ sess' = sess /\ hungup' = hungup /\ pc[e]["bus"] = "store-info" /\ "bus" \in Threads
        /\ cr0' = [cr0 EXCEPT ![e] = rg]
        /\ pc' = [pc EXCEPT ![e]["bus"] = "answer"] \/ pc' = [pc EXCEPT ![e]["bus"] = "idle"]
    BY DEF StoreInfo, At, GotoAnswer, Goto, session, Threads
  <1>2. AnswerKept
    BY <1>1, AnswerNotMoved
  <1>3. ~hungup[e] => cr0[e] \subseteq rg /\ rg \subseteq cr0[e] \cup {"REMOTE_CANDIDATE"}
    BY <1>1 DEF IInv, SideInv, FlagInv, ReceiveSteps, Storing
  <1>4. ~hungup[e] => /\ "STOPPED" \in rg <=> "STOPPED" \in cr0[e]
                      /\ "RUNNING" \in rg <=> "RUNNING" \in cr0[e]
    BY <1>3
  <1> HIDE DEF rg
  <1> QED
    BY <1>1, <1>2, <1>4, FlagsKept

\* session-accept is stored: the callee has answered.
LEMMA ConnectedStep ==
    ASSUME IInv, NEW e \in End, StoreAccept(e)
    PROVE  Abstract!Connected \/ UNCHANGED Abstract!vars
  <1> DEFINE rg == reg[e]["bus"]
             fl == (rg \ {"PENDING"}) \cup {"RUNNING"}
  <1>1. /\ sess' = sess /\ hungup' = hungup /\ pc[e]["bus"] = "store-accept"
        /\ cr0' = [cr0 EXCEPT ![e] = fl] /\ pc' = [pc EXCEPT ![e]["bus"] = "idle"]
    BY DEF StoreAccept, At, Goto, session
  <1>2. e = "caller" /\ sess[e] # "none" /\ HasAnswered /\ ~Answering(e)
    <2>1. e = "caller"
      BY <1>1 DEF IInv, LinkInv, QuietInv, End
    <2>2. sess[e] # "none"
      BY <1>1 DEF IInv, TypeOK, Threads
    <2> QED
      BY <1>1, <2>1, <2>2, CallerDoesNotAnswer DEF IInv, LinkInv, AnswerInv
  <1>3. ~hungup[e] => cr0[e] \subseteq rg /\ rg \subseteq cr0[e] \cup {"REMOTE_CANDIDATE"}
    BY <1>1 DEF IInv, SideInv, FlagInv, ReceiveSteps, Storing
  <1>4. "RUNNING" \in fl /\ (~hungup[e] => ("STOPPED" \in fl <=> "STOPPED" \in cr0[e]))
    BY <1>3
  <1>5. \A d \in End : d # e => (Answering(d)' <=> Answering(d))
    BY <1>1 DEF IInv, TypeOK, Answering
  <1> HIDE DEF fl
  <1>6. Unmoved \/ Moved(e, "ringing", "talking")
    BY <1>1, <1>2, <1>4, <1>5, RunningStored
  <1>7. [d \in End |-> Phase(d)]["callee"] \notin {"idle", "ringing"}
    <2>1. "callee" \in End /\ sess["callee"] \in {"open", "closed"}
      BY <1>2 DEF IInv, TypeOK, SideInv, FreshInv, HasAnswered, End, Answering, Threads
    <2>2. Phase("callee") \notin {"idle", "ringing"}
      BY <1>2, <2>1 DEF Phase, HasAnswered
    <2> QED
      BY <2>1, <2>2
  <1>8. CASE Unmoved
    BY <1>8, UnmovedStutters
  <1>9. CASE Moved(e, "ringing", "talking")
    BY <1>2, <1>7, <1>9, MovedMoves DEF Abstract!Connected
  <1> QED
    BY <1>6, <1>8, <1>9

\* A user hangs up.
LEMMA HangUpStep ==
    ASSUME IInv, NEW e \in End, HangUp(e)
    PROVE  Abstract!HangUp(e) \/ UNCHANGED Abstract!vars
  <1>1. /\ e \in HangsUp /\ sess[e] = "open" /\ sess' = sess /\ cr0' = cr0
        /\ hungup' = [hungup EXCEPT ![e] = TRUE] /\ hungup \in [End -> BOOLEAN]
        /\ AnswerKept
    <2>1. "ui" \in Threads /\ pc' = [pc EXCEPT ![e]["ui"] = "stop"]
      BY DEF HangUp, Goto, Threads
    <2>2. AnswerKept
      BY <2>1, AnswerNotMoved
    <2> QED
      BY <2>2 DEF HangUp, session, jingle, IInv, TypeOK
  <1>2. CASE hungup[e]
    <2>1. hungup' = hungup
      BY <1>1, <1>2
    <2> QED
      BY <1>1, <2>1, Hidden
  <1>3. CASE ~hungup[e]
    <2>1. Phase(e) \in {"ringing", "answering", "talking", "ending"} /\ Phase(e)' = "ending"
      BY <1>1 DEF Phase
    <2>2. \A d \in End : d # e => Phase(d)' = Phase(d)
      BY <1>1, PhaseSame DEF AnswerKept
    <2>3. /\ [d \in End |-> Phase(d)]' = [[d \in End |-> Phase(d)] EXCEPT ![e] = "ending"]
          /\ [d \in End |-> Phase(d)][e] \in {"ringing", "answering", "talking", "ending"}
      BY <2>1, <2>2
    <2>4. /\ {d \in End : hungup[d]}' = {d \in End : hungup[d]} \cup {e}
          /\ e \notin {d \in End : hungup[d]}
      BY <1>1, <1>3
    <2> QED
      BY <1>1, <2>3, <2>4 DEF Abstract!HangUp
  <1> QED
    BY <1>2, <1>3

\* session-terminate is obeyed: the user of the peer hung up.
LEMMA FollowStep ==
    ASSUME IInv, NEW e \in End, OnTerminate(e)
    PROVE  Abstract!Follow(e) \/ UNCHANGED Abstract!vars
  <1>0. "session-terminate" \in Actions /\ Receives(e, "session-terminate")
    BY DEF Actions, OnTerminate
  <1>1. Has(net[e], "session-terminate") /\ sess[e] # "none"
    BY <1>0, MessageTaken
  <1>2. /\ sess' = sess /\ hungup' = hungup /\ cr0' = [cr0 EXCEPT ![e] = @ \cup {"STOPPED"}]
        /\ AnswerKept
    <2>1. /\ "bus" \in Threads /\ pc[e]["bus"] = "idle"
          /\ pc' = [pc EXCEPT ![e]["bus"] = "stop"] \/ pc' = [pc EXCEPT ![e]["bus"] = "idle"]
      BY DEF OnTerminate, Receives, At, Goto, Threads
    <2>2. AnswerKept
      BY <2>1, AnswerNotMoved
    <2> QED
      BY <2>2 DEF OnTerminate, session
  <1> DEFINE p == Peer(e)
  <1>3. p \in End /\ hungup[p] /\ sess[p] # "none" /\ Abstract!Other(e) = p
    <2>1. p \in End /\ Peer(p) = e
      BY Sides
    <2>2. hungup[p]
      BY <1>1, <2>1 DEF IInv, LinkInv, TerminateInv
    <2>3. sess[p] # "none"
      BY <2>1, <2>2 DEF IInv, SideInv, FreshInv
    <2>4. Abstract!Other(e) = p
      BY DEF Abstract!Other, Abstract!End, Peer, End
    <2> QED
      BY <2>1, <2>2, <2>3, <2>4
  <1> HIDE DEF p
  <1>4. cr0'[e] = cr0[e] \cup {"STOPPED"} /\ \A d \in End : d # e => Phase(d)' = Phase(d)
    BY <1>2, PhaseSame DEF IInv, TypeOK, AnswerKept
  <1>5. sess[e] \in {"open", "closed"} /\ sess[p] \in {"open", "closed"}
    BY <1>1, <1>3 DEF IInv, TypeOK
  <1>6. \/ Phase(e)' = Phase(e)
        \/ Phase(e) \in {"ringing", "answering", "talking"} /\ Phase(e)' = "ending"
    BY <1>2, <1>4, <1>5 DEF Phase, AnswerKept
  <1>7. CASE Phase(e)' = Phase(e)
    BY <1>2, <1>4, <1>7, UnmovedStutters DEF Unmoved
  <1>8. CASE Phase(e) \in {"ringing", "answering", "talking"} /\ Phase(e)' = "ending"
    <2>1. [d \in End |-> Phase(d)][p] \in {"ending", "over"}
      BY <1>3, <1>5 DEF Phase
    <2>2. /\ [d \in End |-> Phase(d)]' = [[d \in End |-> Phase(d)] EXCEPT ![e] = "ending"]
          /\ [d \in End |-> Phase(d)][e] \in {"ringing", "answering", "talking"}
      BY <1>4, <1>8
    <2>3. {d \in End : hungup[d]} # {} /\ {d \in End : hungup[d]}' = {d \in End : hungup[d]}
      BY <1>2, <1>3
    <2> QED
      BY <1>3, <2>1, <2>2, <2>3 DEF Abstract!Follow, Abstract!Moves
  <1> QED
    BY <1>6, <1>7, <1>8

\* x_session_close has finished: its user or the peer had left.
LEMMA FinishStep ==
    ASSUME IInv, NEW e \in End, NEW t \in Threads, CloseUnlink(e, t)
    PROVE  Abstract!Finish(e) \/ UNCHANGED Abstract!vars
  <1>1. /\ pc[e][t] = "unlink" /\ sess' = [sess EXCEPT ![e] = "closed"] /\ hungup' = hungup /\ cr0' = cr0
        /\ AnswerKept
    <2>1. pc[e][t] = "unlink" /\ pc' = [pc EXCEPT ![e][t] = "idle"]
      BY DEF CloseUnlink, At, Goto
    <2>2. AnswerKept
      BY <2>1, AnswerNotMoved
    <2> QED
      BY <2>1, <2>2 DEF CloseUnlink, jingle
  <1>2. sess'[e] = "closed" /\ sess[e] \in {"open", "closed"} /\ \A d \in End : d # e => Phase(d)' = Phase(d)
    BY <1>1, PhaseSame DEF IInv, TypeOK, AnswerKept
  <1>3. hungup[e] \/ "STOPPED" \in cr0[e]
    BY <1>1 DEF IInv, SideInv, CloseInv, CloseSteps, Threads
  <1>4. Phase(e)' = "over" /\ Phase(e) \in {"ending", "over"}
    BY <1>2, <1>3 DEF Phase
  <1>5. CASE Phase(e) = "over"
    BY <1>1, <1>2, <1>4, <1>5, UnmovedStutters DEF Unmoved
  <1>6. CASE Phase(e) = "ending"
    BY <1>1, <1>2, <1>4, <1>6, MovedMoves DEF Moved, Abstract!Finish
  <1> QED
    BY <1>4, <1>5, <1>6

\* Every step is one of the call or leaves it as it is.
LEMMA AbstractNext == IInv /\ [Next]_vars => [Abstract!Next]_Abstract!vars
  <1> SUFFICES ASSUME IInv, [Next]_vars
               PROVE  Abstract!Next \/ UNCHANGED Abstract!vars
    OBVIOUS
  <1> USE DEF session, jingle, transport
  <1>1. CASE PlaceCall
    BY <1>1, PlaceStep DEF Abstract!Next
  <1>2. ASSUME NEW e \in End, HangUp(e)
        PROVE  Abstract!Next \/ UNCHANGED Abstract!vars
    BY <1>2, HangUpStep DEF Abstract!Next, Abstract!End, End
  <1>3. ASSUME NEW e \in End, WorkerExit(e) \/ IceInsert(e) \/ Announce(e)
        PROVE  UNCHANGED Abstract!vars
    <2>1. sess' = sess /\ hungup' = hungup /\ cr0' = cr0 /\ pc' = pc
      BY <1>3 DEF WorkerExit, IceInsert, Announce, IceCheck, IceDeliver
    <2>2. AnswerKept
      BY <2>1 DEF AnswerKept, Answering
    <2> QED
      BY <2>1, <2>2, Hidden
  <1>4. ASSUME NEW e \in End, Receive(e)
        PROVE  Abstract!Next \/ UNCHANGED Abstract!vars
    <2>1. CASE OnInitiate(e)
      BY <2>1, RingStep DEF Abstract!Next
    <2>2. CASE OnTransportInfo(e) \/ OnAccept(e)
      <3>1. /\ sess' = sess /\ hungup' = hungup /\ cr0' = cr0 /\ pc[e]["bus"] = "idle"
            /\ \/ pc' = pc
               \/ pc' = [pc EXCEPT ![e]["bus"] = "store-info"]
               \/ pc' = [pc EXCEPT ![e]["bus"] = "store-accept"]
        BY <2>2 DEF OnTransportInfo, OnAccept, Receives, At, Goto
      <3>2. CASE pc' = pc
        BY <3>1, <3>2, Hidden DEF AnswerKept, Answering
      <3>3. CASE pc' # pc
        <4>1. "bus" \in Threads
          BY DEF Threads
        <4>2. AnswerKept
          BY <3>1, <3>3, <4>1, AnswerNotMoved
        <4> QED
          BY <3>1, <4>2, Hidden
      <3> QED
        BY <3>2, <3>3
    <2>3. CASE StoreInfo(e)
      BY <2>3, StoreInfoStep
    <2>4. CASE StoreAccept(e)
      BY <2>4, ConnectedStep DEF Abstract!Next
    <2>5. CASE OnTerminate(e)
      BY <2>5, FollowStep DEF Abstract!Next, Abstract!End, End
    <2> QED
      BY <1>4, <2>1, <2>2, <2>3, <2>4, <2>5 DEF Receive
  <1>5. ASSUME NEW e \in End, NEW t \in Threads, StartStep(e, t)
        PROVE  UNCHANGED Abstract!vars
    <2>1. /\ sess' = sess /\ hungup' = hungup /\ pc[e][t] \in StartSteps
          /\ \E to \in {"activate", "notify", "info", "answer", "idle"} : pc' = [pc EXCEPT ![e][t] = to]
      BY <1>5 DEF StartStep, StartRun, StartActivate, StartNotify, StartInfo, GotoAnswer, Goto, At,
                  StartSteps
    <2>2. AnswerKept
      <3>1. PICK to \in {"activate", "notify", "info", "answer", "idle"} : pc' = [pc EXCEPT ![e][t] = to]
        BY <2>1
      <3>2. /\ to \notin {"answered", "store-answer"}
            /\ pc[e][t] \notin {"answered", "store-answer"}
        BY <2>1 DEF StartSteps
      <3> QED
        BY <3>1, <3>2, AnswerNotMoved
    <2>3. CASE cr0' = cr0
      BY <2>1, <2>2, <2>3, Hidden
    <2>4. CASE cr0' # cr0
      <3>1. cr0' = [cr0 EXCEPT ![e] = {"PENDING"}] /\ state[e] = "OUTCOMING" /\ pc[e][t] = "notify"
        BY <1>5, <2>4 DEF StartStep, StartRun, StartActivate, StartNotify, StartInfo, At
      <3>2. e = "caller" /\ t = "ui"
        BY <3>1 DEF IInv, SideInv, StartInv, StartSteps, Starter, End
      <3>3. cr0[e] = {}
        BY <3>1, <3>2 DEF IInv, LinkInv, QuietInv, Called
      <3> QED
        BY <2>1, <2>2, <3>1, <3>3, FlagsKept
    <2> QED
      BY <2>3, <2>4
  <1>6. ASSUME NEW e \in End, NEW t \in Threads, CloseStep(e, t)
        PROVE  Abstract!Next \/ UNCHANGED Abstract!vars
    <2>1. CASE CloseUnlink(e, t)
      BY <2>1, FinishStep DEF Abstract!Next, Abstract!End, End
    <2>2. CASE ~CloseUnlink(e, t)
      <3>1. /\ sess' = sess /\ hungup' = hungup /\ pc[e][t] \in CloseSteps
            /\ \E to \in CloseSteps : pc' = [pc EXCEPT ![e][t] = to]
        BY <1>6, <2>2 DEF CloseStep, CloseStop, CloseJoin, CloseDestroyed, CloseUnsubscribe,
                          CloseChannels, CloseReap, CloseMark, At, Goto, CloseSteps
      <3>2. AnswerKept
        <4>1. PICK to \in CloseSteps : pc' = [pc EXCEPT ![e][t] = to]
          BY <3>1
        <4>2. /\ to \notin {"answered", "store-answer"}
              /\ pc[e][t] \notin {"answered", "store-answer"}
          BY <3>1 DEF CloseSteps
        <4> QED
          BY <4>1, <4>2, AnswerNotMoved
      <3>3. CASE CloseMark(e, t)
        <4>1. pc[e][t] = "mark" /\ cr0' = [cr0 EXCEPT ![e] = reg[e][t] \cup {"STOPPED"}]
          BY <3>3 DEF CloseMark, At
        <4>2. hungup[e]
          BY <4>1 DEF IInv, SideInv, CloseInv, CloseSteps, Threads
        <4> QED
          BY <3>1, <3>2, <4>1, <4>2, FlagsKept
      <3>4. CASE ~CloseMark(e, t)
        <4>1. cr0' = cr0
          BY <1>6, <2>2, <3>4 DEF CloseStep, CloseStop, CloseJoin, CloseDestroyed,
                                  CloseUnsubscribe, CloseChannels, CloseReap
        <4> QED
          BY <3>1, <3>2, <4>1, Hidden
      <3> QED
        BY <3>3, <3>4
    <2> QED
      BY <2>1, <2>2
  <1>7. ASSUME NEW e \in End, NEW t \in Threads, AnswerStep(e, t)
        PROVE  Abstract!Next \/ UNCHANGED Abstract!vars
    <2>1. CASE Answer(e, t)
      BY <2>1, PickUpStep DEF Abstract!Next
    <2>2. CASE AnswerLoad(e, t)
      <3>1. /\ sess' = sess /\ hungup' = hungup /\ cr0' = cr0 /\ pc[e][t] = "answered"
            /\ pc' = [pc EXCEPT ![e][t] = "store-answer"]
        BY <2>2 DEF AnswerLoad, At, Goto
      <3>2. AnswerKept
        BY <3>1, AnswerNotMoved
      <3> QED
        BY <3>1, <3>2, Hidden
    <2>3. CASE StoreAnswer(e, t)
      BY <2>3, TalkStep DEF Abstract!Next
    <2> QED
      BY <1>7, <2>1, <2>2, <2>3 DEF AnswerStep
  <1>8. CASE UNCHANGED vars
    BY <1>8, Hidden DEF vars, AnswerKept, Answering
  <1> QED
    BY <1>1, <1>2, <1>3, <1>4, <1>5, <1>6, <1>7, <1>8 DEF Next, ThreadStep

\* The two sides make a call as Call describes it: the caller talks only to a
\* callee that has said that it answers (and may be about to note that itself),
\* no side goes back to an earlier phase, and none leaves a call that no user
\* left.
THEOREM CallRefined == Spec => MakesACall
  <1>1. Spec => Abstract!Init /\ [][Abstract!Next]_Abstract!vars
    BY Invariance, AbstractInit, AbstractNext, PTL DEF Spec
  <1> QED
    BY <1>1 DEF MakesACall, Abstract!Spec

=============================================================================
