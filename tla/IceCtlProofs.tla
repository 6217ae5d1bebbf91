---------------------------- MODULE IceCtlProofs -----------------------------
(***************************************************************************)
(* Proofs about IceCtl, for any number of candidates, of addresses a STUN  *)
(* server shows and of payload types.                                      *)
(***************************************************************************)
EXTENDS IceCtl, ListFacts

Threads == {"bus", "ice"}

\* __icectl_insert_local_candidate is running.
Inserting == pc.ice \in {"insert", "push"}

\* The times "c_pairs_top++" may have been executed: once for each remote
\* candidate when it arrived, and once for each of them with each address
\* learned since; of the address being inserted, only the remotes it is past.
Loads ==
    IF Inserting THEN Cardinality(locals) * Len(remotes) + (cand - 1)
    ELSE Cardinality(locals) * Len(remotes) + Len(remotes)

\* A push that has loaded the top and not stored it yet is counted as well, so
\* a top that goes backwards, because the other thread stored first, is no harm.
PushesCounted ==
    /\ cand <= Len(remotes) + 1
    /\ Inserting => locals # {}
    /\ top <= Loads
    /\ \A t \in Threads : push[t].slot <= Loads

\* Only an address that answers for itself can have succeeded, be about to be
\* chosen, or be chosen.
Answered(r) == r # NoPair => DataPort[r] = r

DataPortsOnly ==
    /\ Answered(last)
    /\ Answered(hit)
    /\ \A i \in 1 .. Capacity :
           slots[i] # NoPair /\ slots[i].state = "SUCCEEDED" => Answered(slots[i].remote)
    /\ \A t \in Threads : push[t] # NoPush => push[t].pair.state = "WAITING"

\* The cache explains the references, until the removal has put them.
RefsExact ==
    /\ removal = "done" => worker = "exited"
    /\ \A p \in Media : refs[p] = IF p \in cache /\ removal # "done" THEN 1 ELSE 0

IInv == TypeOK /\ PushesCounted /\ DataPortsOnly /\ RefsExact

-----------------------------------------------------------------------------
(* Facts about the operators. *)

\* The pair a walk stops at is one of those it looks for.
LEMMA FirstIn ==
    ASSUME NEW S \in SUBSET Nat, S # {}
    PROVE  First(S) \in S
  BY LeastExists DEF First

\* Server reflexive candidates are finitely many, and at most those a server
\* may show.
LEMMA LocalsCount ==
    ASSUME NEW L \in SUBSET Srflx
    PROVE  /\ Cardinality(L) \in Nat
           /\ Cardinality(Srflx) \in Nat
           /\ Cardinality(L) <= Cardinality(Srflx)
           /\ L # {} => Cardinality(L) >= 1
           /\ \A a \in Srflx \ L : Cardinality(L \cup {a}) = Cardinality(L) + 1
  <1>1. IsFiniteSet(Srflx) /\ IsFiniteSet(L)
    BY BoundAssumption, FS_Subset
  <1>2. /\ Cardinality(L) \in Nat /\ Cardinality(Srflx) \in Nat
        /\ Cardinality(L) <= Cardinality(Srflx)
    BY <1>1, FS_Subset, FS_CardinalityType
  <1>3. L # {} => Cardinality(L) >= 1
    BY <1>1, <1>2, FS_EmptySet
  <1>4. \A a \in Srflx \ L : Cardinality(L \cup {a}) = Cardinality(L) + 1
    BY <1>1, FS_AddElement
  <1> QED
    BY <1>2, <1>3, <1>4

\* The arithmetic of the count of pushes.
LEMMA Products ==
    ASSUME NEW k \in Nat, NEW n \in Nat, NEW m \in Nat, NEW s \in Nat, n <= m, k <= s
    PROVE  /\ k * n \in Nat
           /\ k * n + n <= m * (1 + s)
           /\ k * n + n = n * (1 + k)
           /\ (k + 1) * n = k * n + n
           /\ k * (n + 1) = k * n + k
  <1>1. k * n \in Nat /\ k * n <= s * m
    OBVIOUS
  <1>2. m * (1 + s) = m + s * m /\ s * m \in Nat
    OBVIOUS
  <1> QED
    BY <1>1, <1>2

\* The pushes counted are never more than the stack has room for.
LEMMA LoadsFit ==
    ASSUME TypeOK, PushesCounted
    PROVE  /\ Loads \in Nat /\ Capacity \in Nat
           /\ Loads <= Len(remotes) * (1 + Cardinality(locals))
           /\ Loads <= Capacity
  <1> DEFINE n == Len(remotes)
             k == Cardinality(locals)
             s == Cardinality(Srflx)
  <1>1. n \in Nat /\ n <= MaxRemotes /\ MaxRemotes \in Nat /\ cand \in Nat
        /\ cand >= 1 /\ cand <= n + 1
    BY BoundAssumption DEF TypeOK, PushesCounted
  <1>2. k \in Nat /\ s \in Nat /\ k <= s
    BY LocalsCount DEF TypeOK
  <1>3. Loads = IF Inserting THEN k * n + (cand - 1) ELSE k * n + n
    BY DEF Loads
  <1>4. Capacity = MaxRemotes * (1 + s)
    BY DEF Capacity
  <1>6. MaxRemotes * (1 + s) \in Nat
    BY <1>1, <1>2
  <1> HIDE DEF n, k, s
  <1>5. /\ k * n \in Nat /\ k * n + n <= MaxRemotes * (1 + s)
        /\ k * n + n = n * (1 + k)
    BY <1>1, <1>2, Products
  <1>7. Loads \in Nat /\ Loads <= k * n + n
    BY <1>1, <1>3, <1>5
  <1> QED
    BY <1>1, <1>4, <1>5, <1>6, <1>7 DEF n, k

-----------------------------------------------------------------------------
(* Parts of the state a step leaves alone. *)

\* A step that neither pushes nor moves the loop over the remotes
LEMMA CountKept ==
    ASSUME PushesCounted, UNCHANGED <<remotes, locals, cand, top, push>>,
           Inserting' = Inserting
    PROVE  PushesCounted'
  BY DEF PushesCounted, Loads

\* A step that neither stores a pair nor chooses an address
LEMMA DataKept ==
    ASSUME DataPortsOnly, UNCHANGED <<slots, push, last, hit>>
    PROVE  DataPortsOnly'
  BY DEF DataPortsOnly

\* A step that leaves the cache and the removal alone
LEMMA RefsKept ==
    ASSUME RefsExact, UNCHANGED <<worker, owner, removal>>
    PROVE  RefsExact'
  BY DEF RefsExact, owner

\* A thread loads the top: one more push is counted, so there is room for it.
LEMMA LoadedInv ==
    ASSUME TypeOK, TypeOK', PushesCounted, DataPortsOnly, NEW t \in Threads, NEW r \in Remote,
           Loaded(t, r), UNCHANGED <<top, slots, choice>>,
           Loads' \in Nat, Loads' >= Loads + 1,
           cand' <= Len(remotes') + 1, Inserting' => locals' # {}
    PROVE  PushesCounted' /\ DataPortsOnly'
  <1>1. Loads \in Nat /\ top <= Loads /\ top \in Nat
    BY LoadsFit DEF PushesCounted, TypeOK
  <1>2. \A u \in Threads : push'[u].slot <= Loads'
    <2> SUFFICES ASSUME NEW u \in Threads PROVE push'[u].slot <= Loads'
      OBVIOUS
    <2>1. CASE u = t
      BY <2>1, <1>1 DEF Loaded, TypeOK, Threads
    <2>2. CASE u # t
      <3>1. push'[u] = push[u] /\ push[u] \in Pushes
        BY <2>2 DEF Loaded, TypeOK, Threads
      <3>2. push[u].slot \in Nat
        BY <3>1 DEF Pushes, NoPush
      <3> QED
        BY <1>1, <3>1, <3>2 DEF PushesCounted
    <2> QED
      BY <2>1, <2>2
  <1>3. PushesCounted'
    BY <1>1, <1>2 DEF PushesCounted
  <1>4. \A u \in Threads : push'[u] # NoPush => push'[u].pair.state = "WAITING"
    BY DEF Loaded, TypeOK, Threads, NewPair, DataPortsOnly
  <1> QED
    BY <1>3, <1>4 DEF DataPortsOnly, choice

\* One of the two stores.  A pair that is stored has not succeeded, and the top
\* that is stored was counted when it was loaded.
LEMMA StoreInv ==
    ASSUME TypeOK, PushesCounted, DataPortsOnly, NEW t \in Threads, NEW after,
           Store(t, after), UNCHANGED <<remotes, locals, cand, choice>>,
           Inserting' = Inserting
    PROVE  /\ slots' \in [1 .. Capacity -> Pairs \cup {NoPair}]
           /\ top' \in 0 .. Capacity
           /\ push' \in [Threads -> Pushes]
           /\ PushesCounted'
           /\ DataPortsOnly'
  <1>1. PICK what \in push[t].todo :
            /\ IF what = "top"
               THEN top' = push[t].slot /\ UNCHANGED slots
               ELSE slots' = [slots EXCEPT ![push[t].slot] = push[t].pair] /\ UNCHANGED top
            /\ IF push[t].todo = {what}
               THEN push' = [push EXCEPT ![t] = NoPush]
               ELSE push' = [push EXCEPT ![t].todo = @ \ {what}]
    BY DEF Store
  <1>2. /\ push[t] \in [slot : 1 .. Capacity, pair : Pairs,
                        todo : (SUBSET {"top", "pair"}) \ {{}}]
        /\ push[t] # NoPush
    BY <1>1 DEF TypeOK, Pushes, NoPush, Threads
  <1>3. Capacity \in Nat /\ Loads \in Nat
    BY LoadsFit
  <1>4. slots' \in [1 .. Capacity -> Pairs \cup {NoPair}]
    BY <1>1, <1>2 DEF TypeOK
  <1>5. top' \in 0 .. Capacity
    BY <1>1, <1>2, <1>3 DEF TypeOK
  <1> DEFINE q == IF push[t].todo = {what} THEN NoPush
                  ELSE [push[t] EXCEPT !.todo = @ \ {what}]
  <1>6. push' = [push EXCEPT ![t] = q] /\ push \in [Threads -> Pushes]
    BY <1>1 DEF TypeOK, Threads
  <1>7. q \in Pushes /\ (q # NoPush => q.pair = push[t].pair) /\ (q.slot = 0 \/ q.slot = push[t].slot)
    <2>1. CASE push[t].todo = {what}
      BY <2>1 DEF Pushes, NoPush
    <2>2. CASE push[t].todo # {what}
      <3>1. push[t].todo \ {what} \in (SUBSET {"top", "pair"}) \ {{}}
        BY <1>1, <1>2, <2>2
      <3>2. q = [push[t] EXCEPT !.todo = push[t].todo \ {what}]
        BY <2>2
      <3> QED
        BY <1>2, <3>1, <3>2 DEF Pushes
    <2> QED
      BY <2>1, <2>2
  <1> HIDE DEF q
  <1>8. push' \in [Threads -> Pushes]
    BY <1>6, <1>7
  <1>9. \A u \in Threads : push'[u] = IF u = t THEN q ELSE push[u]
    BY <1>6
  <1>10. Loads' = Loads
    BY DEF Loads
  <1>11. PushesCounted'
    <2>1. top' <= Loads
      BY <1>1 DEF PushesCounted
    <2>2. \A u \in Threads : push'[u].slot <= Loads
      BY <1>3, <1>7, <1>9 DEF PushesCounted
    <2> QED
      BY <1>10, <2>1, <2>2 DEF PushesCounted
  <1>12. DataPortsOnly'
    <2>1. push[t].pair.state = "WAITING"
      BY <1>2 DEF DataPortsOnly
    <2>2. \A u \in Threads : push'[u] # NoPush => push'[u].pair.state = "WAITING"
      BY <1>7, <1>9, <2>1 DEF DataPortsOnly
    <2>3. \A i \in 1 .. Capacity :
             slots'[i] = slots[i] \/ slots'[i] = push[t].pair
      BY <1>1, <1>2 DEF TypeOK
    <2>4. ASSUME NEW i \in 1 .. Capacity, slots'[i] # NoPair, slots'[i].state = "SUCCEEDED"
          PROVE  Answered(slots'[i].remote)
      BY <2>1, <2>3, <2>4 DEF DataPortsOnly
    <2> QED
      BY <2>2, <2>4 DEF DataPortsOnly, choice, Answered
  <1> QED
    BY <1>4, <1>5, <1>8, <1>11, <1>12

-----------------------------------------------------------------------------
(* Every action preserves the invariant. *)

\* The initial state.
LEMMA InitInv ==
    Init => IInv
  <1> SUFFICES ASSUME Init PROVE IInv
    OBVIOUS
  <1>1. Cardinality({}) = 0 /\ Capacity \in Nat /\ MaxRemotes \in Nat
    <2>1. Cardinality(Srflx) \in Nat
      BY BoundAssumption, FS_CardinalityType
    <2> QED
      BY <2>1, BoundAssumption, FS_EmptySet DEF Capacity
  <1>2. TypeOK
    <2>1. NoPush \in Pushes
      BY DEF Pushes
    <2> QED
      <3>1. remotes \in Seq(Remote) /\ Len(remotes) = 0
        BY DEF Init
      <3>2. /\ slots \in [1 .. Capacity -> Pairs \cup {NoPair}]
            /\ refs \in [Media -> 0 .. 1]
            /\ push \in [{"bus", "ice"} -> Pushes]
            /\ top \in 0 .. Capacity /\ cand \in 1 .. MaxRemotes + 1
        BY <1>1, <2>1 DEF Init
      <3>3. started \in BOOLEAN /\ ready \in BOOLEAN
        BY DEF Init
      <3>4. pc \in [bus : {"idle", "bit", "push"},
                    ice : {"idle", "flag", "nominate", "insert", "push"}]
        BY DEF Init
      <3>5. 0 <= MaxRemotes
        BY <1>1
      <3>6. /\ worker \in {"none", "loop", "exited"} /\ locals \subseteq Srflx
            /\ hit \in Remote \cup {NoPair} /\ last \in Remote \cup {NoPair}
            /\ asked \subseteq Remote /\ cache \subseteq Media
            /\ removal \in {"no", "stop", "join", "done"}
        BY DEF Init
      <3> QED
        BY <3>1, <3>2, <3>3, <3>4, <3>5, <3>6 DEF TypeOK
  <1>3. PushesCounted
    BY <1>1 DEF Init, PushesCounted, Loads, Inserting, NoPush, Threads
  <1>4. DataPortsOnly
    BY DEF Init, DataPortsOnly, Answered, Threads
  <1>5. RefsExact
    BY DEF Init, RefsExact
  <1> QED
    BY <1>2, <1>3, <1>4, <1>5 DEF IInv

\* The bus thread: the ICE thread is started, and the peer's candidates are
\* paired with the host candidates.
LEMMA BusInv ==
    ASSUME IInv, Assign \/ BusStep \/ \E r \in Remote : Install(r)
    PROVE  IInv'
  <1> USE DEF IInv
  <1>1. CASE Assign
    <2>1. TypeOK'
      BY <1>1 DEF Assign, BusAt, TypeOK, table, choice, owner
    <2>2. RefsExact'
      BY <1>1 DEF Assign, BusAt, RefsExact, owner
    <2>3. Inserting' = Inserting
      BY <1>1 DEF Assign, Inserting, TypeOK
    <2> QED
      BY <1>1, <2>1, <2>2, <2>3, CountKept, DataKept DEF Assign, table, choice
  <1>2. CASE SetStarted
    <2>1. TypeOK'
      BY <1>2 DEF SetStarted, TypeOK, table, choice, owner
    <2>2. Inserting' = Inserting
      BY <1>2 DEF SetStarted, Inserting, TypeOK
    <2> QED
      BY <1>2, <2>1, <2>2, CountKept, DataKept, RefsKept DEF SetStarted, table, choice
  <1>3. CASE BusPush
    <2>1. /\ Store("bus", "idle") /\ "bus" \in Threads
          /\ UNCHANGED <<worker, started, remotes, locals, cand, choice, asked, owner, removal>>
      BY <1>3 DEF BusPush, Threads
    <2>2. pc' = pc \/ pc' = [pc EXCEPT !["bus"] = "idle"]
      BY <2>1 DEF Store
    <2>3. /\ Inserting' = Inserting
          /\ pc' \in [bus : {"idle", "bit", "push"},
                      ice : {"idle", "flag", "nominate", "insert", "push"}]
      BY <2>2 DEF Inserting, TypeOK
    <2>4. /\ slots' \in [1 .. Capacity -> Pairs \cup {NoPair}]
          /\ top' \in 0 .. Capacity
          /\ push' \in [Threads -> Pushes]
          /\ PushesCounted'
          /\ DataPortsOnly'
      BY <2>1, <2>3, StoreInv
    <2>5. TypeOK'
      BY <2>1, <2>3, <2>4 DEF TypeOK, Threads, choice, owner
    <2> QED
      BY <2>1, <2>4, <2>5, RefsKept
  <1>4. ASSUME NEW r \in Remote, Install(r)
        PROVE  IInv'
    <2> DEFINE n == Len(remotes)
               k == Cardinality(locals)
    <2>1. /\ n \in Nat /\ n < MaxRemotes /\ remotes' \in Seq(Remote) /\ Len(remotes') = n + 1
          /\ pc' = [pc EXCEPT !.bus = "push"] /\ cand' = cand /\ locals' = locals
          /\ cand \in Nat /\ cand >= 1 /\ cand <= n + 1
      BY <1>4, BoundAssumption DEF Install, TypeOK, PushesCounted
    <2>2. k \in Nat /\ (locals # {} => k >= 1) /\ k <= Cardinality(Srflx) /\ Cardinality(Srflx) \in Nat
      BY LocalsCount DEF TypeOK
    <2>3. Inserting' = Inserting /\ (Inserting => k >= 1)
      BY <2>1, <2>2 DEF Inserting, TypeOK, PushesCounted
    <2>4. Loads = IF Inserting THEN k * n + (cand - 1) ELSE k * n + n
      BY DEF Loads
    <2>5. Loads' = IF Inserting THEN k * (n + 1) + (cand - 1) ELSE k * (n + 1) + (n + 1)
      BY <2>1, <2>3 DEF Loads
    <2>a. n + 1 \in Nat /\ n + 1 <= MaxRemotes /\ MaxRemotes \in Nat
      BY <2>1, BoundAssumption
    <2> HIDE DEF n, k
    <2>6. /\ k * n \in Nat /\ k * (n + 1) = k * n + k
          /\ k * (n + 1) + (n + 1) <= MaxRemotes * (1 + Cardinality(Srflx))
      <3>1. k * n \in Nat /\ k * (n + 1) = k * n + k
        BY <2>1, <2>2, Products
      <3>2. k * (n + 1) + (n + 1) <= MaxRemotes * (1 + Cardinality(Srflx))
        BY <2>a, <2>2, Products
      <3> QED
        BY <3>1, <3>2
    <2>7. Loads' \in Nat /\ Loads' >= Loads + 1 /\ Loads' <= Capacity /\ Loads \in Nat
      <3> DEFINE a == k * n
                 b == k * (n + 1)
      <3>2. /\ Loads = IF Inserting THEN a + (cand - 1) ELSE a + n
            /\ Loads' = IF Inserting THEN b + (cand - 1) ELSE b + (n + 1)
        BY <2>4, <2>5
      <3>3. a \in Nat /\ b = a + k /\ b + (n + 1) <= Capacity
        BY <2>6 DEF Capacity
      <3>4. Capacity \in Nat
        BY LoadsFit
      <3>5. n \in Nat /\ cand \in Nat /\ cand >= 1 /\ cand <= n + 1 /\ k \in Nat
        BY <2>1, <2>2
      <3> HIDE DEF a, b, IInv
      <3>6. CASE Inserting
        BY <2>3, <3>2, <3>3, <3>4, <3>5, <3>6
      <3>7. CASE ~Inserting
        BY <3>2, <3>3, <3>4, <3>5, <3>7
      <3> QED
        BY <3>6, <3>7
    <2>8. top + 1 \in 1 .. Capacity
      BY <2>7, LoadsFit DEF TypeOK, PushesCounted
    <2>9. Loaded("bus", r) /\ "bus" \in Threads
          /\ UNCHANGED <<worker, started, locals, slots, top, cand, choice, asked, owner, removal>>
      BY <1>4 DEF Install, Threads
    <2>10. push' \in [Threads -> Pushes]
      <3>1. [slot |-> top + 1, pair |-> NewPair(r), todo |-> {"top", "pair"}] \in Pushes
        <4>1. {"top", "pair"} \in (SUBSET {"top", "pair"}) \ {{}}
          OBVIOUS
        <4>2. NewPair(r) \in Pairs
          BY DEF NewPair, Pairs, CheckStates
        <4> QED
          BY <2>8, <4>1, <4>2 DEF Pushes
      <3> QED
        BY <2>9, <3>1 DEF Loaded, TypeOK, Threads
    <2>11. TypeOK'
      BY <2>1, <2>9, <2>10, <2>a DEF TypeOK, Threads, choice, owner
    <2>12. cand' <= Len(remotes') + 1 /\ (Inserting' => locals' # {})
      BY <2>1, <2>3 DEF PushesCounted
    <2>13. PushesCounted' /\ DataPortsOnly'
      BY <2>7, <2>9, <2>11, <2>12, LoadedInv
    <2> QED
      BY <2>9, <2>11, <2>13, RefsKept
  <1> QED
    BY <1>1, <1>2, <1>3, <1>4 DEF BusStep

\* The ICE thread sends checks and hears the answers.  An answer comes from a
\* data port, so the pair it makes succeed has one.
LEMMA CheckInv ==
    ASSUME IInv, Periodic \/ WorkerExit \/ \E r \in Remote : OnAnswer(r) \/ Lose(r)
    PROVE  IInv'
  <1> USE DEF IInv
  <1>0. Visible \subseteq 1 .. Capacity /\ Visible \subseteq Nat /\ \A i \in Visible : slots[i] \in Pairs
    <2>1. Capacity \in Nat
      BY LoadsFit
    <2> QED
      BY <2>1 DEF Visible, TypeOK
  <1>1. CASE Periodic
    <2>1. Unfinished \subseteq 1 .. Capacity /\ \A i \in Unfinished : slots[i] \in Pairs
      BY <1>0 DEF Unfinished
    <2>2. /\ slots' = [i \in 1 .. Capacity |->
                          IF i \in Unfinished THEN [slots[i] EXCEPT !.state = "IN_PROGRESS"]
                          ELSE slots[i]]
          /\ asked' = asked \cup {slots[i].remote : i \in Unfinished}
          /\ UNCHANGED <<worker, started, remotes, locals, top, push, cand, pc, choice, owner, removal>>
      BY <1>1 DEF Periodic, Resend, TypeOK
    <2>3. \A i \in Unfinished : /\ [slots[i] EXCEPT !.state = "IN_PROGRESS"] \in Pairs
                                /\ [slots[i] EXCEPT !.state = "IN_PROGRESS"].state = "IN_PROGRESS"
                                /\ slots[i].remote \in Remote
      BY <2>1 DEF Pairs, CheckStates
    <2>4. slots' \in [1 .. Capacity -> Pairs \cup {NoPair}] /\ asked' \subseteq Remote
      BY <2>2, <2>3 DEF TypeOK
    <2>5. TypeOK'
      BY <2>2, <2>4 DEF TypeOK, choice, owner
    <2>6. DataPortsOnly'
      BY <2>2, <2>3 DEF DataPortsOnly, choice, Answered
    <2> QED
      BY <2>2, <2>5, <2>6, CountKept, RefsKept DEF Inserting
  <1>2. CASE WorkerExit
    <2>1. TypeOK'
      BY <1>2 DEF WorkerExit, TypeOK, table, choice, owner
    <2>2. RefsExact'
      BY <1>2 DEF WorkerExit, IceAt, RefsExact, owner
    <2> QED
      BY <1>2, <2>1, <2>2, CountKept, DataKept DEF WorkerExit, table, choice, Inserting
  <1>3. ASSUME NEW r \in Remote, OnAnswer(r)
        PROVE  IInv'
    <2> DEFINE from == AnswerFrom(r)
               S == {i \in Visible : slots[i].state = "IN_PROGRESS" /\ slots[i].remote = from}
    <2>1. /\ IceAt("idle")
          /\ IF S = {} THEN UNCHANGED <<slots, hit, pc>>
             ELSE /\ slots' = [slots EXCEPT ![First(S)].state = "SUCCEEDED"]
                  /\ IF ready THEN UNCHANGED <<hit, pc>>
                     ELSE hit' = from /\ Goto("flag")
          /\ UNCHANGED <<worker, started, remotes, locals, top, push, cand, ready, last, asked, owner, removal>>
      BY <1>3 DEF OnAnswer
    <2>2. from \in Remote /\ DataPort[from] = from
      BY PeerAssumption DEF AnswerFrom
    <2>3. CASE S = {}
      <3>1. TypeOK'
        BY <2>1, <2>3 DEF TypeOK, owner
      <3> QED
        BY <2>1, <2>3, <3>1, CountKept, DataKept, RefsKept DEF Inserting
    <2>4. CASE S # {}
      <3>1. S \subseteq Nat
        BY <1>0
      <3>2. First(S) \in S
        BY <2>4, <3>1, FirstIn
      <3>3. PICK i \in 1 .. Capacity : i = First(S) /\ slots[i] \in Pairs /\ slots[i].remote = from
        BY <1>0, <3>2
      <3>4. /\ slots' = [slots EXCEPT ![i] = [slots[i] EXCEPT !.state = "SUCCEEDED"]]
            /\ hit' = hit \/ hit' = from
            /\ pc' = pc \/ Goto("flag")
        BY <2>1, <2>4, <3>3 DEF TypeOK
      <3>5. /\ [slots[i] EXCEPT !.state = "SUCCEEDED"] \in Pairs
            /\ [slots[i] EXCEPT !.state = "SUCCEEDED"].remote = from
        BY <3>3 DEF Pairs, CheckStates
      <3>6. /\ slots' \in [1 .. Capacity -> Pairs \cup {NoPair}]
            /\ \A j \in 1 .. Capacity : slots'[j] = slots[j] \/ slots'[j].remote = from
        BY <3>4, <3>5 DEF TypeOK
      <3>7. /\ pc' \in [bus : {"idle", "bit", "push"},
                        ice : {"idle", "flag", "nominate", "insert", "push"}]
            /\ Inserting' = Inserting
        BY <2>1, <3>4 DEF TypeOK, Goto, Inserting, IceAt
      <3>8. TypeOK'
        BY <2>1, <2>2, <3>4, <3>6, <3>7 DEF TypeOK, owner
      <3>9. DataPortsOnly'
        <4>1. Answered(last') /\ Answered(hit')
          BY <2>1, <2>2, <3>4 DEF DataPortsOnly, Answered
        <4>2. ASSUME NEW j \in 1 .. Capacity, slots'[j] # NoPair, slots'[j].state = "SUCCEEDED"
              PROVE  Answered(slots'[j].remote)
          BY <2>2, <3>6, <4>2 DEF DataPortsOnly, Answered
        <4> QED
          BY <2>1, <4>1, <4>2 DEF DataPortsOnly, Answered
      <3> QED
        BY <2>1, <3>7, <3>8, <3>9, CountKept, RefsKept
    <2> QED
      BY <2>3, <2>4
  <1>4. ASSUME NEW r \in Remote, Lose(r)
        PROVE  IInv'
    <2>1. TypeOK'
      BY <1>4 DEF Lose, TypeOK, table, choice, owner
    <2> QED
      BY <1>4, <2>1, CountKept, DataKept, RefsKept DEF Lose, table, choice, Inserting
  <1> QED
    BY <1>1, <1>2, <1>3, <1>4

\* The ICE thread chooses an address, and pairs an address of its own that a
\* STUN server showed with the remote candidates.
LEMMA ChooseInv ==
    ASSUME IInv, IceStep \/ \E a \in Srflx : OnMapped(a)
    PROVE  IInv'
  <1> USE DEF IInv
  <1>1. CASE SetFlag
    <2>1. TypeOK'
      BY <1>1 DEF SetFlag, TypeOK, table, owner, Goto
    <2>2. Inserting' = Inserting
      BY <1>1 DEF SetFlag, Inserting, TypeOK, IceAt, Goto
    <2> QED
      BY <1>1, <2>1, <2>2, CountKept, DataKept, RefsKept DEF SetFlag, table
  <1>2. CASE Nominate
    <2>1. TypeOK'
      BY <1>2 DEF Nominate, TypeOK, table, owner, Goto
    <2>2. Inserting' = Inserting
      BY <1>2 DEF Nominate, Inserting, TypeOK, IceAt, Goto
    <2>3. DataPortsOnly'
      BY <1>2 DEF Nominate, DataPortsOnly, table, Answered
    <2> QED
      BY <1>2, <2>1, <2>2, <2>3, CountKept, RefsKept DEF Nominate, table
  <1>3. CASE IcePush
    <2>1. /\ Store("ice", "insert") /\ "ice" \in Threads /\ pc.ice = "push"
          /\ UNCHANGED <<worker, started, remotes, locals, cand, choice, asked, owner, removal>>
      BY <1>3 DEF IcePush, Threads, IceAt
    <2>2. pc' = pc \/ pc' = [pc EXCEPT !["ice"] = "insert"]
      BY <2>1 DEF Store
    <2>3. /\ Inserting' = Inserting
          /\ pc' \in [bus : {"idle", "bit", "push"},
                      ice : {"idle", "flag", "nominate", "insert", "push"}]
      BY <2>1, <2>2 DEF Inserting, TypeOK
    <2>4. /\ slots' \in [1 .. Capacity -> Pairs \cup {NoPair}]
          /\ top' \in 0 .. Capacity
          /\ push' \in [Threads -> Pushes]
          /\ PushesCounted'
          /\ DataPortsOnly'
      BY <2>1, <2>3, StoreInv
    <2>5. TypeOK'
      BY <2>1, <2>3, <2>4 DEF TypeOK, Threads, choice, owner
    <2> QED
      BY <2>1, <2>4, <2>5, RefsKept
  <1>4. CASE InsertNext
    <2> DEFINE n == Len(remotes)
               k == Cardinality(locals)
    <2>1. /\ n \in Nat /\ cand \in Nat /\ cand >= 1 /\ cand <= n + 1
          /\ n <= MaxRemotes /\ MaxRemotes \in Nat
          /\ k \in Nat /\ k <= Cardinality(Srflx) /\ Cardinality(Srflx) \in Nat
      BY LocalsCount, BoundAssumption DEF TypeOK, PushesCounted
    <2>2. /\ Inserting /\ pc.ice = "insert"
          /\ UNCHANGED <<worker, started, remotes, locals, slots, top, choice, asked, owner, removal>>
      BY <1>4 DEF InsertNext, IceAt, Inserting
    <2>3. Loads = k * n + (cand - 1)
      BY <2>2 DEF Loads
    <2>4. Loads \in Nat /\ Capacity \in Nat /\ top <= Loads /\ top \in Nat
      BY LoadsFit DEF TypeOK, PushesCounted
    <2> DEFINE a == k * n
    <2>5. Loads = a + (cand - 1) /\ a \in Nat /\ a + n <= Capacity
      <3>1. a \in Nat /\ a + n <= MaxRemotes * (1 + Cardinality(Srflx))
        <4> HIDE DEF n, k
        <4> QED BY <2>1, Products
      <3> QED
        BY <2>3, <3>1 DEF Capacity
    <2>6. CASE cand <= Len(remotes)
      <3>0. cand' = cand + 1
        BY <1>4, <2>6 DEF InsertNext
      <3>1. /\ Loaded("ice", remotes[cand]) /\ cand' = cand + 1 /\ pc' = [pc EXCEPT !.ice = "push"]
            /\ "ice" \in Threads /\ remotes[cand] \in Remote
        BY <1>4, <2>1, <2>6 DEF InsertNext, Goto, Threads, TypeOK
      <3>2. Inserting'
        BY <3>1 DEF Inserting, TypeOK
      <3>3. Loads' = a + (cand' - 1)
        BY <2>2, <3>2 DEF Loads
      <3> HIDE DEF a, IInv
      <3>4. Loads' \in Nat /\ Loads' >= Loads + 1 /\ top + 1 \in 1 .. Capacity /\ cand' <= n + 1
        BY <2>1, <2>4, <2>5, <2>6, <3>0, <3>3
      <3> USE DEF IInv
      <3>5. push' \in [Threads -> Pushes]
        <4>1. {"top", "pair"} \in (SUBSET {"top", "pair"}) \ {{}}
          OBVIOUS
        <4>2. NewPair(remotes[cand]) \in Pairs
          BY <3>1 DEF NewPair, Pairs, CheckStates
        <4>3. [slot |-> top + 1, pair |-> NewPair(remotes[cand]), todo |-> {"top", "pair"}] \in Pushes
          BY <3>4, <4>1, <4>2 DEF Pushes
        <4> QED
          BY <3>1, <4>3 DEF Loaded, TypeOK, Threads
      <3>6. cand' \in 1 .. MaxRemotes + 1
        BY <2>1, <2>6, <3>1
      <3>7. TypeOK'
        BY <2>2, <3>1, <3>5, <3>6 DEF TypeOK, Threads, choice, owner
      <3>8. locals' # {}
        BY <2>2 DEF PushesCounted
      <3>9. PushesCounted' /\ DataPortsOnly'
        BY <2>2, <3>1, <3>4, <3>7, <3>8, LoadedInv
      <3> QED
        BY <2>2, <3>7, <3>9, RefsKept
    <2>7. CASE ~(cand <= Len(remotes))
      <3>1. cand' = 1 /\ pc' = [pc EXCEPT !.ice = "idle"] /\ push' = push
        BY <1>4, <2>7 DEF InsertNext, Goto
      <3>2. TypeOK'
        BY <2>1, <2>2, <3>1 DEF TypeOK, choice, owner
      <3>3. ~Inserting'
        BY <3>1 DEF Inserting, TypeOK
      <3>4. Loads' = a + n
        BY <2>2, <3>3 DEF Loads
      <3>5. Loads' = Loads
        <4> HIDE DEF a
        <4> QED BY <2>1, <2>5, <2>7, <3>4
      <3>6. PushesCounted'
        BY <2>1, <2>2, <3>1, <3>3, <3>5 DEF PushesCounted
      <3> QED
        BY <2>2, <3>1, <3>2, <3>6, DataKept, RefsKept DEF choice
    <2> QED
      BY <2>6, <2>7
  <1>5. ASSUME NEW a \in Srflx, OnMapped(a)
        PROVE  IInv'
    <2> DEFINE n == Len(remotes)
               k == Cardinality(locals)
    <2>1. /\ a \notin locals /\ locals' = locals \cup {a} /\ cand' = 1 /\ pc.ice = "idle"
          /\ pc' = [pc EXCEPT !.ice = "insert"]
          /\ UNCHANGED <<worker, started, remotes, slots, top, push, choice, asked, owner, removal>>
      BY <1>5 DEF OnMapped, IceAt, Goto
    <2>2. /\ n \in Nat /\ MaxRemotes \in Nat /\ k \in Nat /\ Cardinality(locals') = k + 1
          /\ n <= MaxRemotes /\ k <= Cardinality(Srflx) /\ Cardinality(Srflx) \in Nat
      BY <2>1, LocalsCount, BoundAssumption DEF TypeOK
    <2>3. TypeOK'
      BY <2>1, <2>2 DEF TypeOK, choice, owner
    <2>4. ~Inserting /\ Inserting'
      BY <2>1 DEF Inserting, TypeOK
    <2>5. Loads = k * n + n /\ Loads' = (k + 1) * n + (1 - 1)
      BY <2>1, <2>2, <2>4 DEF Loads
    <2>6. Loads' = Loads
      <3> HIDE DEF n, k
      <3>1. (k + 1) * n = k * n + n /\ k * n \in Nat
        BY <2>2, Products
      <3> QED
        BY <2>2, <2>5, <3>1
    <2>7. PushesCounted'
      BY <2>1, <2>2, <2>6 DEF PushesCounted
    <2> QED
      BY <2>1, <2>3, <2>7, DataKept, RefsKept DEF choice
  <1> QED
    BY <1>1, <1>2, <1>3, <1>4, <1>5 DEF IceStep

\* Media and the removal: a packet from the peer takes a reference at most once
\* for each payload type, and the removal puts them after the thread has ended.
LEMMA MediaInv ==
    ASSUME IInv, (\E p \in Media : OnRtp(p)) \/ TryWrite \/ Remove \/ RemoveStep
    PROVE  IInv'
  <1> USE DEF IInv
  <1>1. ASSUME NEW p \in Media, OnRtp(p)
        PROVE  IInv'
    <2>1. /\ worker = "loop" /\ p \notin cache /\ cache' = cache \cup {p} /\ refs[p] = 0
          /\ refs' = [refs EXCEPT ![p] = refs[p] + 1] /\ removal # "done"
          /\ UNCHANGED <<worker, started, table, pc, choice, asked, removal>>
      BY <1>1 DEF OnRtp, IceAt, RefsExact
    <2>2. refs' \in [Media -> 0 .. 1] /\ cache' \subseteq Media
      BY <2>1 DEF TypeOK
    <2>3. TypeOK'
      BY <2>1, <2>2 DEF TypeOK, table, choice
    <2>4. RefsExact'
      BY <2>1 DEF RefsExact, TypeOK
    <2> QED
      BY <2>1, <2>3, <2>4, CountKept, DataKept DEF table, choice, Inserting
  <1>2. CASE TryWrite
    <2> DEFINE S == {i \in Visible : slots[i].state = "SUCCEEDED" /\ slots[i].remote \in EvenPort}
    <2>1. /\ S # {} /\ last' = slots[First(S)].remote
          /\ UNCHANGED <<worker, started, table, pc, hit, ready, asked, owner, removal>>
      BY <1>2 DEF TryWrite
    <2>2. Capacity \in Nat
      BY LoadsFit
    <2>3. S \subseteq Nat /\ S \subseteq 1 .. Capacity /\ \A i \in S : slots[i] # NoPair
      BY <2>2 DEF Visible, TypeOK
    <2>4. First(S) \in S
      BY <2>1, <2>3, FirstIn
    <2>5. PICK i \in 1 .. Capacity :
              /\ i = First(S) /\ slots[i] # NoPair /\ slots[i].state = "SUCCEEDED"
              /\ slots[i].remote \in EvenPort
      BY <2>3, <2>4
    <2>6. last' \in Remote /\ Answered(last')
      BY <2>1, <2>5, PeerAssumption DEF DataPortsOnly
    <2>7. TypeOK'
      BY <2>1, <2>6 DEF TypeOK, table, owner
    <2>8. DataPortsOnly'
      BY <2>1, <2>6 DEF DataPortsOnly, table, Answered
    <2> QED
      BY <2>1, <2>7, <2>8, CountKept, RefsKept DEF table, Inserting
  <1>3. CASE Remove
    <2>1. TypeOK'
      BY <1>3 DEF Remove, TypeOK, table, owner
    <2>2. RefsExact'
      BY <1>3 DEF Remove, RefsExact, owner
    <2> QED
      BY <1>3, <2>1, <2>2, CountKept, DataKept DEF Remove, table, Inserting
  <1>4. CASE Stop
    <2>1. TypeOK'
      BY <1>4 DEF Stop, TypeOK, table, choice, owner
    <2>2. RefsExact'
      BY <1>4 DEF Stop, RefsExact, owner
    <2> QED
      BY <1>4, <2>1, <2>2, CountKept, DataKept DEF Stop, table, choice, Inserting
  <1>5. CASE Release
    <2>1. \A p \in Media : refs'[p] = 0
      BY <1>5 DEF Release, RefsExact, TypeOK
    <2>2. refs' \in [Media -> 0 .. 1]
      <3>1. refs' = [p \in Media |-> IF p \in cache THEN refs[p] - 1 ELSE refs[p]]
        BY <1>5 DEF Release
      <3> QED
        BY <2>1, <3>1
    <2>3. TypeOK'
      BY <1>5, <2>2 DEF Release, TypeOK, table, choice
    <2>4. RefsExact'
      BY <1>5, <2>1 DEF Release, RefsExact
    <2> QED
      BY <1>5, <2>3, <2>4, CountKept, DataKept DEF Release, table, choice, Inserting
  <1> QED
    BY <1>1, <1>2, <1>3, <1>4, <1>5 DEF RemoveStep

\* A step that changes nothing.
LEMMA StutterInv ==
    ASSUME IInv, UNCHANGED vars
    PROVE  IInv'
  <1> USE DEF vars, table, choice, owner
  <1>1. TypeOK'
    BY DEF IInv, TypeOK
  <1> QED
    BY <1>1, CountKept, DataKept, RefsKept DEF IInv, Inserting

-----------------------------------------------------------------------------
(* Theorems. *)

\* The invariant holds in every state of every behaviour.
THEOREM Invariance == Spec => []IInv
  <1>1. IInv /\ [Next]_vars => IInv'
    BY BusInv, CheckInv, ChooseInv, MediaInv, StutterInv DEF Next
  <1> QED
    BY <1>1, InitInv, PTL DEF Spec

\* Variables keep their types: in particular a slot that is stored to is one of
\* the Capacity slots of c_pairs, whatever the two threads that push do.
THEOREM TypeCorrect == Spec => []TypeOK
  <1>1. IInv => TypeOK
    BY DEF IInv
  <1> QED
    BY <1>1, Invariance, PTL

\* c_pairs never holds more than one pair for each remote candidate with the
\* host candidates and one with each address learned later, although its top is
\* incremented by two threads without a lock.
THEOREM StackFits == Spec => []PairsFit
  <1>1. IInv => PairsFit
    <2> SUFFICES ASSUME IInv PROVE PairsFit
      OBVIOUS
    <2> DEFINE room == Len(remotes) * (1 + Cardinality(locals))
    <2>1. Loads \in Nat /\ Loads <= room /\ room \in Nat
      <3>1. Len(remotes) \in Nat /\ Cardinality(locals) \in Nat
        BY LocalsCount DEF IInv, TypeOK
      <3> QED
        BY <3>1, LoadsFit DEF IInv
    <2>2. top \in Nat /\ \A t \in Threads : push[t].slot \in Nat
      <3>1. Capacity \in Nat
        BY LoadsFit DEF IInv
      <3>2. \A t \in Threads : push[t] \in Pushes
        BY DEF IInv, TypeOK, Threads
      <3> QED
        BY <3>1, <3>2 DEF IInv, TypeOK, Pushes, NoPush
    <2> HIDE DEF room
    <2>3. top <= room /\ \A t \in Threads : push[t].slot <= room
      BY <2>1, <2>2 DEF IInv, PushesCounted
    <2> QED
      BY <2>3 DEF PairsFit, Threads, room
  <1> QED
    BY <1>1, Invariance, PTL

\* The address media is sent to is a data port: neither thread that chooses it
\* can choose another.
THEOREM MediaReachesData == Spec => []MediaToDataPort
  <1>1. IInv => MediaToDataPort
    BY DEF IInv, DataPortsOnly, Answered, MediaToDataPort
  <1> QED
    BY <1>1, Invariance, PTL

\* When icectl_on_remove is done the thread has ended and every reference to a
\* media object has been put exactly once.
THEOREM RemovalComplete == Spec => []NothingLeft
  <1>1. IInv => NothingLeft
    BY DEF IInv, RefsExact, NothingLeft
  <1> QED
    BY <1>1, Invariance, PTL

\* The address, once chosen by the ICE thread or by a media thread, stays.
THEOREM ChosenOnce == Spec => ChoiceKept
  <1>1. [Next]_vars => [last # NoPair => last' = last]_vars
    <2> SUFFICES ASSUME Next, last # NoPair PROVE last' = last
      OBVIOUS
    <2> USE DEF choice
    <2>1. CASE Assign \/ BusStep \/ \E r \in Remote : Install(r)
      BY <2>1 DEF Assign, BusStep, SetStarted, BusPush, Install
    <2>2. CASE Periodic \/ WorkerExit \/ \E r \in Remote : OnAnswer(r) \/ Lose(r)
      BY <2>2 DEF Periodic, WorkerExit, OnAnswer, Lose
    <2>3. CASE IceStep \/ \E a \in Srflx : OnMapped(a)
      BY <2>3 DEF IceStep, SetFlag, Nominate, InsertNext, IcePush, OnMapped
    <2>4. CASE (\E p \in Media : OnRtp(p)) \/ TryWrite \/ Remove \/ RemoveStep
      BY <2>4 DEF OnRtp, TryWrite, Remove, RemoveStep, Stop, Release
    <2> QED
      BY <2>1, <2>2, <2>3, <2>4 DEF Next
  <1> QED
    BY <1>1, PTL DEF Spec, ChoiceKept
=============================================================================
