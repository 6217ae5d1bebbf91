-------------------------- MODULE XListenersProofs ---------------------------
(***************************************************************************)
(* Proofs about XListeners, for any number of listeners and followers and  *)
(* for lists of any length.                                                *)
(***************************************************************************)
EXTENDS XListeners, ListFacts

-----------------------------------------------------------------------------
(* How many cells of a list an object has. *)

At(s, o) == {i \in DOMAIN s : s[i] = o}

\* The cells of an object are finitely many.
LEMMA TimesType ==
    ASSUME NEW S, NEW s \in Seq(S), NEW o
    PROVE  /\ IsFiniteSet(At(s, o)) /\ Times(s, o) = Cardinality(At(s, o)) /\ Times(s, o) \in Nat
           /\ Times(s, o) = 0 <=> o \notin Entries(s)
  <1>1. DOMAIN s = 1 .. Len(s) /\ Len(s) \in Nat
    BY LenProperties
  <1>2. IsFiniteSet(At(s, o))
    <2>1. IsFiniteSet(1 .. Len(s))
      BY <1>1, FS_Interval
    <2>2. At(s, o) \subseteq 1 .. Len(s)
      BY <1>1 DEF At
    <2> QED
      BY <2>1, <2>2, FS_Subset
  <1>3. Times(s, o) = Cardinality(At(s, o))
    BY DEF Times, At
  <1>4. Times(s, o) \in Nat
    BY <1>2, <1>3, FS_CardinalityType
  <1>5. Times(s, o) = 0 <=> At(s, o) = {}
    BY <1>2, <1>3, FS_EmptySet
  <1> QED
    BY <1>2, <1>3, <1>4, <1>5 DEF At, Entries

\* The empty list has no cells.
LEMMA TimesEmpty ==
    ASSUME NEW o
    PROVE  Times(<<>>, o) = 0
  <1>1. {i \in DOMAIN <<>> : <<>>[i] = o} = {}
    OBVIOUS
  <1> QED
    BY <1>1, FS_EmptySet DEF Times

\* A list of one cell
LEMMA TimesOne ==
    ASSUME NEW e, NEW o
    PROVE  Times(<<e>>, o) = IF e = o THEN 1 ELSE 0
  <1>1. {i \in DOMAIN <<e>> : <<e>>[i] = o} = IF e = o THEN {1} ELSE {}
    OBVIOUS
  <1> QED
    BY <1>1, FS_EmptySet, FS_Singleton DEF Times

\* A list put behind another: the cells of both.
LEMMA TimesConcat ==
    ASSUME NEW S, NEW s \in Seq(S), NEW t \in Seq(S), NEW o
    PROVE  Times(s \o t, o) = Times(s, o) + Times(t, o)
  <1> DEFINE n == Len(s)
             u == s \o t
             B == {i \in n + 1 .. n + Len(t) : u[i] = o}
             f == [j \in At(t, o) |-> n + j]
  <1>1. /\ n \in Nat /\ Len(t) \in Nat /\ DOMAIN s = 1 .. n /\ DOMAIN t = 1 .. Len(t)
    BY LenProperties
  <1>2. /\ u \in Seq(S) /\ Len(u) = n + Len(t)
        /\ \A i \in 1 .. n + Len(t) : u[i] = IF i <= n THEN s[i] ELSE t[i - n]
    BY ConcatProperties
  <1>3. DOMAIN u = 1 .. n + Len(t)
    BY <1>2, LenProperties
  <1> HIDE DEF n, u
  <1>4. At(u, o) = At(s, o) \cup B /\ At(s, o) \cap B = {}
    <2>1. \A i \in 1 .. n : i \in 1 .. n + Len(t) /\ u[i] = s[i] /\ i \notin n + 1 .. n + Len(t)
      BY <1>1, <1>2
    <2>2. \A i \in 1 .. n + Len(t) : i \in 1 .. n \/ i \in n + 1 .. n + Len(t)
      BY <1>1
    <2>3. \A i \in n + 1 .. n + Len(t) : i \in 1 .. n + Len(t)
      BY <1>1
    <2> QED
      BY <1>1, <1>3, <2>1, <2>2, <2>3 DEF At
  <1>5. \A j \in 1 .. Len(t) : n + j \in n + 1 .. n + Len(t) /\ u[n + j] = t[j]
    <2> SUFFICES ASSUME NEW j \in 1 .. Len(t)
                 PROVE  n + j \in n + 1 .. n + Len(t) /\ u[n + j] = t[j]
      OBVIOUS
    <2>1. n + j \in n + 1 .. n + Len(t) /\ n + j \in 1 .. n + Len(t) /\ ~(n + j <= n) /\ (n + j) - n = j
      BY <1>1
    <2> QED
      BY <1>2, <2>1
  <1>6. f \in [At(t, o) -> B]
    BY <1>1, <1>5 DEF At
  <1>7. \A i, j \in At(t, o) : f[i] = f[j] => i = j
    BY <1>1 DEF At
  <1>8. \A i \in B : \E j \in At(t, o) : f[j] = i
    <2> SUFFICES ASSUME NEW i \in B PROVE \E j \in At(t, o) : f[j] = i
      OBVIOUS
    <2>1. i - n \in 1 .. Len(t) /\ n + (i - n) = i
      BY <1>1
    <2>2. i - n \in At(t, o)
      BY <1>1, <1>5, <2>1 DEF At
    <2> QED
      BY <2>1, <2>2
  <1>9. ExistsBijection(At(t, o), B)
    <2>1. f \in Injection(At(t, o), B)
      BY <1>6, <1>7 DEF Injection, IsInjective
    <2>2. f \in Surjection(At(t, o), B)
      BY <1>6, <1>8 DEF Surjection
    <2> QED
      BY <2>1, <2>2 DEF ExistsBijection, Bijection
  <1>10. /\ IsFiniteSet(B) /\ Cardinality(B) = Cardinality(At(t, o))
    BY <1>9, TimesType, FS_Bijection
  <1>11. Cardinality(At(u, o)) = Cardinality(At(s, o)) + Cardinality(B)
    <2>1. Cardinality(At(u, o)) = Cardinality(At(s, o)) + Cardinality(B) - Cardinality({})
      BY <1>4, <1>10, TimesType, FS_Union
    <2>2. Cardinality({}) = 0 /\ Cardinality(At(s, o)) \in Nat /\ Cardinality(B) \in Nat
      BY <1>10, TimesType, FS_EmptySet, FS_CardinalityType
    <2> QED
      BY <2>1, <2>2
  <1> QED
    BY <1>2, <1>10, <1>11, TimesType DEF u

\* A cell is put before a list.
LEMMA TimesCons ==
    ASSUME NEW S, NEW s \in Seq(S), NEW e \in S, NEW o
    PROVE  /\ <<e>> \o s \in Seq(S)
           /\ Times(<<e>> \o s, o) = Times(s, o) + (IF e = o THEN 1 ELSE 0)
  <1>1. <<e>> \in Seq(S)
    OBVIOUS
  <1>2. Times(s, o) \in Nat /\ Times(<<e>>, o) = IF e = o THEN 1 ELSE 0
    BY TimesType, TimesOne
  <1>3. Times(<<e>> \o s, o) = Times(<<e>>, o) + Times(s, o)
    BY <1>1, TimesConcat
  <1>4. <<e>> \o s \in Seq(S)
    BY <1>1, ConcatProperties
  <1> QED
    BY <1>2, <1>3, <1>4

\* A cell is put behind a list.
LEMMA TimesAppend ==
    ASSUME NEW S, NEW s \in Seq(S), NEW e \in S
    PROVE  /\ Append(s, e) \in Seq(S)
           /\ \A o : Times(Append(s, e), o) = Times(s, o) + (IF e = o THEN 1 ELSE 0)
  <1>1. <<e>> \in Seq(S)
    OBVIOUS
  <1>2. Append(s, e) = s \o <<e>> /\ Append(s, e) \in Seq(S)
    BY <1>1, AppendIsConcat, AppendProperties
  <1>3. ASSUME NEW o
        PROVE  Times(s \o <<e>>, o) = Times(s, o) + (IF e = o THEN 1 ELSE 0)
    <2>1. Times(<<e>>, o) = IF e = o THEN 1 ELSE 0
      BY TimesOne
    <2>2. Times(s \o <<e>>, o) = Times(s, o) + Times(<<e>>, o)
      BY <1>1, TimesConcat
    <2> QED
      BY <2>1, <2>2
  <1> QED
    BY <1>2, <1>3

\* The cells before an entry, the entry, and the cells behind it
LEMMA TimesAround ==
    ASSUME NEW S, NEW s \in Seq(S), NEW k \in 1 .. Len(s), NEW o
    PROVE  /\ Times(SubSeq(s, 1, k - 1), o) \in Nat
           /\ Times(SubSeq(s, k + 1, Len(s)), o) \in Nat
           /\ Times(s, o) = Times(SubSeq(s, 1, k - 1), o) + (IF s[k] = o THEN 1 ELSE 0)
                                + Times(SubSeq(s, k + 1, Len(s)), o)
  <1> DEFINE l == SubSeq(s, 1, k - 1)
             r == SubSeq(s, k + 1, Len(s))
  <1>1. Len(s) \in Nat /\ k \in Nat /\ s[k] \in S
    BY LenProperties, ElementOfSeq
  <1>2. l \in Seq(S) /\ r \in Seq(S)
    <2>1. k - 1 \in Nat /\ k - 1 <= Len(s) /\ 1 <= (k - 1) + 1
      BY <1>1
    <2>2. l \in Seq(S)
      BY <1>1, <2>1, Part
    <2>3. k + 1 \in Nat /\ 1 <= k + 1 /\ k + 1 <= Len(s) + 1
      BY <1>1
    <2>4. r \in Seq(S)
      BY <1>1, <2>3, Part
    <2> QED
      BY <2>2, <2>4
  <1>3. s = l \o (<<s[k]>> \o r)
    BY Around
  <1> HIDE DEF l, r
  <1>4. <<s[k]>> \o r \in Seq(S) /\ Times(<<s[k]>> \o r, o) = Times(r, o) + (IF s[k] = o THEN 1 ELSE 0)
    BY <1>1, <1>2, TimesCons
  <1>5. Times(s, o) = Times(l, o) + Times(<<s[k]>> \o r, o)
    <2> DEFINE m == <<s[k]>> \o r
    <2>1. m \in Seq(S) /\ s = l \o m
      BY <1>3, <1>4
    <2> HIDE DEF m
    <2>2. Times(l \o m, o) = Times(l, o) + Times(m, o)
      BY <1>2, <2>1, TimesConcat
    <2> QED
      BY <2>1, <2>2 DEF m
  <1>6. Times(l, o) \in Nat /\ Times(r, o) \in Nat
    BY <1>2, TimesType
  <1> QED
    BY <1>4, <1>5, <1>6 DEF l, r

\* What is left of a list is the entry at its head and what is behind that.
LEMMA TimesRest ==
    ASSUME NEW S, NEW s \in Seq(S), NEW k \in 1 .. Len(s), NEW o
    PROVE  Times(SubSeq(s, k, Len(s)), o)
               = (IF s[k] = o THEN 1 ELSE 0) + Times(SubSeq(s, k + 1, Len(s)), o)
  <1> DEFINE l == SubSeq(s, 1, k - 1)
             m == SubSeq(s, k, Len(s))
             r == SubSeq(s, k + 1, Len(s))
  <1>1. Len(s) \in Nat /\ k \in Nat /\ k - 1 \in Nat /\ s[k] \in S
    BY LenProperties, ElementOfSeq
  <1>2. m \in Seq(S) /\ Len(m) = Len(s) + 1 - k /\ \A i \in 1 .. Len(s) + 1 - k : m[i] = s[k + i - 1]
    BY <1>1, Part
  <1>3. r \in Seq(S) /\ Len(r) = Len(s) - k /\ \A i \in 1 .. Len(s) - k : r[i] = s[k + i]
    <2>1. /\ r \in Seq(S) /\ Len(r) = Len(s) + 1 - (k + 1)
          /\ \A i \in 1 .. Len(s) + 1 - (k + 1) : r[i] = s[(k + 1) + i - 1]
      BY <1>1, Part
    <2> QED
      BY <1>1, <2>1
  <1> HIDE DEF m, r
  <1>4. m = <<s[k]>> \o r
    <2>1. <<s[k]>> \in Seq(S) /\ Len(<<s[k]>>) = 1 /\ <<s[k]>>[1] = s[k]
      BY <1>1
    <2>2. /\ <<s[k]>> \o r \in Seq(S) /\ Len(<<s[k]>> \o r) = Len(<<s[k]>>) + Len(r)
          /\ \A i \in 1 .. Len(<<s[k]>>) + Len(r) :
                 (<<s[k]>> \o r)[i] = IF i <= Len(<<s[k]>>) THEN <<s[k]>>[i] ELSE r[i - Len(<<s[k]>>)]
      BY <1>3, <2>1, ConcatProperties, Zenon
    <2>3. Len(<<s[k]>> \o r) = Len(s) + 1 - k
      <3>1. Len(r) = Len(s) - k
        BY <1>3
      <3> QED
        BY <1>1, <2>1, <2>2, <3>1
    <2>4. \A i \in 1 .. Len(s) + 1 - k : (<<s[k]>> \o r)[i] = m[i]
      <3> SUFFICES ASSUME NEW i \in 1 .. Len(s) + 1 - k PROVE (<<s[k]>> \o r)[i] = m[i]
        OBVIOUS
      <3>1. m[i] = s[k + i - 1]
        BY <1>2
      <3>2. (<<s[k]>> \o r)[i] = IF i <= 1 THEN <<s[k]>>[i] ELSE r[i - 1]
        <4>1. i \in 1 .. Len(<<s[k]>>) + Len(r)
          <5>1. Len(r) = Len(s) - k
            BY <1>3
          <5> QED
            BY <1>1, <2>1, <5>1
        <4> QED
          BY <2>1, <2>2, <4>1
      <3>3. CASE i = 1
        BY <1>1, <2>1, <3>1, <3>2, <3>3
      <3>4. CASE i # 1
        <4>1. ~(i <= 1) /\ i - 1 \in 1 .. Len(s) - k /\ k + (i - 1) = k + i - 1
          BY <1>1, <3>4
        <4> QED
          BY <1>3, <3>1, <3>2, <4>1
      <3> QED
        BY <3>3, <3>4
    <2> QED
      BY <1>2, <2>2, <2>3, <2>4, SeqEqual
  <1>5. Times(m, o) = Times(r, o) + (IF s[k] = o THEN 1 ELSE 0) /\ Times(r, o) \in Nat
    BY <1>1, <1>3, <1>4, TimesCons, TimesType
  <1> QED
    BY <1>5 DEF m, r

\* RemoveFirst takes one cell of the object off the list and leaves the others
\* in their order.
LEMMA RemoveFirstProperties ==
    ASSUME NEW S, NEW s \in Seq(S), NEW e, e \in Entries(s)
    PROVE  \E k \in 1 .. Len(s) :
               /\ s[k] = e
               /\ RemoveFirst(s, e) = RemoveAt(s, k)
  <1> DEFINE I == {i \in 1 .. Len(s) : s[i] = e}
  <1>1. DOMAIN s = 1 .. Len(s) /\ Len(s) \in Nat
    BY LenProperties
  <1>2. I # {} /\ I \subseteq Nat /\ \E i \in 1 .. Len(s) : s[i] = e
    BY <1>1 DEF Entries
  <1>3. Min(I) \in I
    <2> HIDE DEF I
    <2> QED BY <1>2, LeastExists DEF Min
  <1>4. RemoveFirst(s, e) = RemoveAt(s, Min(I))
    BY <1>2 DEF RemoveFirst, SelectInSeq
  <1> QED
    BY <1>3, <1>4

\* A list without one of its cells
LEMMA TimesRemove ==
    ASSUME NEW S, NEW s \in Seq(S), NEW k \in 1 .. Len(s)
    PROVE  /\ RemoveAt(s, k) \in Seq(S) /\ Len(RemoveAt(s, k)) = Len(s) - 1
           /\ \A i \in 1 .. Len(s) - 1 :
                  RemoveAt(s, k)[i] = IF i < k THEN s[i] ELSE s[i + 1]
           /\ \A o : Times(RemoveAt(s, k), o) = Times(s, o) - (IF s[k] = o THEN 1 ELSE 0)
  <1> DEFINE t == RemoveAt(s, k)
             l == SubSeq(s, 1, k - 1)
             r == SubSeq(s, k + 1, Len(s))
  <1>1. Len(s) \in Nat /\ k \in Nat /\ s[k] \in S /\ k <= Len(s) /\ 1 <= k
    BY LenProperties, ElementOfSeq
  <1>2. l \in Seq(S) /\ Len(l) = k - 1 /\ \A i \in 1 .. k - 1 : l[i] = s[i]
    <2>1. k - 1 \in Nat /\ k - 1 <= Len(s) /\ 1 <= (k - 1) + 1 /\ (k - 1) + 1 - 1 = k - 1
      BY <1>1
    <2>2. /\ l \in Seq(S) /\ Len(l) = (k - 1) + 1 - 1
          /\ \A i \in 1 .. (k - 1) + 1 - 1 : l[i] = s[1 + i - 1]
      BY <1>1, <2>1, Part
    <2>3. \A i \in 1 .. k - 1 : 1 + i - 1 = i
      BY <2>1
    <2> QED
      BY <2>1, <2>2, <2>3
  <1>3. r \in Seq(S) /\ Len(r) = Len(s) - k /\ \A i \in 1 .. Len(s) - k : r[i] = s[k + i]
    <2>1. k + 1 \in Nat /\ 1 <= k + 1 /\ k + 1 <= Len(s) + 1 /\ Len(s) + 1 - (k + 1) = Len(s) - k
      BY <1>1
    <2>2. /\ r \in Seq(S) /\ Len(r) = Len(s) + 1 - (k + 1)
          /\ \A i \in 1 .. Len(s) + 1 - (k + 1) : r[i] = s[(k + 1) + i - 1]
      BY <1>1, <2>1, Part
    <2>3. \A i \in 1 .. Len(s) - k : (k + 1) + i - 1 = k + i
      BY <1>1
    <2> QED
      BY <2>1, <2>2, <2>3
  <1>4. t = l \o r
    BY DEF RemoveAt
  <1> HIDE DEF t, l, r
  <1>5. /\ t \in Seq(S) /\ Len(t) = Len(l) + Len(r)
        /\ \A i \in 1 .. Len(l) + Len(r) : t[i] = IF i <= Len(l) THEN l[i] ELSE r[i - Len(l)]
    <2>1. l \in Seq(S) /\ r \in Seq(S)
      BY <1>2, <1>3
    <2> QED
      BY <1>4, <2>1, ConcatProperties
  <1>6. Len(l) + Len(r) = Len(s) - 1
    <2>1. Len(l) = k - 1 /\ Len(r) = Len(s) - k
      BY <1>2, <1>3
    <2> QED
      BY <1>1, <2>1
  <1>7. \A i \in 1 .. Len(s) - 1 : t[i] = IF i < k THEN s[i] ELSE s[i + 1]
    <2> SUFFICES ASSUME NEW i \in 1 .. Len(s) - 1
                 PROVE  t[i] = IF i < k THEN s[i] ELSE s[i + 1]
      OBVIOUS
    <2>1. t[i] = IF i <= k - 1 THEN l[i] ELSE r[i - (k - 1)]
      BY <1>2, <1>5, <1>6
    <2>2. CASE i < k
      <3>1. i <= k - 1 /\ i \in 1 .. k - 1
        BY <1>1, <2>2
      <3> QED
        BY <1>2, <2>1, <2>2, <3>1
    <2>3. CASE ~(i < k)
      <3>1. ~(i <= k - 1) /\ i - (k - 1) \in 1 .. Len(s) - k /\ k + (i - (k - 1)) = i + 1
        BY <1>1, <2>3
      <3> QED
        BY <1>3, <2>1, <2>3, <3>1
    <2> QED
      BY <2>2, <2>3
  <1>8. \A o : Times(t, o) = Times(s, o) - (IF s[k] = o THEN 1 ELSE 0)
    <2> SUFFICES ASSUME NEW o
                 PROVE  Times(t, o) = Times(s, o) - (IF s[k] = o THEN 1 ELSE 0)
      OBVIOUS
    <2>1. Times(t, o) = Times(l, o) + Times(r, o)
      <3>1. l \in Seq(S) /\ r \in Seq(S)
        BY <1>2, <1>3
      <3>2. Times(l \o r, o) = Times(l, o) + Times(r, o)
        BY <3>1, TimesConcat, Zenon
      <3> QED
        BY <1>4, <3>2, Zenon
    <2>2. /\ Times(l, o) \in Nat /\ Times(r, o) \in Nat
          /\ Times(s, o) = Times(l, o) + (IF s[k] = o THEN 1 ELSE 0) + Times(r, o)
      BY TimesAround, Zenon DEF l, r
    <2> QED
      BY <2>1, <2>2
  <1> QED
    BY <1>5, <1>6, <1>7, <1>8 DEF t

\* The write handler is written once.
LEMMA HandlerWritten ==
    /\ SetToSeq(Handler) \in Seq(Following)
    /\ \A o : Times(SetToSeq(Handler), o) = IF o \in Handler THEN 1 ELSE 0
  <1> DEFINE n == Cardinality(Handler)
             w == SetToSeq(Handler)
  <1>1. IsFiniteSet(Handler) /\ Handler \subseteq Following
    BY ListAssumption, FS_Subset DEF Objects
  <1>2. n \in Nat /\ ExistsBijection(1 .. n, Handler)
    BY <1>1, FS_CardinalityType
  <1>3. PICK g \in [1 .. n -> Handler] : IsInjective(g)
    BY <1>2 DEF ExistsBijection, Bijection, Injection
  <1>4. w \in [1 .. n -> Handler] /\ IsInjective(w)
    BY <1>3 DEF SetToSeq
  <1>5. w \in Surjection(1 .. n, Handler)
    <2>1. w \in Injection(1 .. n, Handler)
      BY <1>4 DEF Injection
    <2>2. Cardinality(1 .. n) = n
      BY <1>2, FS_Interval
    <2> QED
      BY <1>1, <2>1, <2>2, FS_Injection
  <1> HIDE DEF n, w
  <1>6. w \in Seq(Following) /\ DOMAIN w = 1 .. n
    <2>1. w \in [1 .. n -> Following]
      BY <1>1, <1>4
    <2> QED
      BY <1>2, <2>1, FunctionIsSeq
  <1>7. ASSUME NEW o \in Handler
        PROVE  Times(w, o) = 1
    <2>1. PICK i \in 1 .. n : w[i] = o
      BY <1>5 DEF Surjection
    <2>2. {j \in DOMAIN w : w[j] = o} = {i}
      BY <1>4, <1>6, <2>1 DEF IsInjective
    <2> QED
      BY <2>2, FS_Singleton DEF Times
  <1>8. ASSUME NEW o, o \notin Handler
        PROVE  Times(w, o) = 0
    <2>1. o \notin Entries(w)
      BY <1>4, <1>8 DEF Entries
    <2> QED
      BY <1>6, <2>1, TimesType
  <1> QED
    BY <1>6, <1>7, <1>8 DEF w

-----------------------------------------------------------------------------
(* The invariant. *)

\* The references of the entries, when the lists are l, v and x
Balanced(r, l, v, x) ==
    \A o \in Objects : r[o] = Times(l, o) + Times(v, o) + Times(x, o)

NoDuplicates(s) == \A i, j \in DOMAIN s : s[i] = s[j] => i = j

\* The multicast is at the i-th listener: no one behind it was reached, and of
\* those that were there all the time, the others were.
WalkAt(i) ==
    /\ cur = {listeners[i]}
    /\ \A j \in DOMAIN listeners : j > i => listeners[j] \notin Entries(got)
    /\ \A x \in stays :
           x \in Entries(got) \/ \E j \in DOMAIN listeners : j > i /\ listeners[j] = x

MulticastInv ==
    /\ NoDuplicates(listeners) /\ NoDuplicates(got)
    /\ cur = {} => stays = {} /\ got = <<>> /\ ~stale
    /\ cur # {} /\ ~stale => \E i \in DOMAIN listeners : WalkAt(i)

\* What is behind the write is still due.
WriteInv ==
    /\ pos = 0 => late = 0
    /\ pos > 0 =>
         \A o \in Following :
            IF o \in Handler THEN Times(written, o) = 1
            ELSE Times(written, o) + Times(SubSeq(vector, pos, Len(vector)), o) = due[o]

\* The two halves of the type invariant
ListenerType ==
    /\ listeners \in Seq(Listening)
    /\ cur = {} \/ \E o \in Listening : cur = {o}
    /\ cur # {} /\ ~stale => cur \subseteq Entries(listeners)
    /\ stale \in BOOLEAN
    /\ got \in Seq(Listening)
    /\ stays \subseteq Entries(listeners)

FollowerType ==
    /\ vector \in Seq(Following) /\ self \in 0 .. Owners
    /\ life \in [Following -> -MinLife .. MaxLife]
    /\ pos \in 0 .. Len(vector) + 1 /\ late \in 0 .. Len(vector)
    /\ pos > 0 => late < pos
    /\ counts \in BOOLEAN
    /\ due \in [Following -> Nat] /\ written \in Seq(Following)
    /\ lost \in Seq(Following)

IInv ==
    /\ ListenerType /\ FollowerType
    /\ refs \in [Objects -> Int] /\ Balanced(refs, listeners, vector, lost)
    /\ MulticastInv /\ WriteInv

\* The invariant implies the properties of the runs.
LEMMA InvProperties ==
    IInv => TypeOK /\ CellsExact /\ WriteExact
  <1> SUFFICES ASSUME IInv PROVE TypeOK /\ CellsExact /\ WriteExact
    OBVIOUS
  <1>1. CellsExact
    BY DEF IInv, Balanced, CellsExact
  <1>2. refs \in [Objects -> Nat]
    <2>1. \A o : Times(listeners, o) \in Nat /\ Times(vector, o) \in Nat /\ Times(lost, o) \in Nat
      BY TimesType DEF IInv, ListenerType, FollowerType
    <2>2. \A o \in Objects : refs[o] \in Nat
      BY <2>1 DEF IInv, Balanced
    <2> QED
      BY <2>2 DEF IInv
  <1>3. cur \subseteq Listening /\ Cardinality(cur) <= 1
    <2>1. CASE cur = {}
      BY <2>1, FS_EmptySet
    <2>2. CASE cur # {}
      <3>1. PICK o \in Listening : cur = {o}
        BY <2>2 DEF IInv, ListenerType
      <3>2. Cardinality({o}) = 1
        BY FS_Singleton
      <3> QED
        BY <3>1, <3>2
    <2> QED
      BY <2>1, <2>2
  <1>4. TypeOK
    BY <1>2, <1>3 DEF IInv, ListenerType, FollowerType, TypeOK
  <1>5. WriteExact
    <2> SUFFICES ASSUME pos > Len(vector), NEW o \in Following
                 PROVE  Times(written, o) = IF o \in Handler THEN 1 ELSE due[o]
      BY DEF WriteExact
    <2>1. /\ vector \in Seq(Following) /\ Len(vector) \in Nat /\ pos \in Nat /\ pos = Len(vector) + 1
          /\ due[o] \in Nat /\ written \in Seq(Following)
      BY DEF IInv, FollowerType
    <2>2. SubSeq(vector, pos, Len(vector)) = <<>>
      <3>1. SubSeq(vector, pos, Len(vector)) \in Seq(Following)
            /\ Len(SubSeq(vector, pos, Len(vector))) = Len(vector) + 1 - pos
        BY <2>1, Part
      <3>2. Len(SubSeq(vector, pos, Len(vector))) = 0
        BY <2>1, <3>1
      <3> QED
        BY <3>1, <3>2, EmptySeq
    <2>3. Times(SubSeq(vector, pos, Len(vector)), o) = 0 /\ Times(written, o) \in Nat
      BY <2>1, <2>2, TimesEmpty, TimesType
    <2>4. pos > 0
      BY <2>1
    <2> QED
      BY <2>1, <2>3, <2>4 DEF IInv, WriteInv
  <1> QED
    BY <1>1, <1>4, <1>5

-----------------------------------------------------------------------------
(* Listeners. *)

\* What a step of the listeners leaves alone
FollowersKept == UNCHANGED <<vector, self, life, pos, late, counts, due, written, lost>>

\* Then the followers and the write keep their invariant.
LEMMA FollowersKeptInv ==
    ASSUME IInv, FollowersKept
    PROVE  FollowerType' /\ WriteInv'
  BY DEF IInv, FollowersKept, FollowerType, WriteInv

\* The references follow a change of the listener list.
LEMMA ListenerRefs ==
    ASSUME IInv, FollowersKept, refs' \in [Objects -> Int],
           \A o \in Objects : refs'[o] - refs[o] = Times(listeners', o) - Times(listeners, o),
           listeners' \in Seq(Listening)
    PROVE  Balanced(refs, listeners, vector, lost)'
  <1>1. \A o : /\ Times(listeners, o) \in Nat /\ Times(vector, o) \in Nat
               /\ Times(lost, o) \in Nat /\ Times(listeners', o) \in Nat
    BY TimesType DEF IInv, ListenerType, FollowerType
  <1> SUFFICES ASSUME NEW o \in Objects
               PROVE  refs'[o] = Times(listeners', o) + Times(vector, o) + Times(lost, o)
    BY DEF Balanced, FollowersKept
  <1>2. refs[o] = Times(listeners, o) + Times(vector, o) + Times(lost, o)
    BY DEF IInv, Balanced
  <1>3. refs[o] \in Int /\ refs'[o] \in Int
    BY DEF IInv
  <1>4. refs'[o] - refs[o] = Times(listeners', o) - Times(listeners, o)
    OBVIOUS
  <1> DEFINE t == Times(listeners, o)
             u == Times(listeners', o)
             v == Times(vector, o)
             w == Times(lost, o)
  <1>5. t \in Nat /\ u \in Nat /\ v \in Nat /\ w \in Nat
    BY <1>1
  <1>6. refs[o] = t + v + w /\ refs'[o] - refs[o] = u - t
    BY <1>2, <1>4
  <1> HIDE DEF t, u, v, w
  <1>7. refs'[o] = u + v + w
    BY <1>3, <1>5, <1>6
  <1> QED
    BY <1>7 DEF u, v, w

\* A listener is added before the first one: the walk, if there is one, does
\* not come to it.
LEMMA SubscribeInv ==
    ASSUME IInv, NEW o \in Listening, Subscribe(o)
    PROVE  IInv'
  <1> DEFINE n == Len(listeners)
  <1>1. /\ ~stale /\ o \notin Entries(listeners) /\ listeners' = <<o>> \o listeners
        /\ refs' = [refs EXCEPT ![o] = @ + 1]
        /\ FollowersKept /\ UNCHANGED <<cur, stale, got, stays>>
    BY DEF Subscribe, Get, FollowersKept, multicast, write
  <1>2. /\ listeners \in Seq(Listening) /\ n \in Nat /\ DOMAIN listeners = 1 .. n
        /\ refs \in [Objects -> Int] /\ o \in Objects
    BY LenProperties DEF IInv, ListenerType, Objects
  <1>3. /\ listeners' \in Seq(Listening)
        /\ \A x : Times(listeners', x) = Times(listeners, x) + (IF o = x THEN 1 ELSE 0)
    BY <1>1, <1>2, TimesCons
  <1>4. /\ DOMAIN listeners' = 1 .. n + 1 /\ listeners'[1] = o
        /\ \A i \in 1 .. n : listeners'[i + 1] = listeners[i]
    <2>1. <<o>> \in Seq(Listening) /\ Len(<<o>>) = 1 /\ <<o>>[1] = o
      OBVIOUS
    <2>2. /\ Len(listeners') = Len(<<o>>) + n
          /\ \A i \in 1 .. Len(<<o>>) + n :
                 listeners'[i] = IF i <= Len(<<o>>) THEN <<o>>[i] ELSE listeners[i - Len(<<o>>)]
      BY <1>1, <1>2, <2>1, ConcatProperties
    <2>3. Len(listeners') = n + 1 /\ DOMAIN listeners' = 1 .. n + 1
      BY <1>2, <1>3, <2>1, <2>2, LenProperties
    <2>4. \A i \in 1 .. n : i + 1 \in 1 .. 1 + n /\ ~(i + 1 <= 1) /\ (i + 1) - 1 = i
      BY <1>2
    <2>5. 1 \in 1 .. 1 + n
      BY <1>2
    <2> QED
      BY <2>1, <2>2, <2>3, <2>4, <2>5
  <1>5. \A i \in 2 .. n + 1 : i - 1 \in 1 .. n /\ listeners'[i] = listeners[i - 1]
    <2>1. \A i \in 2 .. n + 1 : i - 1 \in 1 .. n /\ (i - 1) + 1 = i
      BY <1>2
    <2> QED
      BY <1>4, <2>1
  <1>6. Entries(listeners') = Entries(listeners) \cup {o}
    <2>1. \A i \in 1 .. n : i + 1 \in 1 .. n + 1
      BY <1>2
    <2>2. \A i \in 1 .. n + 1 : i = 1 \/ i \in 2 .. n + 1
      BY <1>2
    <2>3. 1 \in 1 .. n + 1
      BY <1>2
    <2>4. ASSUME NEW x \in Entries(listeners') PROVE x \in Entries(listeners) \cup {o}
      <3>1. PICK i \in 1 .. n + 1 : x = listeners'[i]
        BY <1>4 DEF Entries
      <3> QED
        BY <1>2, <1>4, <1>5, <2>2, <3>1 DEF Entries
    <2>5. ASSUME NEW x \in Entries(listeners) PROVE x \in Entries(listeners')
      <3>1. PICK i \in 1 .. n : x = listeners[i]
        BY <1>2 DEF Entries
      <3> QED
        BY <1>4, <2>1, <3>1 DEF Entries
    <2>6. o \in Entries(listeners')
      BY <1>4, <2>3 DEF Entries
    <2> QED
      BY <2>4, <2>5, <2>6
  <1> HIDE DEF n
  <1>7. NoDuplicates(listeners')
    <2> SUFFICES ASSUME NEW i \in 1 .. n + 1, NEW j \in 1 .. n + 1, listeners'[i] = listeners'[j]
                 PROVE  i = j
      BY <1>4 DEF NoDuplicates
    <2>1. (i = 1 \/ i \in 2 .. n + 1) /\ (j = 1 \/ j \in 2 .. n + 1)
      BY <1>2
    <2>2. \A k \in 2 .. n + 1 : listeners'[k] # o
      BY <1>1, <1>2, <1>5 DEF Entries
    <2>3. CASE i \in 2 .. n + 1 /\ j \in 2 .. n + 1
      <3>1. i - 1 = j - 1
        BY <1>2, <1>5, <2>3 DEF IInv, MulticastInv, NoDuplicates
      <3> QED
        BY <1>2, <3>1
    <2> QED
      BY <1>4, <2>1, <2>2, <2>3
  <1>8. MulticastInv'
    <2>1. ASSUME cur # {}
          PROVE  \E i \in 1 .. n + 1 : WalkAt(i)'
      <3>1. PICK i \in 1 .. n : WalkAt(i)
        BY <1>1, <1>2, <2>1 DEF IInv, MulticastInv
      <3>2. i + 1 \in 1 .. n + 1 /\ cur' = {listeners'[i + 1]}
        BY <1>1, <1>2, <1>4, <3>1 DEF WalkAt
      <3>3. \A j \in 1 .. n + 1 : j > i + 1 => listeners'[j] \notin Entries(got)
        <4> SUFFICES ASSUME NEW j \in 1 .. n + 1, j > i + 1 PROVE listeners'[j] \notin Entries(got)
          OBVIOUS
        <4>1. j \in 2 .. n + 1 /\ j - 1 > i
          BY <1>2
        <4> QED
          BY <1>2, <1>5, <3>1, <4>1 DEF WalkAt
      <3>4. \A x \in stays : x \in Entries(got) \/ \E j \in 1 .. n + 1 : j > i + 1 /\ listeners'[j] = x
        <4> SUFFICES ASSUME NEW x \in stays, x \notin Entries(got)
                     PROVE  \E j \in 1 .. n + 1 : j > i + 1 /\ listeners'[j] = x
          OBVIOUS
        <4>1. PICK j \in 1 .. n : j > i /\ listeners[j] = x
          BY <1>2, <3>1 DEF WalkAt
        <4>2. j + 1 \in 1 .. n + 1 /\ j + 1 > i + 1
          BY <1>2, <4>1
        <4> QED
          BY <1>4, <4>1, <4>2
      <3>5. WalkAt(i + 1)'
        BY <1>1, <1>4, <3>2, <3>3, <3>4 DEF WalkAt
      <3> QED
        BY <3>2, <3>5
    <2> QED
      BY <1>1, <1>4, <1>7, <2>1 DEF IInv, MulticastInv
  <1>9. ListenerType'
    BY <1>1, <1>3, <1>6 DEF IInv, ListenerType
  <1>10. refs' \in [Objects -> Int]
    BY <1>1, <1>2
  <1>11. \A x \in Objects : refs'[x] - refs[x] = Times(listeners', x) - Times(listeners, x)
    <2> SUFFICES ASSUME NEW x \in Objects
                 PROVE  refs'[x] - refs[x] = Times(listeners', x) - Times(listeners, x)
      OBVIOUS
    <2>1. refs[x] \in Int /\ Times(listeners, x) \in Nat
      BY <1>2, TimesType
    <2> QED
      BY <1>1, <1>2, <1>3, <2>1
  <1> QED
    BY <1>1, <1>3, <1>8, <1>9, <1>10, <1>11, FollowersKeptInv, ListenerRefs DEF IInv

\* A listener is taken off the list.  A walk that is at another one keeps its
\* place; one that is at this very cell has lost it.
LEMMA UnsubscribeInv ==
    ASSUME IInv, NEW o \in Listening, Unsubscribe(o)
    PROVE  IInv'
  <1> DEFINE n == Len(listeners)
             m == n - 1
  <1>1. /\ ~stale /\ o \in Entries(listeners) /\ listeners' = RemoveFirst(listeners, o)
        /\ refs' = [refs EXCEPT ![o] = @ - 1]
        /\ stale' = (o \in cur) /\ stays' = stays \ {o}
        /\ FollowersKept /\ UNCHANGED <<cur, got>>
    BY DEF Unsubscribe, Put, FollowersKept, write
  <1>2. /\ listeners \in Seq(Listening) /\ n \in Nat /\ DOMAIN listeners = 1 .. n
        /\ refs \in [Objects -> Int] /\ o \in Objects
    BY LenProperties DEF IInv, ListenerType, Objects
  <1>3. PICK k \in 1 .. n : listeners[k] = o /\ listeners' = RemoveAt(listeners, k)
    BY <1>1, <1>2, RemoveFirstProperties
  <1>4. /\ listeners' \in Seq(Listening) /\ Len(listeners') = m
        /\ \A i \in 1 .. m : listeners'[i] = IF i < k THEN listeners[i] ELSE listeners[i + 1]
        /\ \A x : Times(listeners', x) = Times(listeners, x) - (IF listeners[k] = x THEN 1 ELSE 0)
    BY <1>2, <1>3, TimesRemove
  <1>5. DOMAIN listeners' = 1 .. m /\ k \in Nat /\ m \in Nat
    BY <1>2, <1>4, LenProperties
  <1> DEFINE old(i) == IF i < k THEN i ELSE i + 1
             new(j) == IF j < k THEN j ELSE j - 1
  <1>6. \A i \in 1 .. m : old(i) \in 1 .. n /\ old(i) # k /\ listeners'[i] = listeners[old(i)]
    BY <1>2, <1>4, <1>5
  <1>7. \A j \in 1 .. n : j # k => new(j) \in 1 .. m /\ old(new(j)) = j
    BY <1>2, <1>5
  <1>8. /\ \A i \in 1 .. m, j \in 1 .. n : j # k /\ i > new(j) => old(i) > j
        /\ \A i, j \in 1 .. n : i # k /\ j # k /\ i > j => new(i) > new(j)
        /\ \A i, j \in 1 .. m : old(i) = old(j) => i = j
    BY <1>2, <1>5
  <1> HIDE DEF n, m, old, new
  <1>9. \A j \in 1 .. n : j # k => listeners'[new(j)] = listeners[j]
    BY <1>6, <1>7
  <1>10. Entries(listeners) \ {o} \subseteq Entries(listeners')
    <2> SUFFICES ASSUME NEW x \in Entries(listeners), x # o PROVE x \in Entries(listeners')
      OBVIOUS
    <2>1. PICK j \in 1 .. n : listeners[j] = x
      BY <1>2 DEF Entries
    <2> QED
      BY <1>3, <1>5, <1>7, <1>9, <2>1 DEF Entries
  <1>11. NoDuplicates(listeners')
    <2> SUFFICES ASSUME NEW i \in 1 .. m, NEW j \in 1 .. m, listeners'[i] = listeners'[j]
                 PROVE  i = j
      BY <1>5 DEF NoDuplicates
    <2>1. old(i) = old(j)
      BY <1>2, <1>6 DEF IInv, MulticastInv, NoDuplicates
    <2> QED
      BY <1>8, <2>1
  <1>12. MulticastInv'
    <2>1. ASSUME cur # {}, o \notin cur
          PROVE  \E i \in 1 .. m : WalkAt(i)'
      <3>1. PICK i \in 1 .. n : WalkAt(i)
        BY <1>1, <1>2, <2>1 DEF IInv, MulticastInv
      <3>2. i # k /\ new(i) \in 1 .. m /\ cur' = {listeners'[new(i)]}
        BY <1>1, <1>3, <1>7, <1>9, <2>1, <3>1 DEF WalkAt
      <3>3. \A j \in 1 .. m : j > new(i) => listeners'[j] \notin Entries(got)
        BY <1>2, <1>6, <1>8, <3>1, <3>2 DEF WalkAt
      <3>4. \A x \in stays \ {o} :
                x \in Entries(got) \/ \E j \in 1 .. m : j > new(i) /\ listeners'[j] = x
        <4> SUFFICES ASSUME NEW x \in stays \ {o}, x \notin Entries(got)
                     PROVE  \E j \in 1 .. m : j > new(i) /\ listeners'[j] = x
          OBVIOUS
        <4>1. PICK j \in 1 .. n : j > i /\ listeners[j] = x
          BY <1>2, <3>1 DEF WalkAt
        <4>2. j # k /\ new(j) \in 1 .. m /\ new(j) > new(i)
          BY <1>3, <1>7, <1>8, <3>2, <4>1
        <4> QED
          BY <1>9, <4>1, <4>2
      <3>5. PICK h \in 1 .. m : h = new(i)
        BY <3>2
      <3>6. WalkAt(h)'
        BY <1>1, <1>5, <3>2, <3>3, <3>4, <3>5 DEF WalkAt
      <3> QED
        BY <3>6
    <2>2. cur = {} => stays' = {} /\ got' = <<>> /\ ~stale'
      BY <1>1 DEF IInv, MulticastInv
    <2> QED
      BY <1>1, <1>5, <1>11, <2>1, <2>2 DEF IInv, MulticastInv
  <1>13. ListenerType'
    <2>1. cur # {} /\ ~stale' => cur \subseteq Entries(listeners')
      BY <1>1, <1>10 DEF IInv, ListenerType
    <2>2. stale' \in BOOLEAN
      BY <1>1
    <2> QED
      BY <1>1, <1>4, <1>10, <2>1, <2>2 DEF IInv, ListenerType
  <1>14. refs' \in [Objects -> Int]
    BY <1>1, <1>2
  <1>15. \A x \in Objects : refs'[x] - refs[x] = Times(listeners', x) - Times(listeners, x)
    <2> SUFFICES ASSUME NEW x \in Objects
                 PROVE  refs'[x] - refs[x] = Times(listeners', x) - Times(listeners, x)
      OBVIOUS
    <2>1. refs[x] \in Int /\ Times(listeners, x) \in Nat
      BY <1>2, TimesType
    <2>2. Times(listeners', x) = Times(listeners, x) - (IF o = x THEN 1 ELSE 0)
      BY <1>3, <1>4
    <2> QED
      BY <1>1, <1>2, <2>1, <2>2
  <1> QED
    BY <1>1, <1>4, <1>12, <1>13, <1>14, <1>15, FollowersKeptInv, ListenerRefs DEF IInv

\* All listeners are taken off, while no message is on its way.
LEMMA ResetInv ==
    ASSUME IInv, ResetSubscription
    PROVE  IInv'
  <1>1. /\ cur = {} /\ listeners' = <<>>
        /\ refs' = [o \in Objects |-> refs[o] - Times(listeners, o)]
        /\ FollowersKept /\ UNCHANGED <<cur, stale, got, stays>>
    BY DEF ResetSubscription, FollowersKept, multicast, write
  <1>2. stays = {} /\ got = <<>> /\ ~stale /\ NoDuplicates(got)
    BY <1>1 DEF IInv, MulticastInv
  <1>3. \A o : Times(listeners, o) \in Nat /\ Times(listeners', o) = 0
    BY <1>1, TimesType, TimesEmpty DEF IInv, ListenerType
  <1>4. refs' \in [Objects -> Int]
    BY <1>1, <1>3 DEF IInv
  <1>5. \A o \in Objects : refs'[o] - refs[o] = Times(listeners', o) - Times(listeners, o)
    <2> SUFFICES ASSUME NEW o \in Objects
                 PROVE  refs'[o] - refs[o] = Times(listeners', o) - Times(listeners, o)
      OBVIOUS
    <2>1. refs[o] \in Int /\ refs'[o] = refs[o] - Times(listeners, o)
      BY <1>1 DEF IInv
    <2> QED
      BY <1>3, <2>1
  <1>6. listeners' \in Seq(Listening) /\ NoDuplicates(listeners')
    BY <1>1 DEF NoDuplicates
  <1>7. ListenerType'
    BY <1>1, <1>2, <1>6 DEF IInv, ListenerType
  <1>8. MulticastInv'
    BY <1>1, <1>2, <1>6 DEF MulticastInv
  <1> QED
    BY <1>1, <1>4, <1>5, <1>6, <1>7, <1>8, FollowersKeptInv, ListenerRefs DEF IInv

\* The references are not touched by the walk over the listeners.
LEMMA SameListeners ==
    ASSUME IInv, UNCHANGED lists, UNCHANGED <<life, write, lost>>
    PROVE  /\ FollowersKept /\ listeners' = listeners /\ refs' \in [Objects -> Int]
           /\ Balanced(refs, listeners, vector, lost)'
  <1>1. FollowersKept /\ listeners' = listeners /\ refs' = refs
    BY DEF lists, write, FollowersKept
  <1> QED
    BY <1>1 DEF IInv, Balanced, FollowersKept

\* A message is sent to the first listener.
LEMMA MulticastStartInv ==
    ASSUME IInv, Multicast
    PROVE  IInv'
  <1>1. /\ listeners # <<>> /\ cur = {} /\ cur' = From(1) /\ got' = <<listeners[1]>>
        /\ stays' = Entries(listeners) /\ stale' = stale /\ ~stale
        /\ FollowersKept /\ listeners' = listeners /\ refs' \in [Objects -> Int]
        /\ Balanced(refs, listeners, vector, lost)'
    BY SameListeners DEF Multicast, IInv, MulticastInv
  <1>2. /\ listeners \in Seq(Listening) /\ DOMAIN listeners = 1 .. Len(listeners)
        /\ Len(listeners) \in Nat /\ 1 \in DOMAIN listeners /\ listeners[1] \in Listening
    BY <1>1, EmptySeq, LenProperties DEF IInv, ListenerType
  <1>3. cur' = {listeners[1]}
    BY <1>1, <1>2 DEF From
  <1>4. /\ got' \in Seq(Listening) /\ Entries(got') = {listeners[1]} /\ NoDuplicates(got')
    BY <1>1, <1>2 DEF Entries, NoDuplicates
  <1>5. listeners[1] \in Entries(listeners)
    BY <1>2 DEF Entries
  <1>6. ListenerType'
    BY <1>1, <1>2, <1>3, <1>4, <1>5 DEF IInv, ListenerType
  <1>7. WalkAt(1)'
    <2>1. \A j \in DOMAIN listeners : j > 1 => listeners[j] \notin Entries(got')
      BY <1>2, <1>4 DEF IInv, MulticastInv, NoDuplicates
    <2>2. \A x \in Entries(listeners) :
              x \in Entries(got') \/ \E j \in DOMAIN listeners : j > 1 /\ listeners[j] = x
      <3> SUFFICES ASSUME NEW j \in DOMAIN listeners, listeners[j] \notin Entries(got')
                   PROVE  j > 1
        BY DEF Entries
      <3> QED
        BY <1>2, <1>4
    <2> QED
      BY <1>1, <1>3, <2>1, <2>2 DEF WalkAt
  <1>8. MulticastInv'
    BY <1>1, <1>2, <1>3, <1>4, <1>7 DEF IInv, MulticastInv
  <1> QED
    BY <1>1, <1>6, <1>8, FollowersKeptInv DEF IInv

\* The walk goes to the next listener or ends; then everyone who was there all
\* the time was reached.
LEMMA MulticastNextInv ==
    ASSUME IInv, MulticastNext
    PROVE  IInv' /\ (cur' = {} => stays \subseteq Entries(got))
  <1>1. PICK h \in DOMAIN listeners :
            /\ listeners[h] \in cur
            /\ cur' = From(h + 1)
            /\ got' = IF cur' = {} THEN <<>> ELSE Append(got, listeners[h + 1])
    BY DEF MulticastNext
  <1>2. /\ cur # {} /\ ~stale /\ stays' = (IF cur' = {} THEN {} ELSE stays) /\ stale' = stale
        /\ FollowersKept /\ listeners' = listeners /\ refs' \in [Objects -> Int]
        /\ Balanced(refs, listeners, vector, lost)'
    BY SameListeners DEF MulticastNext
  <1>3. /\ listeners \in Seq(Listening) /\ DOMAIN listeners = 1 .. Len(listeners)
        /\ Len(listeners) \in Nat /\ got \in Seq(Listening) /\ NoDuplicates(listeners)
        /\ NoDuplicates(got) /\ stays \subseteq Entries(listeners)
    BY LenProperties DEF IInv, ListenerType, MulticastInv
  <1>4. PICK i \in DOMAIN listeners : WalkAt(i)
    BY <1>2 DEF IInv, MulticastInv
  <1>5. h = i
    BY <1>1, <1>3, <1>4 DEF WalkAt, NoDuplicates
  <1>6. CASE h + 1 \notin DOMAIN listeners
    <2>1. cur' = {} /\ got' = <<>> /\ stays' = {}
      BY <1>1, <1>2, <1>6 DEF From
    <2>2. stays \subseteq Entries(got)
      <3>1. \A j \in DOMAIN listeners : ~(j > i)
        BY <1>3, <1>5, <1>6
      <3> QED
        BY <1>4, <3>1 DEF WalkAt
    <2>3. ListenerType'
      BY <1>2, <1>3, <2>1 DEF IInv, ListenerType
    <2>4. MulticastInv'
      BY <1>2, <1>3, <2>1 DEF MulticastInv, NoDuplicates
    <2> QED
      BY <1>2, <2>2, <2>3, <2>4, FollowersKeptInv DEF IInv
  <1>7. CASE h + 1 \in DOMAIN listeners
    <2> DEFINE e == listeners[h + 1]
    <2>1. e \in Listening /\ e \in Entries(listeners) /\ h + 1 > i
      BY <1>3, <1>5, <1>7 DEF Entries
    <2>2. cur' = {e} /\ got' = Append(got, e) /\ stays' = stays
      BY <1>1, <1>2, <1>7 DEF From
    <2>3. e \notin Entries(got)
      BY <1>4, <1>7, <2>1 DEF WalkAt
    <2> HIDE DEF e
    <2>4. /\ got' \in Seq(Listening) /\ Len(got') = Len(got) + 1 /\ Len(got) \in Nat
          /\ \A j \in 1 .. Len(got) : got'[j] = got[j]
          /\ got'[Len(got) + 1] = e
      BY <1>3, <2>1, <2>2, AppendProperties, LenProperties
    <2>5. DOMAIN got' = 1 .. Len(got) + 1 /\ DOMAIN got = 1 .. Len(got)
      BY <1>3, <2>4, LenProperties
    <2>6. \A j \in 1 .. Len(got) + 1 : j \in 1 .. Len(got) \/ j = Len(got) + 1
      BY <2>4
    <2>7. \A j \in 1 .. Len(got) : j \in 1 .. Len(got) + 1
      BY <2>4
    <2>8. Len(got) + 1 \in 1 .. Len(got) + 1
      BY <2>4
    <2>9. Entries(got') = Entries(got) \cup {e}
      <3>1. Entries(got') \subseteq Entries(got) \cup {e}
        BY <2>4, <2>5, <2>6 DEF Entries
      <3>2. Entries(got) \subseteq Entries(got')
        BY <2>4, <2>5, <2>7 DEF Entries
      <3>3. e \in Entries(got')
        BY <2>4, <2>5, <2>8 DEF Entries
      <3> QED
        BY <3>1, <3>2, <3>3
    <2>10. NoDuplicates(got')
      <3>1. \A j \in 1 .. Len(got) : got'[j] # e
        BY <2>3, <2>4, <2>5 DEF Entries
      <3> QED
        BY <1>3, <2>4, <2>5, <2>6, <3>1 DEF NoDuplicates
    <2>11. ListenerType'
      BY <1>2, <1>3, <2>1, <2>2, <2>4 DEF IInv, ListenerType
    <2>12. PICK k \in DOMAIN listeners : k = h + 1
      BY <1>7
    <2>13. WalkAt(k)'
      <3>1. cur' = {listeners[k]}
        BY <2>2, <2>12 DEF e
      <3>2. \A j \in DOMAIN listeners : j > k => listeners[j] \notin Entries(got')
        <4> SUFFICES ASSUME NEW j \in DOMAIN listeners, j > k
                     PROVE  listeners[j] \notin Entries(got) /\ listeners[j] # e
          BY <2>9
        <4>1. j > i /\ j # k
          BY <1>3, <1>5, <2>12
        <4> QED
          BY <1>3, <1>4, <2>12, <4>1 DEF WalkAt, NoDuplicates, e
      <3>3. \A x \in stays :
                x \in Entries(got') \/ \E j \in DOMAIN listeners : j > k /\ listeners[j] = x
        <4> SUFFICES ASSUME NEW x \in stays, x \notin Entries(got')
                     PROVE  \E j \in DOMAIN listeners : j > k /\ listeners[j] = x
          OBVIOUS
        <4>1. PICK j \in DOMAIN listeners : j > i /\ listeners[j] = x
          BY <1>4, <2>9 DEF WalkAt
        <4>2. j # k
          BY <2>9, <2>12, <4>1 DEF e
        <4> QED
          BY <1>3, <1>5, <2>12, <4>1, <4>2
      <3> QED
        BY <1>2, <2>2, <3>1, <3>2, <3>3 DEF WalkAt
    <2>14. MulticastInv'
      BY <1>2, <1>3, <2>2, <2>10, <2>13 DEF MulticastInv
    <2> QED
      BY <1>2, <2>2, <2>11, <2>14, FollowersKeptInv DEF IInv
  <1> QED
    BY <1>6, <1>7

-----------------------------------------------------------------------------
(* Followers. *)

\* What a step of the followers leaves alone
ListenersKept == UNCHANGED <<listeners, cur, stale, got, stays>>

\* Then the listeners and the multicast keep their invariant.
LEMMA ListenersKeptInv ==
    ASSUME IInv, ListenersKept
    PROVE  ListenerType' /\ MulticastInv'
  <1>1. ListenerType'
    BY DEF IInv, ListenersKept, ListenerType
  <1>2. MulticastInv'
    BY DEF IInv, ListenersKept, MulticastInv, WalkAt
  <1> QED
    BY <1>1, <1>2

\* The references follow a change of the follower list.
LEMMA FollowerRefs ==
    ASSUME IInv, ListenersKept, refs' \in [Objects -> Int],
           vector' \in Seq(Following), lost' \in Seq(Following),
           \A o \in Objects : refs'[o] - refs[o]
               = (Times(vector', o) + Times(lost', o)) - (Times(vector, o) + Times(lost, o))
    PROVE  Balanced(refs, listeners, vector, lost)'
  <1> SUFFICES ASSUME NEW o \in Objects
               PROVE  refs'[o] = Times(listeners, o) + Times(vector', o) + Times(lost', o)
    BY DEF Balanced, ListenersKept
  <1> DEFINE t == Times(listeners, o)
             v == Times(vector, o)
             w == Times(lost, o)
             x == Times(vector', o)
             y == Times(lost', o)
  <1>1. t \in Nat /\ v \in Nat /\ w \in Nat /\ x \in Nat /\ y \in Nat
    BY TimesType DEF IInv, ListenerType, FollowerType
  <1>2. refs[o] = t + v + w /\ refs'[o] - refs[o] = (x + y) - (v + w)
    BY DEF IInv, Balanced
  <1>3. refs[o] \in Int /\ refs'[o] \in Int
    BY DEF IInv
  <1> HIDE DEF t, v, w, x, y
  <1>4. refs'[o] = t + x + y
    BY <1>1, <1>2, <1>3
  <1> QED
    BY <1>4 DEF t, x, y

\* A follower is added before the first one, also while a write is on its way:
\* what is behind the write stays what it was.
LEMMA AddFollowerInv ==
    ASSUME IInv, NEW o \in Following, AddFollower(o)
    PROVE  IInv'
  <1> DEFINE n == Len(vector)
  <1>1. /\ refs' = [refs EXCEPT ![o] = @ + 1] /\ vector' = <<o>> \o vector
        /\ pos' = (IF pos = 0 THEN 0 ELSE pos + 1)
        /\ late' = (IF pos = late + 1 THEN late + 1 ELSE late)
        /\ ListenersKept /\ UNCHANGED <<self, life, counts, due, written, lost>>
    BY DEF AddFollower, Get, ListenersKept, multicast
  <1>2. /\ vector \in Seq(Following) /\ n \in Nat /\ lost \in Seq(Following)
        /\ refs \in [Objects -> Int] /\ o \in Objects
        /\ pos \in 0 .. n + 1 /\ late \in 0 .. n /\ (pos > 0 => late < pos)
    BY LenProperties DEF IInv, FollowerType, Objects
  <1>3. /\ vector' \in Seq(Following)
        /\ \A x : Times(vector', x) = Times(vector, x) + (IF o = x THEN 1 ELSE 0)
    BY <1>1, <1>2, TimesCons
  <1>4. <<o>> \in Seq(Following) /\ Len(<<o>>) = 1 /\ Len(vector') = n + 1
    BY <1>1, <1>2
  <1>5. ASSUME pos > 0
        PROVE  SubSeq(vector', pos', Len(vector')) = SubSeq(vector, pos, n)
    <2>1. pos \in 1 .. n + 1 /\ pos' = 1 + pos
      BY <1>1, <1>2, <1>5
    <2>2. SubSeq(<<o>> \o vector, Len(<<o>>) + pos, Len(<<o>> \o vector)) = SubSeq(vector, pos, n)
      BY <1>2, <1>4, <2>1, PartBehind
    <2> QED
      BY <1>1, <1>4, <2>1, <2>2
  <1>6. FollowerType'
    <2>1. /\ pos' \in 0 .. Len(vector') + 1 /\ late' \in 0 .. Len(vector')
          /\ pos' > 0 => late' < pos'
      <3> HIDE DEF n
      <3> QED BY <1>1, <1>2, <1>4
    <2> QED
      BY <1>1, <1>2, <1>3, <2>1 DEF IInv, FollowerType
  <1>7. WriteInv'
    <2>1. pos' = 0 => pos = 0 /\ late' = 0
      BY <1>1, <1>2 DEF IInv, WriteInv
    <2>2. pos' > 0 => pos > 0
      BY <1>1, <1>2
    <2> QED
      BY <1>1, <1>5, <2>1, <2>2 DEF IInv, WriteInv
  <1>8. refs' \in [Objects -> Int]
    BY <1>1, <1>2
  <1>9. \A x \in Objects : refs'[x] - refs[x]
            = (Times(vector', x) + Times(lost', x)) - (Times(vector, x) + Times(lost, x))
    <2> SUFFICES ASSUME NEW x \in Objects
                 PROVE  refs'[x] - refs[x]
                     = (Times(vector', x) + Times(lost', x)) - (Times(vector, x) + Times(lost, x))
      OBVIOUS
    <2>1. refs[x] \in Int /\ Times(vector, x) \in Nat /\ Times(lost, x) \in Nat /\ lost' = lost
      BY <1>1, <1>2, TimesType
    <2>2. refs'[x] = refs[x] + (IF o = x THEN 1 ELSE 0)
      BY <1>1, <1>2
    <2> QED
      BY <1>3, <2>1, <2>2
  <1>10. Balanced(refs, listeners, vector, lost)'
    <2>1. lost' \in Seq(Following)
      BY <1>1, <1>2
    <2> QED
      BY <1>1, <1>3, <1>8, <1>9, <2>1, FollowerRefs
  <1> QED
    BY <1>1, <1>6, <1>7, <1>8, <1>10, ListenersKeptInv DEF IInv

\* A follower is deleted, while there is no write.
LEMMA DelFollowerInv ==
    ASSUME IInv, NEW o \in Following, DelFollower(o)
    PROVE  IInv'
  <1> DEFINE n == Len(vector)
  <1>1. /\ pos = 0 /\ o \in Entries(vector) /\ vector' = RemoveFirst(vector, o)
        /\ refs' = [refs EXCEPT ![o] = @ - 1]
        /\ ListenersKept /\ UNCHANGED <<self, life, pos, late, counts, due, written, lost>>
    BY DEF DelFollower, Put, ListenersKept, multicast, write
  <1>2. /\ vector \in Seq(Following) /\ n \in Nat /\ lost \in Seq(Following)
        /\ refs \in [Objects -> Int] /\ o \in Objects /\ late = 0
    BY <1>1, LenProperties DEF IInv, FollowerType, Objects, WriteInv
  <1>3. PICK k \in 1 .. n : vector[k] = o /\ vector' = RemoveAt(vector, k)
    BY <1>1, <1>2, RemoveFirstProperties
  <1>4. /\ vector' \in Seq(Following) /\ Len(vector') = n - 1
        /\ \A x : Times(vector', x) = Times(vector, x) - (IF vector[k] = x THEN 1 ELSE 0)
    BY <1>2, <1>3, TimesRemove
  <1>5. FollowerType'
    <2>1. pos' \in 0 .. Len(vector') + 1 /\ late' \in 0 .. Len(vector') /\ ~(pos' > 0)
      BY <1>1, <1>2, <1>4
    <2> QED
      BY <1>1, <1>4, <2>1 DEF IInv, FollowerType
  <1>6. WriteInv'
    BY <1>1, <1>2 DEF WriteInv
  <1>7. refs' \in [Objects -> Int]
    BY <1>1, <1>2
  <1>8. \A x \in Objects : refs'[x] - refs[x]
            = (Times(vector', x) + Times(lost', x)) - (Times(vector, x) + Times(lost, x))
    <2> SUFFICES ASSUME NEW x \in Objects
                 PROVE  refs'[x] - refs[x]
                     = (Times(vector', x) + Times(lost', x)) - (Times(vector, x) + Times(lost, x))
      OBVIOUS
    <2>1. refs[x] \in Int /\ Times(vector, x) \in Nat /\ Times(lost, x) \in Nat /\ lost' = lost
      BY <1>1, <1>2, TimesType
    <2>2. refs'[x] = refs[x] - (IF o = x THEN 1 ELSE 0)
      BY <1>1, <1>2
    <2>3. Times(vector', x) = Times(vector, x) - (IF o = x THEN 1 ELSE 0)
      BY <1>3, <1>4
    <2> QED
      BY <2>1, <2>2, <2>3
  <1>9. Balanced(refs, listeners, vector, lost)'
    <2>1. lost' \in Seq(Following)
      BY <1>1, <1>2
    <2> QED
      BY <1>1, <1>4, <1>7, <1>8, <2>1, FollowerRefs
  <1> QED
    BY <1>1, <1>5, <1>6, <1>7, <1>9, ListenersKeptInv DEF IInv

-----------------------------------------------------------------------------
(* Writes. *)

\* A step of a write that leaves the lists alone
ListsKept == UNCHANGED <<listeners, vector, refs, self, cur, stale, got, stays, lost>>

\* It keeps everything but what the write itself is about.
LEMMA ListsKeptInv ==
    ASSUME IInv, ListsKept
    PROVE  /\ ListenerType' /\ MulticastInv'
           /\ refs' \in [Objects -> Int] /\ Balanced(refs, listeners, vector, lost)'
  <1>1. ListenerType' /\ MulticastInv'
    BY ListenersKeptInv DEF ListsKept, ListenersKept
  <1>2. refs' \in [Objects -> Int] /\ Balanced(refs, listeners, vector, lost)'
    BY DEF IInv, ListsKept, Balanced
  <1> QED
    BY <1>1, <1>2

\* A write begins: the handler was written and every cell is due.
LEMMA WriteOutInv ==
    ASSUME IInv, NEW vectored \in BOOLEAN, WriteOut(vectored)
    PROVE  IInv'
  <1>1. /\ counts' \in BOOLEAN /\ pos' = 1 /\ late' = 0 /\ written' = SetToSeq(Handler)
        /\ due' = [o \in Following |-> IF o \in Handler THEN 0 ELSE Times(vector, o)]
        /\ ListsKept /\ life' = life
    BY DEF WriteOut, ListsKept, lists, multicast
  <1>2. vector \in Seq(Following) /\ Len(vector) \in Nat /\ vector' = vector
    BY <1>1, LenProperties DEF IInv, FollowerType, ListsKept
  <1>3. SubSeq(vector, 1, Len(vector)) = vector
    BY <1>2, PartWhole
  <1>4. written' \in Seq(Following) /\ \A o : Times(written', o) = IF o \in Handler THEN 1 ELSE 0
    BY <1>1, HandlerWritten
  <1>5. \A o \in Following : Times(vector, o) \in Nat
    BY <1>2, TimesType
  <1>6. FollowerType'
    <2>1. due' \in [Following -> Nat]
      BY <1>1, <1>5
    <2>2. pos' \in 0 .. Len(vector') + 1 /\ late' \in 0 .. Len(vector') /\ late' < pos'
      BY <1>1, <1>2
    <2> QED
      BY <1>1, <1>4, <2>1, <2>2 DEF IInv, FollowerType, ListsKept
  <1>7. WriteInv'
    <2>1. pos' > 0 /\ pos' # 0
      BY <1>1
    <2> SUFFICES ASSUME NEW o \in Following
                 PROVE  IF o \in Handler THEN Times(written', o) = 1
                        ELSE Times(written', o) + Times(SubSeq(vector', pos', Len(vector')), o) = due'[o]
      BY <2>1 DEF WriteInv
    <2>2. Times(SubSeq(vector', pos', Len(vector')), o) = Times(vector, o)
      BY <1>1, <1>2, <1>3
    <2> QED
      BY <1>1, <1>4, <1>5, <2>2
  <1> QED
    BY <1>1, <1>6, <1>7, ListsKeptInv DEF IInv

\* The walk passes a follower that stays in the list: it is one of those due
\* no more, and was written unless it is the handler.
LEMMA PassInv ==
    ASSUME IInv, ListsKept, Advance, pos \in DOMAIN vector,
           life' \in [Following -> -MinLife .. MaxLife],
           counts' = counts, due' = due,
           written' = IF vector[pos] \in Handler THEN written ELSE Append(written, vector[pos])
    PROVE  IInv'
  <1> DEFINE n == Len(vector)
             e == vector[pos]
  <1>1. /\ vector \in Seq(Following) /\ n \in Nat /\ DOMAIN vector = 1 .. n
        /\ pos \in 1 .. n /\ pos' = pos + 1 /\ late' = 0 /\ vector' = vector
        /\ written \in Seq(Following) /\ e \in Following
    BY LenProperties, ElementOfSeq DEF IInv, FollowerType, ListsKept, Advance
  <1>2. /\ Append(written, e) \in Seq(Following)
        /\ \A o : Times(Append(written, e), o) = Times(written, o) + (IF e = o THEN 1 ELSE 0)
    <2>1. written \in Seq(Following) /\ e \in Following
      BY <1>1
    <2> HIDE DEF e
    <2> QED
      BY <2>1, TimesAppend
  <1>3. written' \in Seq(Following)
    BY <1>1, <1>2
  <1>4. FollowerType'
    <2>1. pos' \in 0 .. Len(vector') + 1 /\ late' \in 0 .. Len(vector') /\ late' < pos'
      BY <1>1
    <2> QED
      BY <1>3, <2>1 DEF IInv, FollowerType, ListsKept
  <1>5. WriteInv'
    <2>1. pos' > 0 /\ pos' # 0 /\ pos > 0
      BY <1>1
    <2> SUFFICES ASSUME NEW o \in Following
                 PROVE  IF o \in Handler THEN Times(written', o) = 1
                        ELSE Times(written', o) + Times(SubSeq(vector', pos', Len(vector')), o) = due'[o]
      BY <2>1 DEF WriteInv
    <2> DEFINE t == Times(written, o)
               r == Times(SubSeq(vector, pos, n), o)
               q == Times(SubSeq(vector, pos + 1, n), o)
    <2>2. r = (IF e = o THEN 1 ELSE 0) + q
      BY <1>1, TimesRest
    <2>3. t \in Nat /\ q \in Nat
      <3>1. Times(SubSeq(vector, pos + 1, Len(vector)), o) \in Nat
        BY <1>1, TimesAround
      <3> QED
        BY <1>1, <3>1, TimesType
    <2>4. IF o \in Handler THEN t = 1 ELSE t + r = due[o]
      BY <2>1 DEF IInv, WriteInv
    <2>5. Times(written', o) = IF e \in Handler \/ e # o THEN t ELSE t + 1
      BY <1>2, <2>3
    <2>6. Times(SubSeq(vector', pos', Len(vector')), o) = q
      BY <1>1
    <2> HIDE DEF t, r, q
    <2> QED
      BY <2>2, <2>3, <2>4, <2>5, <2>6
  <1> QED
    BY <1>4, <1>5, ListsKeptInv DEF IInv

\* The steps that pass a follower
LEMMA AdvanceInv ==
    ASSUME IInv, SkipHandler \/ WriteKeeps \/ WriteFails
    PROVE  IInv'
  <1>1. life \in [Following -> -MinLife .. MaxLife]
    BY DEF IInv, FollowerType
  <1>2. CASE SkipHandler
    BY <1>1, <1>2, PassInv DEF SkipHandler, ListsKept, lists, multicast
  <1>3. ASSUME pos \in DOMAIN vector
        PROVE  vector[pos] \in Following /\ life[vector[pos]] \in -MinLife .. MaxLife
    <2>1. vector[pos] \in Following
      BY <1>3, LenProperties, ElementOfSeq DEF IInv, FollowerType
    <2> QED
      BY <1>1, <2>1
  <1>4. CASE WriteKeeps
    <2> DEFINE e == vector[pos]
               b == IF life[e] < MaxLife THEN life[e] + 1 ELSE life[e]
    <2>1. /\ life' = [life EXCEPT ![e] = b] /\ ListsKept /\ Advance
          /\ pos \in DOMAIN vector /\ e \notin Handler /\ counts' = counts /\ due' = due
          /\ written' = Append(written, e)
      BY <1>4 DEF WriteKeeps, ListsKept, lists, multicast
    <2>2. e \in Following /\ life[e] \in -MinLife .. MaxLife
      BY <1>3, <2>1
    <2>3. b \in -MinLife .. MaxLife
      <3>1. MinLife \in Nat /\ MaxLife \in Nat
        BY ListAssumption
      <3> HIDE DEF e
      <3> QED
        BY <2>2, <3>1
    <2> HIDE DEF b
    <2>4. life' \in [Following -> -MinLife .. MaxLife]
      BY <1>1, <2>1, <2>3
    <2> QED
      BY <2>1, <2>4, PassInv
  <1>5. CASE WriteFails
    <2> DEFINE e == vector[pos]
               b == life[e] - Penalty
    <2>1. /\ life' = [life EXCEPT ![e] = b] /\ ListsKept /\ Advance
          /\ pos \in DOMAIN vector /\ e \notin Handler /\ counts' = counts /\ due' = due
          /\ written' = Append(written, e) /\ b >= -Limit
      BY <1>5 DEF WriteFails, ListsKept, lists, multicast
    <2>2. e \in Following /\ life[e] \in -MinLife .. MaxLife
      BY <1>3, <2>1
    <2>3. b \in -MinLife .. MaxLife
      <3>1. MinLife \in Nat /\ MaxLife \in Nat /\ Limit \in Nat /\ Limit <= MinLife /\ Penalty \in Nat
        BY ListAssumption
      <3> HIDE DEF e
      <3> QED
        BY <2>1, <2>2, <3>1
    <2> HIDE DEF b
    <2>4. life' \in [Following -> -MinLife .. MaxLife]
      BY <1>1, <2>1, <2>3
    <2> QED
      BY <2>1, <2>4, PassInv
  <1> QED
    BY <1>2, <1>4, <1>5

\* The write is over.
LEMMA WriteReturnsInv ==
    ASSUME IInv, WriteReturns
    PROVE  IInv'
  <1>1. /\ pos' = 0 /\ late' = 0 /\ counts' = FALSE /\ due' = NoneDue /\ written' = <<>>
        /\ ListsKept /\ life' = life
    BY DEF WriteReturns, ListsKept, lists, multicast
  <1>2. FollowerType'
    <2>1. Len(vector) \in Nat /\ vector' = vector
      BY <1>1, LenProperties DEF IInv, FollowerType, ListsKept
    <2>2. pos' \in 0 .. Len(vector') + 1 /\ late' \in 0 .. Len(vector') /\ ~(pos' > 0)
      BY <1>1, <2>1
    <2>3. due' \in [Following -> Nat] /\ written' \in Seq(Following)
      BY <1>1 DEF NoneDue
    <2> QED
      BY <1>1, <2>2, <2>3 DEF IInv, FollowerType, ListsKept
  <1>3. WriteInv'
    BY <1>1 DEF WriteInv
  <1> QED
    BY <1>1, <1>2, <1>3, ListsKeptInv DEF IInv

\* A list that loses the cell at p and the k cells before it: what it keeps and
\* what went with the cell make up the list.
LEMMA TimesUnlink ==
    ASSUME NEW S, NEW s \in Seq(S), NEW p \in 1 .. Len(s), NEW k \in 0 .. p - 1, NEW o
    PROVE  /\ Times(SubSeq(s, 1, p - k - 1) \o SubSeq(s, p + 1, Len(s)), o)
                  + Times(SubSeq(s, p - k, p - 1), o)
                  = Times(s, o) - (IF s[p] = o THEN 1 ELSE 0)
  <1> DEFINE w == SubSeq(s, 1, p - 1)
             a == SubSeq(s, 1, p - k - 1)
             b == SubSeq(s, p - k, p - 1)
             c == SubSeq(s, p + 1, Len(s))
  <1>1. /\ Len(s) \in Nat /\ p \in Nat /\ k \in Nat /\ p - 1 \in Nat /\ p - k - 1 \in Nat
        /\ p - k - 1 <= p - 1 /\ p - 1 <= Len(s) /\ (p - k - 1) + 1 = p - k /\ p - k \in Nat
        /\ p + 1 \in Nat /\ 1 <= p + 1 /\ p + 1 <= Len(s) + 1 /\ Len(s) <= Len(s)
        /\ 1 <= p - k /\ p - k <= (p - 1) + 1 /\ 1 <= (p - k - 1) + 1 /\ p - k - 1 <= Len(s)
    BY LenProperties
  <1>2. a \in Seq(S)
    BY <1>1, Part
  <1>3. b \in Seq(S)
    BY <1>1, Part
  <1>4. c \in Seq(S)
    BY <1>1, Part
  <1>5. w = a \o b
    BY <1>1, PartSplit
  <1>6. /\ Times(w, o) \in Nat /\ Times(c, o) \in Nat
        /\ Times(s, o) = Times(w, o) + (IF s[p] = o THEN 1 ELSE 0) + Times(c, o)
    BY TimesAround
  <1> HIDE DEF w, a, b, c
  <1>7. Times(a \o b, o) = Times(a, o) + Times(b, o)
    BY <1>2, <1>3, TimesConcat, Zenon
  <1>8. Times(a \o c, o) = Times(a, o) + Times(c, o)
    BY <1>2, <1>4, TimesConcat, Zenon
  <1>9. Times(a, o) \in Nat /\ Times(b, o) \in Nat
    BY <1>2, <1>3, TimesType
  <1>10. Times(a \o c, o) + Times(b, o) = Times(s, o) - (IF s[p] = o THEN 1 ELSE 0)
    BY <1>5, <1>6, <1>7, <1>8, <1>9
  <1> QED
    BY <1>10 DEF a, b, c

\* A follower is dropped, and those added between prev and it leave the list
\* with it: the walk goes on with the one behind it.
LEMMA WriteDropsInv ==
    ASSUME IInv, WriteDrops, self > 0
    PROVE  IInv'
  <1> DEFINE n == Len(vector)
             e == vector[pos]
             a == SubSeq(vector, 1, pos - late - 1)
             b == SubSeq(vector, pos - late, pos - 1)
             c == SubSeq(vector, pos + 1, n)
  <1>1. /\ pos \in DOMAIN vector /\ counts /\ e \notin Handler
        /\ life[e] - Penalty \in -MinLife .. -(Limit + 1)
        /\ written' = Append(written, e) /\ life' = [life EXCEPT ![e] = @ - Penalty]
        /\ vector' = a \o c /\ lost' = lost \o b
        /\ refs' = [refs EXCEPT ![e] = @ - 1] /\ self' = self - 1
        /\ pos' = pos - late /\ late' = 0
        /\ ListenersKept /\ counts' = counts /\ due' = due
    BY DEF WriteDrops, Unlink, Put, ListenersKept, multicast
  <1>2. /\ vector \in Seq(Following) /\ n \in Nat /\ DOMAIN vector = 1 .. n /\ lost \in Seq(Following)
        /\ pos \in 1 .. n /\ late \in 0 .. pos - 1 /\ written \in Seq(Following)
        /\ e \in Following /\ e \in Objects /\ refs \in [Objects -> Int] /\ self \in 0 .. Owners
    <2>1. vector \in Seq(Following) /\ n \in Nat /\ DOMAIN vector = 1 .. n /\ lost \in Seq(Following)
          /\ written \in Seq(Following) /\ refs \in [Objects -> Int] /\ self \in 0 .. Owners
      BY LenProperties DEF IInv, FollowerType
    <2>2. pos \in 1 .. n
      BY <1>1, <2>1
    <2>3. late \in 0 .. n /\ late < pos
      BY <2>2 DEF IInv, FollowerType
    <2>4. e \in Following
      BY <2>1, <2>2, ElementOfSeq
    <2> HIDE DEF n
    <2>5. late \in 0 .. pos - 1
      BY <2>1, <2>2, <2>3
    <2> QED
      BY <2>1, <2>2, <2>4, <2>5 DEF Objects
  <1>3. /\ a \in Seq(Following) /\ Len(a) = pos - late - 1
    <2>1. pos - late - 1 \in Nat /\ 1 <= (pos - late - 1) + 1 /\ pos - late - 1 <= n
          /\ (pos - late - 1) + 1 - 1 = pos - late - 1
      BY <1>2
    <2>2. a \in Seq(Following) /\ Len(a) = (pos - late - 1) + 1 - 1
      BY <1>2, <2>1, Part
    <2> QED
      BY <2>1, <2>2
  <1>4. b \in Seq(Following)
    <2>1. pos - late \in Nat /\ pos - 1 \in Nat /\ 1 <= pos - late /\ pos - late <= (pos - 1) + 1
          /\ pos - 1 <= n
      BY <1>2
    <2> QED
      BY <1>2, <2>1, Part
  <1>5. c \in Seq(Following) /\ Len(c) = n - pos
    <2>1. pos + 1 \in Nat /\ 1 <= pos + 1 /\ pos + 1 <= n + 1 /\ n <= n /\ n + 1 - (pos + 1) = n - pos
      <3>1. n \in Nat /\ pos \in 1 .. n
        BY <1>2
      <3> HIDE DEF n
      <3> QED
        BY <3>1
    <2>2. c \in Seq(Following) /\ Len(c) = n + 1 - (pos + 1)
      BY <1>2, <2>1, Part
    <2> QED
      BY <2>1, <2>2
  <1>6. \A x : Times(a \o c, x) + Times(b, x) = Times(vector, x) - (IF e = x THEN 1 ELSE 0)
    BY <1>2, TimesUnlink
  <1>7. ASSUME NEW x
        PROVE  Times(SubSeq(vector, pos, n), x) = (IF e = x THEN 1 ELSE 0) + Times(c, x)
    BY <1>2, TimesRest
  <1> HIDE DEF a, b, c, e
  <1>8. /\ a \o c \in Seq(Following) /\ Len(a \o c) = n - late - 1 /\ lost \o b \in Seq(Following)
    <2>1. Len(a \o c) = Len(a) + Len(c) /\ a \o c \in Seq(Following) /\ lost \o b \in Seq(Following)
      <3>1. a \in Seq(Following) /\ b \in Seq(Following) /\ c \in Seq(Following) /\ lost \in Seq(Following)
        BY <1>2, <1>3, <1>4, <1>5
      <3> QED
        BY <3>1, ConcatProperties
    <2> HIDE DEF n
    <2> QED
      BY <1>2, <1>3, <1>5, <2>1
  <1>9. SubSeq(vector', pos', Len(vector')) = c
    <2>1. a \in Seq(Following) /\ c \in Seq(Following) /\ Len(c) \in Nat /\ 1 \in 1 .. Len(c) + 1
      <3>1. c \in Seq(Following)
        BY <1>5
      <3>2. Len(c) \in Nat
        BY <3>1, LenProperties
      <3> QED
        BY <1>3, <3>1, <3>2
    <2>2. SubSeq(a \o c, Len(a) + 1, Len(a \o c)) = SubSeq(c, 1, Len(c))
      BY <2>1, PartBehind
    <2>3. SubSeq(c, 1, Len(c)) = c
      BY <2>1, PartWhole
    <2>4. Len(a) + 1 = pos'
      BY <1>1, <1>2, <1>3
    <2> QED
      BY <1>1, <2>2, <2>3, <2>4
  <1>10. /\ written' \in Seq(Following)
         /\ \A x : Times(written', x) = Times(written, x) + (IF e = x THEN 1 ELSE 0)
    <2>1. written \in Seq(Following) /\ e \in Following /\ written' = Append(written, e)
      BY <1>1, <1>2
    <2>2. /\ Append(written, e) \in Seq(Following)
          /\ \A x : Times(Append(written, e), x) = Times(written, x) + (IF e = x THEN 1 ELSE 0)
      BY <2>1, TimesAppend
    <2> QED
      BY <2>1, <2>2
  <1>11. FollowerType'
    <2>1. /\ pos' \in 0 .. Len(vector') + 1 /\ late' \in 0 .. Len(vector') /\ late' < pos'
      <3>1. Len(vector') = n - late - 1
        BY <1>1, <1>8
      <3> HIDE DEF n
      <3> QED
        BY <1>1, <1>2, <3>1
    <2>2. self' \in 0 .. Owners
      <3>1. Owners \in Nat
        BY ListAssumption
      <3> QED
        BY <1>1, <1>2, <3>1
    <2>3. life' \in [Following -> -MinLife .. MaxLife]
      <3>1. MinLife \in Nat /\ MaxLife \in Nat /\ Limit \in Nat
        BY ListAssumption
      <3>2. \A i \in -MinLife .. -(Limit + 1) : i \in -MinLife .. MaxLife
        BY <3>1
      <3>3. life \in [Following -> -MinLife .. MaxLife]
        BY DEF IInv, FollowerType
      <3> QED
        BY <1>1, <1>2, <3>2, <3>3
    <2> QED
      BY <1>1, <1>8, <1>10, <2>1, <2>2, <2>3 DEF IInv, FollowerType
  <1>12. WriteInv'
    <2>1. pos' > 0 /\ pos' # 0 /\ pos > 0
      BY <1>1, <1>2
    <2> SUFFICES ASSUME NEW o \in Following
                 PROVE  IF o \in Handler THEN Times(written', o) = 1
                        ELSE Times(written', o) + Times(SubSeq(vector', pos', Len(vector')), o) = due'[o]
      BY <2>1 DEF WriteInv
    <2> DEFINE t == Times(written, o)
               r == Times(SubSeq(vector, pos, n), o)
               q == Times(c, o)
    <2>2. r = (IF e = o THEN 1 ELSE 0) + q
      BY <1>7
    <2>3. t \in Nat /\ q \in Nat
      BY <1>2, <1>5, TimesType
    <2>4. IF o \in Handler THEN t = 1 ELSE t + r = due[o]
      BY <2>1 DEF IInv, WriteInv
    <2>5. Times(written', o) = t + (IF e = o THEN 1 ELSE 0) /\ due'[o] = due[o] /\ e \notin Handler
      BY <1>1, <1>10
    <2>6. Times(SubSeq(vector', pos', Len(vector')), o) = q
      BY <1>9
    <2> HIDE DEF t, r, q
    <2> QED
      BY <2>2, <2>3, <2>4, <2>5, <2>6
  <1>13. refs' \in [Objects -> Int]
    BY <1>1, <1>2
  <1>14. \A x \in Objects : refs'[x] - refs[x]
             = (Times(vector', x) + Times(lost', x)) - (Times(vector, x) + Times(lost, x))
    <2> SUFFICES ASSUME NEW x \in Objects
                 PROVE  refs'[x] - refs[x]
                     = (Times(vector', x) + Times(lost', x)) - (Times(vector, x) + Times(lost, x))
      OBVIOUS
    <2> DEFINE v == Times(vector, x)
               l == Times(lost, x)
               f == Times(b, x)
               g == Times(vector', x)
    <2>1. refs[x] \in Int /\ v \in Nat /\ l \in Nat /\ f \in Nat /\ g \in Nat
      BY <1>1, <1>2, <1>4, <1>8, TimesType
    <2>2. refs'[x] = refs[x] - (IF e = x THEN 1 ELSE 0)
      BY <1>1, <1>2
    <2>3. g + f = v - (IF e = x THEN 1 ELSE 0)
      BY <1>1, <1>6
    <2>4. Times(lost', x) = l + f
      <3>1. Times(lost \o b, x) = Times(lost, x) + Times(b, x)
        BY <1>2, <1>4, TimesConcat
      <3> QED
        BY <1>1, <3>1
    <2> HIDE DEF v, l, f, g
    <2>5. refs'[x] - refs[x] = (g + (l + f)) - (v + l)
      BY <2>1, <2>2, <2>3
    <2> QED
      BY <2>4, <2>5 DEF v, l, g
  <1>15. Balanced(refs, listeners, vector, lost)'
    BY <1>1, <1>8, <1>13, <1>14, FollowerRefs
  <1> QED
    BY <1>1, <1>11, <1>12, <1>13, <1>15, ListenersKeptInv DEF IInv

-----------------------------------------------------------------------------
(* The theorems. *)

\* The lists are empty at first.
LEMMA InitInv == Init => IInv
  <1> SUFFICES ASSUME Init PROVE IInv
    OBVIOUS
  <1>1. ListenerType
    <2>1. listeners \in Seq(Listening) /\ got \in Seq(Listening) /\ cur = {} /\ stays = {}
      BY DEF Init
    <2>2. stale \in BOOLEAN
      BY DEF Init
    <2> QED
      BY <2>1, <2>2 DEF ListenerType
  <1>2. FollowerType
    <2>1. 0 \in -MinLife .. MaxLife /\ Owners \in 0 .. Owners
      BY ListAssumption
    <2>2. life \in [Following -> -MinLife .. MaxLife] /\ self \in 0 .. Owners
      BY <2>1 DEF Init
    <2>3. due \in [Following -> Nat]
      BY DEF Init, NoneDue
    <2>4. /\ vector \in Seq(Following) /\ written \in Seq(Following) /\ lost \in Seq(Following)
          /\ pos \in 0 .. Len(vector) + 1 /\ late \in 0 .. Len(vector) /\ ~(pos > 0)
      BY DEF Init
    <2>5. counts \in BOOLEAN
      BY DEF Init
    <2> QED
      BY <2>2, <2>3, <2>4, <2>5 DEF FollowerType
  <1>3. refs \in [Objects -> Int] /\ Balanced(refs, listeners, vector, lost)
    BY TimesEmpty DEF Init, Balanced
  <1>4. MulticastInv
    BY DEF Init, MulticastInv, NoDuplicates
  <1>5. WriteInv
    BY DEF Init, WriteInv
  <1> QED
    BY <1>1, <1>2, <1>3, <1>4, <1>5 DEF IInv

\* Every step keeps the invariant.
LEMMA NextInv == IInv /\ [Next]_vars => IInv'
  <1> SUFFICES ASSUME IInv, [Next]_vars PROVE IInv'
    OBVIOUS
  <1>1. ASSUME NEW o \in Listening, Subscribe(o) PROVE IInv'
    BY <1>1, SubscribeInv
  <1>2. ASSUME NEW o \in Listening, Unsubscribe(o) PROVE IInv'
    BY <1>2, UnsubscribeInv
  <1>3. CASE ResetSubscription
    BY <1>3, ResetInv
  <1>4. CASE Multicast
    BY <1>4, MulticastStartInv
  <1>5. CASE MulticastNext
    BY <1>5, MulticastNextInv
  <1>6. ASSUME NEW o \in Following, AddFollower(o) PROVE IInv'
    BY <1>6, AddFollowerInv
  <1>7. ASSUME NEW o \in Following, DelFollower(o) PROVE IInv'
    BY <1>7, DelFollowerInv
  <1>8. ASSUME NEW vectored \in BOOLEAN, WriteOut(vectored) PROVE IInv'
    BY <1>8, WriteOutInv
  <1>9. CASE SkipHandler \/ WriteKeeps \/ WriteFails
    BY <1>9, AdvanceInv
  <1>10. CASE WriteDrops /\ self > 0
    BY <1>10, WriteDropsInv
  <1>11. CASE WriteReturns
    BY <1>11, WriteReturnsInv
  <1>12. CASE UNCHANGED vars
    <2>1. ListsKept /\ UNCHANGED <<life, pos, late, counts, due, written>>
      BY <1>12 DEF vars, lists, multicast, write, ListsKept
    <2>2. FollowerType' /\ WriteInv'
      BY <2>1, FollowersKeptInv DEF ListsKept, FollowersKept
    <2> QED
      BY <2>1, <2>2, ListsKeptInv DEF IInv
  <1> QED
    BY <1>1, <1>2, <1>3, <1>4, <1>5, <1>6, <1>7, <1>8, <1>9, <1>10, <1>11, <1>12 DEF Next

\* The invariant holds of every state that calls of x_obj.c can reach.
THEOREM Invariance == Spec => []IInv
  BY InitInv, NextInv, PTL DEF Spec

\* Lists hold objects and walks are at an entry of them, through every change
\* of the lists that callbacks and other threads make.
THEOREM TypeCorrect == Spec => []TypeOK
  <1>1. IInv => TypeOK
    BY InvProperties
  <1> QED
    BY <1>1, Invariance, PTL

\* x_object_subscribe, x_object_add_follower and what undoes them keep one
\* reference for each cell of the two lists.
THEOREM CellsAreExact == Spec => []CellsExact
  <1>1. IInv => CellsExact
    BY InvProperties
  <1> QED
    BY <1>1, Invariance, PTL

\* A finished x_object_writev_out has written every follower that was there
\* once for each of its cells, and the handler once.
THEOREM WritesAreExact == Spec => []WriteExact
  <1>1. IInv => WriteExact
    BY InvProperties
  <1> QED
    BY <1>1, Invariance, PTL

\* x_object_sendmsg_multicast reaches no listener twice, and everyone who was
\* there all the time by its end.
THEOREM MulticastsAreExact == Spec => MulticastExact
  <1> DEFINE Reached == \A o \in Listening : Times(got', o) <= 1
             Ended == cur # {} /\ cur' = {} => stays \subseteq Entries(got)
  <1>1. IInv' => Reached
    <2> SUFFICES ASSUME IInv', NEW o \in Listening PROVE Times(got', o) <= 1
      OBVIOUS
    <2>1. got' \in Seq(Listening) /\ NoDuplicates(got')
      BY DEF IInv, ListenerType, MulticastInv
    <2>2. CASE \E i \in DOMAIN got' : got'[i] = o
      <3>1. PICK i \in DOMAIN got' : got'[i] = o
        BY <2>2
      <3>2. {j \in DOMAIN got' : got'[j] = o} = {i}
        BY <2>1, <3>1 DEF NoDuplicates
      <3>3. Times(got', o) = 1
        BY <3>2, FS_Singleton DEF Times
      <3> QED
        BY <3>3
    <2>3. CASE ~\E i \in DOMAIN got' : got'[i] = o
      <3>1. {j \in DOMAIN got' : got'[j] = o} = {}
        BY <2>3
      <3>2. Times(got', o) = 0
        BY <3>1, FS_EmptySet DEF Times
      <3> QED
        BY <3>2
    <2> QED
      BY <2>2, <2>3
  <1>2. IInv /\ [Next]_vars => Ended
    <2> SUFFICES ASSUME IInv, Next, cur # {}, cur' = {} PROVE stays \subseteq Entries(got)
      BY DEF vars, multicast
    <2>1. CASE MulticastNext
      BY <2>1, MulticastNextInv
    <2>2. CASE ~MulticastNext
      <3>1. cur' = cur
        BY <2>2 DEF Next, Subscribe, Unsubscribe, ResetSubscription, Multicast, AddFollower,
                    DelFollower, WriteOut, SkipHandler, WriteKeeps, WriteFails, WriteDrops,
                    WriteReturns, multicast
      <3> QED
        BY <3>1
    <2> QED
      BY <2>1, <2>2
  <1>3. IInv /\ IInv' /\ [Next]_vars => [Reached /\ Ended]_vars
    BY <1>1, <1>2
  <1> QED
    BY <1>3, Invariance, PTL DEF Spec, MulticastExact
=============================================================================
