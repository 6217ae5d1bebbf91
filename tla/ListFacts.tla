------------------------------ MODULE ListFacts ------------------------------
(***************************************************************************)
(* Facts about numbers and lists that the proofs of several components     *)
(* need.                                                                   *)
(***************************************************************************)
EXTENDS Integers, Sequences, FiniteSets, SequenceTheorems, FiniteSetTheorems,
        WellFoundedInduction, TLAPS

\* A set of numbers that is not empty has a least element.
LEMMA LeastExists ==
    ASSUME NEW S \in SUBSET Nat, S # {}
    PROVE  \E i \in S : \A j \in S : i <= j
  <1> DEFINE R == {ss \in Nat \X Nat : ss[1] < ss[2]}
  <1>1. IsWellFoundedOn(R, Nat)
    BY NatLessThanWellFounded DEF OpToRel
  <1> HIDE DEF R
  <1>2. PICK x \in S : \A y \in S : ~(<<y, x>> \in R)
    BY <1>1, WFMin
  <1>3. \A y \in S : ~(y < x)
    BY <1>2 DEF R
  <1> QED
    BY <1>3

\* A function from 1 .. n is a sequence of length n.
LEMMA FunctionIsSeq ==
    ASSUME NEW S, NEW n \in Nat, NEW s \in [1 .. n -> S]
    PROVE  s \in Seq(S) /\ Len(s) = n
  <1>1. s \in Seq(S)
    BY SeqDef
  <1>2. DOMAIN s = 1 .. Len(s) /\ Len(s) \in Nat /\ DOMAIN s = 1 .. n
    BY <1>1, LenProperties
  <1>3. Len(s) = n
    <2>1. n > 0 => n \in 1 .. Len(s)
      BY <1>2
    <2>2. Len(s) > 0 => Len(s) \in 1 .. n
      BY <1>2
    <2> QED
      BY <1>2, <2>1, <2>2
  <1> QED
    BY <1>1, <1>3

\* A part of a list: SubSeq from one index to another, also when it is empty.
LEMMA Part ==
    ASSUME NEW S, NEW s \in Seq(S), NEW a \in Nat, NEW b \in Nat,
           1 <= a, a <= b + 1, b <= Len(s)
    PROVE  /\ SubSeq(s, a, b) \in Seq(S)
           /\ Len(SubSeq(s, a, b)) = b + 1 - a
           /\ \A i \in 1 .. b + 1 - a : SubSeq(s, a, b)[i] = s[a + i - 1]
  <1>0. Len(s) \in Nat /\ \A i \in 1 .. Len(s) : s[i] \in S
    BY LenProperties, ElementOfSeq
  <1>1. SubSeq(s, a, b) = [i \in 1 .. 1 + b - a |-> s[i + a - 1]]
    OBVIOUS
  <1>2. 1 + b - a \in Nat /\ 1 + b - a = b + 1 - a
    OBVIOUS
  <1>3. \A i \in 1 .. 1 + b - a : i + a - 1 \in 1 .. Len(s) /\ i + a - 1 = a + i - 1
    BY <1>0
  <1>4. SubSeq(s, a, b) \in [1 .. 1 + b - a -> S]
    BY <1>0, <1>1, <1>3
  <1>5. SubSeq(s, a, b) \in Seq(S) /\ Len(SubSeq(s, a, b)) = 1 + b - a
    BY <1>2, <1>4, FunctionIsSeq
  <1>6. \A i \in 1 .. 1 + b - a : SubSeq(s, a, b)[i] = s[a + i - 1]
    <2> SUFFICES ASSUME NEW i \in 1 .. 1 + b - a
                 PROVE  SubSeq(s, a, b)[i] = s[a + i - 1]
      OBVIOUS
    <2>1. SubSeq(s, a, b)[i] = s[i + a - 1]
      BY <1>1
    <2> QED
      BY <1>3, <2>1
  <1> QED
    BY <1>2, <1>5, <1>6

\* A list is what is before an entry, the entry, and what is behind it.
LEMMA Around ==
    ASSUME NEW S, NEW s \in Seq(S), NEW k \in 1 .. Len(s)
    PROVE  s = SubSeq(s, 1, k - 1) \o (<<s[k]>> \o SubSeq(s, k + 1, Len(s)))
  <1> DEFINE l == SubSeq(s, 1, k - 1)
             r == SubSeq(s, k + 1, Len(s))
             m == <<s[k]>> \o r
  <1>1. Len(s) \in Nat /\ k \in Nat /\ k - 1 \in Nat /\ s[k] \in S
    BY LenProperties, ElementOfSeq
  <1>2. l \in Seq(S) /\ Len(l) = k - 1 /\ \A i \in 1 .. k - 1 : l[i] = s[i]
    BY <1>1, Part
  <1>3. /\ r \in Seq(S) /\ Len(r) = Len(s) - k
        /\ \A i \in 1 .. Len(s) - k : r[i] = s[k + i]
    <2>1. /\ r \in Seq(S) /\ Len(r) = Len(s) + 1 - (k + 1)
          /\ \A i \in 1 .. Len(s) + 1 - (k + 1) : r[i] = s[(k + 1) + i - 1]
      BY <1>1, Part
    <2> QED
      BY <1>1, <2>1
  <1> HIDE DEF l, r
  <1>4. /\ m \in Seq(S) /\ Len(m) = 1 + Len(r) /\ m[1] = s[k]
        /\ \A i \in 1 .. Len(r) : m[i + 1] = r[i]
    <2>1. <<s[k]>> \in Seq(S) /\ Len(<<s[k]>>) = 1 /\ <<s[k]>>[1] = s[k]
      BY <1>1
    <2>2. /\ m \in Seq(S) /\ Len(m) = 1 + Len(r) /\ Len(r) \in Nat
          /\ \A i \in 1 .. 1 + Len(r) : m[i] = IF i <= 1 THEN <<s[k]>>[i] ELSE r[i - 1]
      <3>1. <<s[k]>> \in Seq(S) /\ r \in Seq(S)
        BY <1>3, <2>1
      <3>2. Len(r) \in Nat
        BY <3>1, LenProperties
      <3>3. /\ m \in Seq(S) /\ Len(m) = Len(<<s[k]>>) + Len(r)
            /\ \A i \in 1 .. Len(<<s[k]>>) + Len(r) :
                   m[i] = IF i <= Len(<<s[k]>>) THEN <<s[k]>>[i] ELSE r[i - Len(<<s[k]>>)]
        BY <3>1, ConcatProperties, Zenon
      <3> QED
        BY <2>1, <3>2, <3>3
    <2>3. \A i \in 1 .. Len(r) : i + 1 \in 1 .. 1 + Len(r) /\ ~(i + 1 <= 1) /\ (i + 1) - 1 = i
      BY <2>2
    <2> QED
      BY <2>1, <2>2, <2>3
  <1> HIDE DEF m
  <1>5. /\ l \o m \in Seq(S) /\ Len(l \o m) = Len(s)
        /\ \A i \in 1 .. Len(s) : (l \o m)[i] = IF i <= k - 1 THEN l[i] ELSE m[i - (k - 1)]
    <2>1. /\ l \o m \in Seq(S) /\ Len(l \o m) = Len(l) + Len(m)
          /\ \A i \in 1 .. Len(l) + Len(m) :
                 (l \o m)[i] = IF i <= Len(l) THEN l[i] ELSE m[i - Len(l)]
      <3>1. l \in Seq(S) /\ m \in Seq(S)
        BY <1>2, <1>4
      <3> QED
        BY <3>1, ConcatProperties
    <2>2. Len(l) + Len(m) = Len(s)
      <3>1. Len(l) = k - 1 /\ Len(r) = Len(s) - k /\ Len(m) = 1 + Len(r)
        BY <1>2, <1>3, <1>4
      <3> QED
        BY <1>1, <3>1
    <2> QED
      BY <1>2, <2>1, <2>2
  <1>6. \A i \in 1 .. Len(s) : (l \o m)[i] = s[i]
    <2> SUFFICES ASSUME NEW i \in 1 .. Len(s) PROVE (l \o m)[i] = s[i]
      OBVIOUS
    <2>1. CASE i < k
      <3>1. i <= k - 1 /\ i \in 1 .. k - 1
        BY <1>1, <2>1
      <3> QED
        BY <1>2, <1>5, <3>1
    <2>2. CASE i = k
      <3>1. ~(i <= k - 1) /\ i - (k - 1) = 1
        BY <1>1, <2>2
      <3> QED
        BY <1>4, <1>5, <2>2, <3>1
    <2>3. CASE i > k
      <3>1. i - k \in 1 .. Len(r) /\ (i - k) + 1 = i - (k - 1) /\ k + (i - k) = i /\ ~(i <= k - 1)
        BY <1>1, <1>2, <1>3, <2>3
      <3>2. (l \o m)[i] = m[i - (k - 1)]
        BY <1>5, <3>1
      <3> QED
        BY <1>3, <1>4, <3>1, <3>2
    <2>4. i < k \/ i = k \/ i > k
      BY <1>1
    <2> QED
      BY <2>1, <2>2, <2>3, <2>4
  <1>7. l \o m = s
    BY <1>5, <1>6, SeqEqual
  <1> QED
    BY <1>7 DEF l, m, r

\* A list from its first entry to its last is the list.
LEMMA PartWhole ==
    ASSUME NEW S, NEW s \in Seq(S)
    PROVE  SubSeq(s, 1, Len(s)) = s
  <1>1. Len(s) \in Nat /\ 1 <= Len(s) + 1 /\ Len(s) + 1 - 1 = Len(s)
    BY LenProperties
  <1>2. /\ SubSeq(s, 1, Len(s)) \in Seq(S) /\ Len(SubSeq(s, 1, Len(s))) = Len(s) + 1 - 1
        /\ \A i \in 1 .. Len(s) + 1 - 1 : SubSeq(s, 1, Len(s))[i] = s[1 + i - 1]
    BY <1>1, Part
  <1>3. \A i \in 1 .. Len(s) : 1 + i - 1 = i
    BY <1>1
  <1> QED
    BY <1>1, <1>2, <1>3, SeqEqual

\* A list that stands behind another one keeps its parts.
LEMMA PartBehind ==
    ASSUME NEW S, NEW a \in Seq(S), NEW c \in Seq(S), NEW p \in 1 .. Len(c) + 1
    PROVE  SubSeq(a \o c, Len(a) + p, Len(a \o c)) = SubSeq(c, p, Len(c))
  <1> DEFINE n == Len(a)
             m == Len(c)
             u == a \o c
             l == SubSeq(u, n + p, n + m)
             r == SubSeq(c, p, m)
  <1>1. n \in Nat /\ m \in Nat /\ p \in Nat /\ 1 <= p /\ p <= m + 1
    BY LenProperties
  <1>2. /\ u \in Seq(S) /\ Len(u) = n + m
        /\ \A i \in 1 .. n + m : u[i] = IF i <= n THEN a[i] ELSE c[i - n]
    BY ConcatProperties
  <1> HIDE DEF n, m, u
  <1>3. /\ n + p \in Nat /\ n + m \in Nat /\ 1 <= n + p /\ n + p <= n + m + 1
        /\ n + m + 1 - (n + p) = m + 1 - p
    BY <1>1
  <1>4. /\ l \in Seq(S) /\ Len(l) = n + m + 1 - (n + p)
        /\ \A i \in 1 .. n + m + 1 - (n + p) : l[i] = u[n + p + i - 1]
    BY <1>2, <1>3, Part
  <1>5. /\ r \in Seq(S) /\ Len(r) = m + 1 - p
        /\ \A i \in 1 .. m + 1 - p : r[i] = c[p + i - 1]
    BY <1>1, Part DEF m
  <1>6. \A i \in 1 .. m + 1 - p : l[i] = r[i]
    <2> SUFFICES ASSUME NEW i \in 1 .. m + 1 - p PROVE l[i] = r[i]
      OBVIOUS
    <2>1. /\ n + p + i - 1 \in 1 .. n + m /\ ~(n + p + i - 1 <= n)
          /\ (n + p + i - 1) - n = p + i - 1
      BY <1>1
    <2>2. u[n + p + i - 1] = c[p + i - 1]
      BY <1>2, <2>1
    <2> QED
      BY <1>3, <1>4, <1>5, <2>2
  <1>7. l = r
    <2> HIDE DEF l, r
    <2> QED BY <1>3, <1>4, <1>5, <1>6, SeqEqual
  <1> QED
    BY <1>2, <1>7 DEF n, m, u

\* What is before the b-th entry is what is before the a-th and what is from
\* there on.
LEMMA PartSplit ==
    ASSUME NEW S, NEW s \in Seq(S), NEW a \in Nat, NEW b \in Nat, a <= b, b <= Len(s)
    PROVE  SubSeq(s, 1, b) = SubSeq(s, 1, a) \o SubSeq(s, a + 1, b)
  <1> DEFINE w == SubSeq(s, 1, b)
             l == SubSeq(s, 1, a)
             r == SubSeq(s, a + 1, b)
  <1>1. /\ Len(s) \in Nat /\ 1 <= b + 1 /\ b + 1 - 1 = b /\ 1 <= a + 1 /\ a + 1 - 1 = a
        /\ a + 1 \in Nat /\ a + 1 <= b + 1 /\ b + 1 - (a + 1) = b - a /\ a <= Len(s) /\ b - a \in Nat
    BY LenProperties
  <1>2. /\ w \in Seq(S) /\ Len(w) = b + 1 - 1 /\ \A i \in 1 .. b + 1 - 1 : w[i] = s[1 + i - 1]
    BY <1>1, Part
  <1>3. /\ l \in Seq(S) /\ Len(l) = a + 1 - 1 /\ \A i \in 1 .. a + 1 - 1 : l[i] = s[1 + i - 1]
    BY <1>1, Part
  <1>4. /\ r \in Seq(S) /\ Len(r) = b + 1 - (a + 1)
        /\ \A i \in 1 .. b + 1 - (a + 1) : r[i] = s[a + 1 + i - 1]
    BY <1>1, Part
  <1> HIDE DEF w, l, r
  <1>5. /\ l \o r \in Seq(S) /\ Len(l \o r) = Len(l) + Len(r)
        /\ \A i \in 1 .. Len(l) + Len(r) : (l \o r)[i] = IF i <= Len(l) THEN l[i] ELSE r[i - Len(l)]
    <2>1. l \in Seq(S) /\ r \in Seq(S)
      BY <1>3, <1>4
    <2> QED
      BY <2>1, ConcatProperties
  <1>6. Len(l) = a /\ Len(r) = b - a /\ Len(w) = b /\ Len(l) + Len(r) = b
    BY <1>1, <1>2, <1>3, <1>4
  <1>7. \A i \in 1 .. b : w[i] = (l \o r)[i]
    <2> SUFFICES ASSUME NEW i \in 1 .. b PROVE w[i] = (l \o r)[i]
      OBVIOUS
    <2>1. w[i] = s[i]
      BY <1>1, <1>2
    <2>2. (l \o r)[i] = IF i <= a THEN l[i] ELSE r[i - a]
      BY <1>5, <1>6
    <2>3. CASE i <= a
      <3>1. i \in 1 .. a + 1 - 1 /\ 1 + i - 1 = i
        BY <2>3
      <3> QED
        BY <1>3, <2>1, <2>2, <2>3, <3>1
    <2>4. CASE ~(i <= a)
      <3>1. i - a \in 1 .. b + 1 - (a + 1) /\ a + 1 + (i - a) - 1 = i
        BY <2>4
      <3> QED
        BY <1>4, <2>1, <2>2, <2>4, <3>1
    <2> QED
      BY <2>3, <2>4
  <1>8. w = l \o r
    BY <1>2, <1>5, <1>6, <1>7, SeqEqual
  <1> QED
    BY <1>8 DEF w, l, r
=============================================================================
