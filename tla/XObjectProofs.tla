---------------------------- MODULE XObjectProofs ----------------------------
(***************************************************************************)
(* Proofs about XObject and its callers.  Whatever the callers do, the     *)
(* object tree never loses or invents a reference, and child_count is      *)
(* exact.  Callers that never use _RMOV find the lists of a node and the   *)
(* next chains in order; callers that tear trees down the way the session  *)
(* code does free nothing that is in use.                                  *)
(***************************************************************************)
EXTENDS XCallers, ListFacts

\* The tree is sound, and its counters are explained by the references own
\* attributes to program code.  In the middle of an operation own differs from
\* h.held by the references that are on their way into or out of the tree.
Good(h, own) ==
    /\ h \in Heaps /\ own \in [Objects -> Int]
    /\ BalancedAs(h, own) /\ Counted(h) /\ Placed(h)

\* What a heap operator may leave untouched without disturbing Good.
SameTree(g, h) ==
    /\ g.st = h.st
    /\ g.parent = h.parent
    /\ g.child_count = h.child_count
    /\ g.leak = h.leak
    /\ g.held = h.held

-----------------------------------------------------------------------------
(* Children of a node, as the tree changes. *)

\* Arithmetic of a balance that is moved unchanged.
LEMMA SameBalance ==
    ASSUME NEW a \in Int, NEW b \in Int, NEW c \in Int, NEW d \in Int, NEW x \in Int,
           a - b = c - d, c = d + x
    PROVE  a = b + x
  OBVIOUS

\* The children of a node are finitely many, because x_malloc returns one of
\* finitely many addresses.
LEMMA ChildrenFinite ==
    ASSUME NEW h, NEW p
    PROVE  /\ IsFiniteSet(Children(h, p))
           /\ Cardinality(Children(h, p)) \in Nat
  <1>1. Children(h, p) \subseteq Objects
    BY DEF Children, Alive
  <1>2. IsFiniteSet(Children(h, p))
    BY <1>1, ObjectsAssumption, FS_Subset
  <1> QED
    BY <1>2, FS_CardinalityType

\* Reading and writing nodes changes nothing but the record of bad accesses.
LEMMA TouchType ==
    ASSUME NEW h \in Heaps, NEW S
    PROVE  /\ Touch(h, S) \in Heaps
           /\ SameTree(Touch(h, S), h)
           /\ Touch(h, S).rc = h.rc
  BY DEF Touch, Heaps, SameTree

\* Good does not depend on the list pointers.
LEMMA SameTreeGood ==
    ASSUME NEW g \in Heaps, NEW h \in Heaps, NEW own, NEW new \in [Objects -> Int],
           Good(h, own), SameTree(g, h),
           \A o \in Alive(h) : g.rc[o] - new[o] = h.rc[o] - own[o]
    PROVE  Good(g, new)
  <1>0. own \in [Objects -> Int]
    BY DEF Good
  <1>1. \A o \in Objects : Children(g, o) = Children(h, o) /\ Linked(g, o) = Linked(h, o)
    BY DEF SameTree, Children, Alive, Linked
  <1>2. Alive(g) = Alive(h) /\ Alive(g) \subseteq Objects
    BY DEF SameTree, Alive
  <1>3. Counted(g)
    BY <1>1, <1>2 DEF Good, Counted, SameTree
  <1>4. Placed(g)
    BY DEF Good, Placed, SameTree
  <1>5. BalancedAs(g, new)
    <2> SUFFICES ASSUME NEW o \in Alive(g)
                 PROVE  g.rc[o] = new[o] + Linked(g, o)
                                    + Cardinality(Children(g, o)) + g.leak[o]
      BY DEF BalancedAs
    <2>1. h.rc[o] = own[o] + Linked(h, o) + Cardinality(Children(h, o)) + h.leak[o]
      BY <1>2 DEF Good, BalancedAs
    <2>2. /\ g.leak[o] = h.leak[o] /\ Linked(g, o) = Linked(h, o)
          /\ Cardinality(Children(g, o)) = Cardinality(Children(h, o))
      BY <1>1, <1>2 DEF SameTree
    <2>3. g.rc[o] - new[o] = h.rc[o] - own[o]
      BY <1>2
    <2>4. /\ g.rc[o] \in Int /\ new[o] \in Int /\ h.rc[o] \in Int /\ own[o] \in Int
          /\ h.leak[o] \in Int /\ Linked(h, o) \in Int
          /\ Cardinality(Children(h, o)) \in Int
      BY <1>0, <1>2, ChildrenFinite DEF Heaps, Linked
    <2> DEFINE x == Linked(h, o) + Cardinality(Children(h, o)) + h.leak[o]
    <2>5. x \in Int /\ h.rc[o] = own[o] + x
      BY <2>1, <2>4
    <2>6. g.rc[o] = new[o] + x
      <3> HIDE DEF x
      <3> QED BY <2>3, <2>4, <2>5, SameBalance
    <2> QED
      BY <2>2, <2>4, <2>6
  <1> QED
    BY <1>3, <1>4, <1>5 DEF Good

\* Any operation that only reads the heap keeps the balance.
LEMMA TouchGood ==
    ASSUME NEW h \in Heaps, NEW own, Good(h, own), NEW S
    PROVE  Good(Touch(h, S), own)
  <1>1. \A x \in Alive(h) : Touch(h, S).rc[x] - own[x] = h.rc[x] - own[x]
    BY TouchType
  <1> QED
    BY <1>1, TouchType, SameTreeGood DEF Good

-----------------------------------------------------------------------------
(* Taking a reference, and linking a node. *)

\* x_object_ref_get adds one reference to the account.
LEMMA RefIncGood ==
    ASSUME NEW h \in Heaps, NEW o \in Objects, NEW own, Good(h, own)
    PROVE  /\ Good(RefInc(h, o), [own EXCEPT ![o] = @ + 1])
           /\ RefInc(h, o).held = h.held
  <1> DEFINE new == [own EXCEPT ![o] = @ + 1]
  <1>0. own \in [Objects -> Int] /\ new \in [Objects -> Int]
    BY DEF Good
  <1>1. CASE h.st[o] = "freed"
    <2>1. RefInc(h, o) = Touch(h, {o})
      BY <1>1 DEF RefInc
    <2>2. \A x \in Alive(h) : new[x] = own[x]
      BY <1>0, <1>1 DEF Alive
    <2>3. \A x \in Alive(h) : Touch(h, {o}).rc[x] - new[x] = h.rc[x] - own[x]
      BY <2>2, TouchType
    <2> HIDE DEF new
    <2>4. Good(RefInc(h, o), new)
      BY <1>0, <2>1, <2>3, TouchType, SameTreeGood
    <2> QED
      BY <2>1, <2>4, TouchType DEF new, SameTree
  <1>2. CASE h.st[o] # "freed"
    <2> DEFINE r == [h.rc EXCEPT ![o] = @ + 1]
               g == [h EXCEPT !.rc = r]
    <2>1. RefInc(h, o) = g
      BY <1>2 DEF RefInc
    <2>2. r \in [Objects -> Int]
      BY DEF Heaps
    <2>3. \A x \in Objects : r[x] - new[x] = h.rc[x] - own[x]
      BY <1>0 DEF Heaps
    <2>4. g \in Heaps /\ SameTree(g, h) /\ g.rc = r
      <3> HIDE DEF r
      <3> QED BY <2>2 DEF Heaps, SameTree
    <2> HIDE DEF g, r, new
    <2>5. \A x \in Alive(h) : g.rc[x] - new[x] = h.rc[x] - own[x]
      BY <2>3, <2>4 DEF Alive
    <2>6. Good(g, new)
      BY <1>0, <2>4, <2>5, SameTreeGood
    <2> QED
      BY <2>1, <2>4, <2>6 DEF new, SameTree
  <1> QED
    BY <1>1, <1>2

\* g is h with c linked below p; the list pointers are left open.
Inserted(g, h, p, c) ==
    /\ g \in Heaps
    /\ g.st = [h.st EXCEPT ![c] = "inserted"]
    /\ g.parent = [h.parent EXCEPT ![c] = p]
    /\ g.child_count = [h.child_count EXCEPT ![p] = @ + 1]
    /\ g.held = h.held
    /\ g.rc = h.rc
    /\ g.leak = h.leak

\* The fields __x_object_insert_into_tree writes.
LEMMA InsertType ==
    ASSUME NEW h \in Heaps, NEW p \in Objects, NEW c \in Objects
    PROVE  Inserted(InsertIntoTree(h, p, c), h, p, c)
  <1> DEFINE h1 == [h EXCEPT !.sibling = [h.sibling EXCEPT ![Last(h.sibling, h.sons[p])] = c]]
             f == GetChild(h1, p, Name[c])
             h2 == [h1 EXCEPT !.next = [h1.next EXCEPT ![Last(h1.next, f)] = c]]
             linked == IF h.sons[p] = NULL
                       THEN [h EXCEPT !.sons = [h.sons EXCEPT ![p] = c]]
                       ELSE h2
             g == [linked EXCEPT
                    !.st = [linked.st EXCEPT ![c] = "inserted"],
                    !.parent = [linked.parent EXCEPT ![c] = p],
                    !.next = [linked.next EXCEPT ![c] = NULL],
                    !.sibling = [linked.sibling EXCEPT ![c] = NULL],
                    !.child_count = [linked.child_count EXCEPT ![p] = @ + 1]]
  <1>1. InsertIntoTree(h, p, c) = g
    BY DEF InsertIntoTree
  <1>2. h1 \in Heaps /\ SameTree(h1, h) /\ h1.rc = h.rc /\ h1.held = h.held
    BY DEF Heaps, Pointers, SameTree
  <1>3. h2 \in Heaps /\ SameTree(h2, h) /\ h2.rc = h.rc /\ h2.held = h.held
    <2> HIDE DEF h1, f
    <2> QED BY <1>2 DEF Heaps, Pointers, SameTree
  <1>4. linked \in Heaps /\ SameTree(linked, h) /\ linked.rc = h.rc /\ linked.held = h.held
    <2> HIDE DEF h2
    <2> QED BY <1>3 DEF Heaps, Pointers, SameTree
  <1>5. /\ g \in Heaps
        /\ g.st = [h.st EXCEPT ![c] = "inserted"]
        /\ g.parent = [h.parent EXCEPT ![c] = p]
        /\ g.child_count = [h.child_count EXCEPT ![p] = @ + 1]
        /\ g.held = h.held
        /\ g.rc = h.rc
        /\ g.leak = h.leak
    <2> DEFINE st == [linked.st EXCEPT ![c] = "inserted"]
               pa == [linked.parent EXCEPT ![c] = p]
               nx == [linked.next EXCEPT ![c] = NULL]
               sb == [linked.sibling EXCEPT ![c] = NULL]
               cc == [linked.child_count EXCEPT ![p] = @ + 1]
    <2>1. g = [linked EXCEPT !.st = st, !.parent = pa, !.next = nx, !.sibling = sb,
                             !.child_count = cc]
      OBVIOUS
    <2> HIDE DEF linked
    <2>2. /\ st \in [Objects -> Status] /\ pa \in [Objects -> Pointers]
          /\ nx \in [Objects -> Pointers] /\ sb \in [Objects -> Pointers]
          /\ cc \in [Objects -> Int]
      BY <1>4 DEF Heaps, Pointers, Status
    <2>3. /\ st = [h.st EXCEPT ![c] = "inserted"]
          /\ pa = [h.parent EXCEPT ![c] = p]
          /\ cc = [h.child_count EXCEPT ![p] = @ + 1]
      BY <1>4 DEF SameTree
    <2>4. /\ g \in Heaps /\ g.st = st /\ g.parent = pa /\ g.child_count = cc
          /\ g.held = linked.held /\ g.rc = linked.rc /\ g.leak = linked.leak
      <3> HIDE DEF g, st, pa, nx, sb, cc
      <3>1. linked \in Heaps
        BY <1>4
      <3> QED
        BY <2>1, <2>2, <3>1 DEF Heaps
    <2> HIDE DEF g, st, pa, nx, sb, cc
    <2> QED
      BY <1>4, <2>3, <2>4 DEF SameTree
  <1>6. Inserted(g, h, p, c)
    <2> HIDE DEF g
    <2> QED BY <1>5 DEF Inserted
  <1> HIDE DEF g
  <1> QED
    BY <1>1, <1>6

\* Linking a node that has no parent creates two claims of the tree that are
\* not yet backed by references.
LEMMA InsertGood ==
    ASSUME NEW h \in Heaps, NEW own, Good(h, own), NEW p \in Alive(h), NEW c \in Alive(h),
           h.parent[c] = NULL, p # c
    PROVE  /\ Good(InsertIntoTree(h, p, c), [own EXCEPT ![p] = @ - 1, ![c] = @ - 1])
           /\ InsertIntoTree(h, p, c).held = h.held
  <1> DEFINE g == InsertIntoTree(h, p, c)
             new == [own EXCEPT ![p] = @ - 1, ![c] = @ - 1]
  <1>0. /\ p \in Objects /\ c \in Objects
        /\ own \in [Objects -> Int] /\ new \in [Objects -> Int]
    BY DEF Alive, Good
  <1>a. Inserted(g, h, p, c)
    BY <1>0, InsertType
  <1> HIDE DEF g
  <1>1. /\ g \in Heaps
        /\ g.st = [h.st EXCEPT ![c] = "inserted"]
        /\ g.parent = [h.parent EXCEPT ![c] = p]
        /\ g.child_count = [h.child_count EXCEPT ![p] = @ + 1]
        /\ g.held = h.held
        /\ g.rc = h.rc
        /\ g.leak = h.leak
    BY <1>a DEF Inserted
  <1>2. Alive(g) = Alive(h) /\ Alive(h) \subseteq Objects
    BY <1>0, <1>1 DEF Alive, Heaps
  <1>3. /\ \A q \in Objects \ {p} : Children(g, q) = Children(h, q)
        /\ Children(g, p) = Children(h, p) \cup {c}
        /\ c \notin Children(h, p)
    <2>1. \A x \in Objects : g.parent[x] = IF x = c THEN p ELSE h.parent[x]
      BY <1>0, <1>1 DEF Heaps
    <2>2. c \in Alive(g) /\ p # NULL
      BY <1>0, <1>2, ObjectsAssumption
    <2>3. c \notin Children(h, p)
      BY <2>2 DEF Children
    <2>4. \A q \in Objects \ {p} : Children(g, q) = Children(h, q)
      <3> SUFFICES ASSUME NEW q \in Objects \ {p} PROVE Children(g, q) = Children(h, q)
        OBVIOUS
      <3>1. \A x \in Alive(h) : g.parent[x] = q <=> h.parent[x] = q
        BY <1>2, <2>1, ObjectsAssumption
      <3> QED
        BY <1>2, <3>1 DEF Children
    <2>5. Children(g, p) = Children(h, p) \cup {c}
      <3>1. \A x \in Alive(h) : g.parent[x] = p <=> (h.parent[x] = p \/ x = c)
        BY <1>2, <2>1
      <3> QED
        BY <1>2, <3>1 DEF Children
    <2> QED
      BY <2>3, <2>4, <2>5
  <1>4. Cardinality(Children(g, p)) = Cardinality(Children(h, p)) + 1
    BY <1>3, ChildrenFinite, FS_AddElement
  <1>5. /\ \A q \in Objects \ {c} : Linked(g, q) = Linked(h, q)
        /\ Linked(h, c) = 0 /\ Linked(g, c) = 1
    BY <1>0, <1>1, ObjectsAssumption DEF Linked, Heaps
  <1>6. Counted(g)
    <2> SUFFICES ASSUME NEW q \in Alive(g)
                 PROVE  g.child_count[q] = Cardinality(Children(g, q))
      BY DEF Counted
    <2>1. q \in Objects /\ h.child_count[q] = Cardinality(Children(h, q))
      BY <1>2 DEF Good, Counted
    <2>2. g.child_count[q] = IF q = p THEN h.child_count[q] + 1 ELSE h.child_count[q]
      BY <1>1, <2>1 DEF Heaps
    <2> QED
      BY <1>3, <1>4, <2>1, <2>2
  <1>7. BalancedAs(g, new)
    <2> SUFFICES ASSUME NEW q \in Alive(g)
                 PROVE  g.rc[q] = new[q] + Linked(g, q)
                                    + Cardinality(Children(g, q)) + g.leak[q]
      BY DEF BalancedAs
    <2> DEFINE n == Cardinality(Children(h, q))
               m == Cardinality(Children(g, q))
    <2>1. q \in Objects /\ h.rc[q] = own[q] + Linked(h, q) + n + h.leak[q]
      BY <1>2 DEF Good, BalancedAs
    <2>2. /\ g.rc[q] = h.rc[q] /\ g.leak[q] = h.leak[q]
          /\ h.rc[q] \in Int /\ own[q] \in Int /\ h.leak[q] \in Int /\ n \in Int
      BY <1>0, <1>1, <2>1, ChildrenFinite DEF Heaps
    <2>3. new[q] = own[q] - (IF q = p THEN 1 ELSE 0) - (IF q = c THEN 1 ELSE 0)
      BY <1>0, <2>1
    <2>4. m = n + (IF q = p THEN 1 ELSE 0)
      <3>1. CASE q = p
        BY <3>1, <1>4
      <3>2. CASE q # p
        BY <3>2, <1>3, <2>1, <2>2
      <3> QED BY <3>1, <3>2
    <2>5. /\ Linked(g, q) = Linked(h, q) + (IF q = c THEN 1 ELSE 0)
          /\ Linked(h, q) \in Int
      BY <1>5, <2>1 DEF Linked
    <2> HIDE DEF n, m, new
    <2>6. g.rc[q] = new[q] + Linked(g, q) + m + g.leak[q]
      BY <2>1, <2>2, <2>3, <2>4, <2>5
    <2> QED
      BY <2>6 DEF m
  <1>8. Placed(g)
    <2>1. h.st[p] # "unused" /\ h.st[c] # "unused"
      BY DEF Alive
    <2> QED
      BY <1>0, <1>1, <2>1, ObjectsAssumption DEF Good, Placed, Heaps, Alive, Pointers
  <1> QED
    BY <1>0, <1>1, <1>6, <1>7, <1>8 DEF Good, g

-----------------------------------------------------------------------------
(* Unlinking a node. *)

\* Clearing the parent pointer of a child takes that child from its parent and
\* leaves all other nodes their children.
LEMMA UnlinkChildren ==
    ASSUME NEW g \in Heaps, NEW h \in Heaps, NEW p \in Objects, NEW c \in Alive(h),
           h.parent[c] = p,
           g.parent = [h.parent EXCEPT ![c] = NULL],
           Alive(g) \cup {c} = Alive(h) \cup {c}
    PROVE  \A q \in Objects : Cardinality(Children(g, q)) =
               Cardinality(Children(h, q)) - (IF q = p THEN 1 ELSE 0)
  <1>1. c \in Objects /\ Alive(g) \subseteq Objects /\ Alive(h) \subseteq Objects
    BY DEF Alive
  <1>2. \A x \in Objects : g.parent[x] = IF x = c THEN NULL ELSE h.parent[x]
    BY <1>1 DEF Heaps
  <1> TAKE q \in Objects
  <1>3. q # NULL
    BY ObjectsAssumption
  <1>4. Children(g, q) = Children(h, q) \ {c}
    <2>1. \A x \in Objects \ {c} : x \in Alive(g) <=> x \in Alive(h)
      BY <1>1
    <2>2. \A x \in Objects : x \in Children(g, q) <=> (x \in Children(h, q) /\ x # c)
      BY <1>1, <1>2, <1>3, <2>1 DEF Children
    <2>3. Children(g, q) \subseteq Objects /\ Children(h, q) \subseteq Objects
      BY <1>1 DEF Children
    <2> QED
      BY <2>2, <2>3
  <1>5. c \in Children(h, q) <=> q = p
    BY DEF Children
  <1>6. CASE q = p
    <2>1. Cardinality(Children(h, q) \ {c}) = Cardinality(Children(h, q)) - 1
      BY <1>5, <1>6, ChildrenFinite, FS_RemoveElement
    <2> QED
      BY <1>4, <1>6, <2>1
  <1>7. CASE q # p
    <2>1. Children(g, q) = Children(h, q)
      BY <1>4, <1>5, <1>7
    <2> QED
      BY <1>7, <2>1, ChildrenFinite
  <1> QED
    BY <1>6, <1>7

\* g is h with c unlinked from p; the list pointers are left open.
Removed(g, h, p, c) ==
    /\ g \in Heaps
    /\ g.st = h.st
    /\ g.parent = [h.parent EXCEPT ![c] = NULL]
    /\ g.child_count = [h.child_count EXCEPT ![p] = IF @ <= 0 THEN @ ELSE @ - 1]
    /\ g.held = h.held
    /\ g.rc = h.rc
    /\ g.leak = h.leak

\* Bypass yields a pointer for every node, whichever list it works on.
LEMMA BypassType ==
    ASSUME NEW f \in [Objects -> Pointers], NEW a, NEW c \in Objects
    PROVE  Bypass(f, a, c) \in [Objects -> Pointers]
  BY DEF Bypass, Pointers

\* The fields __x_object_remove_from_treenode writes.
LEMMA RemoveType ==
    ASSUME NEW h \in Heaps, NEW p \in Objects, NEW c \in Objects
    PROVE  Removed(RemoveFromTreenode(h, p, c), h, p, c)
  <1> DEFINE listed == h.sons[p] # NULL
             pa == [h.parent EXCEPT ![c] = NULL]
             nx == IF listed THEN Bypass(h.next, GetChild(h, p, Name[c]), c) ELSE h.next
             sb == IF listed THEN Bypass(h.sibling, h.sons[p], c) ELSE h.sibling
             cc == [h.child_count EXCEPT ![p] = IF @ <= 0 THEN @ ELSE @ - 1]
             g == RemoveFromTreenode(h, p, c)
  <1>1. g = [h EXCEPT !.parent = pa, !.next = nx, !.sibling = sb,
                      !.child_count = cc]
    BY DEF RemoveFromTreenode
  <1>2. /\ pa \in [Objects -> Pointers]
        /\ cc \in [Objects -> Int]
    BY DEF Heaps, Pointers
  <1>3. h.next \in [Objects -> Pointers] /\ h.sibling \in [Objects -> Pointers]
    BY DEF Heaps
  <1>4. nx \in [Objects -> Pointers] /\ sb \in [Objects -> Pointers]
    BY <1>3, BypassType
  <1>5. /\ g \in Heaps /\ g.st = h.st /\ g.parent = pa /\ g.child_count = cc
        /\ g.held = h.held /\ g.rc = h.rc /\ g.leak = h.leak
    <2> HIDE DEF g, pa, nx, sb, cc
    <2> QED BY <1>1, <1>2, <1>4 DEF Heaps
  <1> HIDE DEF g
  <1>6. Removed(g, h, p, c)
    BY <1>5 DEF Removed
  <1> QED
    BY <1>6 DEF g

\* Unlinking a child leaves two references that are no longer the tree's.
LEMMA RemoveGood ==
    ASSUME NEW h \in Heaps, NEW own, Good(h, own), NEW p \in Alive(h), NEW c \in Alive(h),
           h.parent[c] = p
    PROVE  /\ Good(RemoveFromTreenode(h, p, c), [own EXCEPT ![p] = @ + 1, ![c] = @ + 1])
           /\ RemoveFromTreenode(h, p, c).held = h.held
  <1> DEFINE g == RemoveFromTreenode(h, p, c)
             new == [own EXCEPT ![p] = @ + 1, ![c] = @ + 1]
  <1>0. /\ p \in Objects /\ c \in Objects /\ p # NULL /\ p # c
        /\ own \in [Objects -> Int] /\ new \in [Objects -> Int]
    BY ObjectsAssumption DEF Alive, Good, Placed
  <1>a. Removed(g, h, p, c)
    BY <1>0, RemoveType
  <1> HIDE DEF g
  <1>1. /\ g \in Heaps
        /\ g.st = h.st
        /\ g.parent = [h.parent EXCEPT ![c] = NULL]
        /\ g.child_count = [h.child_count EXCEPT ![p] = IF @ <= 0 THEN @ ELSE @ - 1]
        /\ g.held = h.held
        /\ g.rc = h.rc
        /\ g.leak = h.leak
    BY <1>a DEF Removed
  <1>2. Alive(g) = Alive(h) /\ Alive(h) \subseteq Objects
    BY <1>1 DEF Alive
  <1>3. \A q \in Objects : Cardinality(Children(g, q)) =
            Cardinality(Children(h, q)) - (IF q = p THEN 1 ELSE 0)
    BY <1>0, <1>1, <1>2, UnlinkChildren
  <1>4. /\ \A q \in Objects \ {c} : Linked(g, q) = Linked(h, q)
        /\ Linked(h, c) = 1 /\ Linked(g, c) = 0
    BY <1>0, <1>1 DEF Linked, Heaps
  <1>5. Counted(g)
    <2> SUFFICES ASSUME NEW q \in Alive(g)
                 PROVE  g.child_count[q] = Cardinality(Children(g, q))
      BY DEF Counted
    <2>1. q \in Objects /\ h.child_count[q] = Cardinality(Children(h, q))
      BY <1>2 DEF Good, Counted
    <2>2. CASE q # p
      <3>1. g.child_count[q] = h.child_count[q]
        BY <1>1, <2>1, <2>2 DEF Heaps
      <3> QED
        BY <1>3, <2>1, <2>2, <3>1, ChildrenFinite
    <2>3. CASE q = p
      <3>1. Cardinality(Children(g, p)) = Cardinality(Children(h, p)) - 1
        BY <1>0, <1>3
      <3>2. Cardinality(Children(g, p)) \in Nat /\ Cardinality(Children(h, p)) \in Nat
        BY ChildrenFinite
      <3>3. h.child_count[p] > 0
        BY <2>1, <2>3, <3>1, <3>2
      <3>4. g.child_count[p] = h.child_count[p] - 1
        BY <1>0, <1>1, <2>1, <2>3, <3>2, <3>3 DEF Heaps
      <3> QED
        BY <2>1, <2>3, <3>1, <3>4
    <2> QED
      BY <2>2, <2>3
  <1>6. BalancedAs(g, new)
    <2> SUFFICES ASSUME NEW q \in Alive(g)
                 PROVE  g.rc[q] = new[q] + Linked(g, q)
                                    + Cardinality(Children(g, q)) + g.leak[q]
      BY DEF BalancedAs
    <2> DEFINE n == Cardinality(Children(h, q))
               m == Cardinality(Children(g, q))
    <2>1. q \in Objects /\ h.rc[q] = own[q] + Linked(h, q) + n + h.leak[q]
      BY <1>2 DEF Good, BalancedAs
    <2>2. /\ g.rc[q] = h.rc[q] /\ g.leak[q] = h.leak[q]
          /\ h.rc[q] \in Int /\ own[q] \in Int /\ h.leak[q] \in Int /\ n \in Int
      BY <1>0, <1>1, <2>1, ChildrenFinite DEF Heaps
    <2>3. new[q] = own[q] + (IF q = p THEN 1 ELSE 0) + (IF q = c THEN 1 ELSE 0)
      BY <1>0, <2>1
    <2>4. m = n - (IF q = p THEN 1 ELSE 0)
      BY <1>3, <2>1
    <2>5. /\ Linked(g, q) = Linked(h, q) - (IF q = c THEN 1 ELSE 0)
          /\ Linked(h, q) \in Int
      BY <1>4, <2>1 DEF Linked
    <2> HIDE DEF n, m, new
    <2>6. g.rc[q] = new[q] + Linked(g, q) + m + g.leak[q]
      BY <2>1, <2>2, <2>3, <2>4, <2>5
    <2> QED
      BY <2>6 DEF m
  <1>7. Placed(g)
    <2>1. \A x \in Objects : g.parent[x] = IF x = c THEN NULL ELSE h.parent[x]
      BY <1>0, <1>1 DEF Heaps
    <2>2. \A x \in Objects : h.st[x] = "unused" => g.child_count[x] = h.child_count[x]
      BY <1>0, <1>1 DEF Heaps, Alive
    <2> QED
      BY <1>1, <2>1, <2>2 DEF Good, Placed
  <1> QED
    BY <1>0, <1>1, <1>5, <1>6, <1>7 DEF Good, g

-----------------------------------------------------------------------------
(* Destroying a node, and giving a reference back. *)

\* The fields x_object_destroy_no_cb writes when the node is still linked.
UnlinkedDying(g, h, o) ==
    /\ g \in Heaps
    /\ g.st = h.st
    /\ g.parent = [h.parent EXCEPT ![o] = NULL]
    /\ g.child_count = [h.child_count EXCEPT ![h.parent[o]] = @ - 1]
    /\ g.leak = [h.leak EXCEPT ![h.parent[o]] = @ + 1]
    /\ g.held = h.held
    /\ g.rc = h.rc

\* These are the fields UnlinkDying writes.
LEMMA UnlinkDyingType ==
    ASSUME NEW h \in Heaps, NEW o \in Objects, h.parent[o] # NULL
    PROVE  UnlinkedDying(UnlinkDying(h, o), h, o)
  <1> DEFINE p == h.parent[o]
             sib == Bypass(h.sibling, h.sons[p], o)
             sons == [h.sons EXCEPT ![p] = IF @ = o THEN h.sibling[o] ELSE @]
             h1 == [h EXCEPT !.sibling = sib, !.sons = sons]
             first == GetChild(h1, p, Name[o])
             h2 == Touch(h1, {p} \cup Until(h.sibling, h.sons[p], o)
                                 \cup Until(h1.sibling, h1.sons[p], first)
                                 \cup Until(h.next, first, o))
             nx == Bypass(h.next, first, o)
             pa == [h.parent EXCEPT ![o] = NULL]
             cc == [h.child_count EXCEPT ![p] = @ - 1]
             lk == [h.leak EXCEPT ![p] = @ + 1]
             g == [h2 EXCEPT !.next = nx, !.parent = pa, !.child_count = cc, !.leak = lk]
  <1>1. UnlinkDying(h, o) = g
    BY DEF UnlinkDying
  <1>2. p \in Objects
    BY DEF Heaps, Pointers
  <1>3. /\ h.sibling \in [Objects -> Pointers] /\ h.next \in [Objects -> Pointers]
        /\ h.sons \in [Objects -> Pointers] /\ h.sibling[o] \in Pointers
    BY DEF Heaps
  <1>4. sib \in [Objects -> Pointers] /\ nx \in [Objects -> Pointers]
    BY <1>3, BypassType
  <1>5. sons \in [Objects -> Pointers]
    BY <1>2, <1>3
  <1>6. /\ pa \in [Objects -> Pointers] /\ cc \in [Objects -> Int]
        /\ lk \in [Objects -> Nat]
    BY <1>2 DEF Heaps, Pointers
  <1>7. h1 \in Heaps /\ SameTree(h1, h) /\ h1.rc = h.rc /\ h1.held = h.held
    <2> HIDE DEF sib, sons
    <2> QED BY <1>4, <1>5 DEF Heaps, SameTree
  <1>8. h2 \in Heaps /\ SameTree(h2, h1) /\ h2.rc = h1.rc /\ h2.held = h1.held
    <2> HIDE DEF h1
    <2> QED BY <1>7, TouchType DEF SameTree
  <1>9. /\ g \in Heaps /\ g.st = h2.st /\ g.parent = pa /\ g.child_count = cc
        /\ g.leak = lk /\ g.held = h2.held /\ g.rc = h2.rc
    <2> HIDE DEF h2, nx, pa, cc, lk
    <2> QED BY <1>4, <1>6, <1>8 DEF Heaps
  <1>10. h2.st = h.st /\ h2.held = h.held /\ h2.rc = h.rc
    <2> HIDE DEF h1, h2
    <2> QED BY <1>7, <1>8 DEF SameTree
  <1>11. UnlinkedDying(g, h, o)
    <2> HIDE DEF g, h2
    <2> QED BY <1>9, <1>10 DEF UnlinkedDying
  <1> HIDE DEF g
  <1> QED
    BY <1>1, <1>11

\* A destroyed node leaves the balance; if it was linked, its parent keeps a
\* reference that nobody owns any more.
LEMMA DestroyGood ==
    ASSUME NEW h \in Heaps, NEW o \in Objects, NEW own, Good(h, own)
    PROVE  Good(Destroy(h, o), own) /\ Destroy(h, o).held = h.held
  <1> DEFINE h1 == IF h.parent[o] = NULL THEN h ELSE UnlinkDying(h, o)
             ss == [h1.st EXCEPT ![o] = "freed"]
             g == [h1 EXCEPT !.st = ss]
             p == h.parent[o]
             d(q) == IF p # NULL /\ q = p THEN 1 ELSE 0
  <1>0. p \in Pointers /\ (p # NULL => o \in Alive(h)) /\ own \in [Objects -> Int]
    BY DEF Alive, Heaps, Good, Placed
  <1>1. Destroy(h, o) = g
    BY DEF Destroy
  <1>2. /\ h1 \in Heaps /\ h1.st = h.st /\ h1.held = h.held /\ h1.rc = h.rc
        /\ \A x \in Objects : h1.parent[x] = IF x = o THEN NULL ELSE h.parent[x]
        /\ \A x \in Objects : h1.child_count[x] = h.child_count[x] - d(x)
        /\ \A x \in Objects : h1.leak[x] = h.leak[x] + d(x)
        /\ p # NULL => h1.parent = [h.parent EXCEPT ![o] = NULL]
    <2>1. CASE p = NULL
      BY <1>0, <2>1 DEF Heaps
    <2>2. CASE p # NULL
      <3>1. UnlinkedDying(UnlinkDying(h, o), h, o)
        BY <1>0, <2>2, UnlinkDyingType
      <3>2. h1 = UnlinkDying(h, o)
        BY <2>2
      <3>3. UnlinkedDying(h1, h, o)
        BY <3>1, <3>2
      <3>4. p \in Objects
        BY <1>0, <2>2 DEF Pointers
      <3> HIDE DEF h1
      <3> QED
        BY <1>0, <2>2, <3>3, <3>4 DEF UnlinkedDying, Heaps
    <2> QED
      BY <2>1, <2>2
  <1>3. ss \in [Objects -> Status]
    BY <1>2 DEF Heaps, Status
  <1>4. /\ g \in Heaps /\ g.st = ss /\ g.held = h1.held /\ g.rc = h1.rc
        /\ g.parent = h1.parent /\ g.child_count = h1.child_count /\ g.leak = h1.leak
    <2> HIDE DEF h1, ss
    <2> QED BY <1>2, <1>3 DEF Heaps
  <1>5. \A x \in Objects : g.st[x] = IF x = o THEN "freed" ELSE h.st[x]
    <2> HIDE DEF h1, g
    <2> QED BY <1>0, <1>2, <1>3, <1>4 DEF Heaps
  <1> HIDE DEF h1, g
  <1>6. Alive(g) = Alive(h) \ {o} /\ Alive(h) \subseteq Objects
    BY <1>5 DEF Alive
  <1>7. \A q \in Objects : Cardinality(Children(g, q)) = Cardinality(Children(h, q)) - d(q)
    <2>1. CASE p # NULL
      <3>1. p \in Objects
        BY <1>0, <2>1 DEF Pointers
      <3>2. g.parent = [h.parent EXCEPT ![o] = NULL]
        BY <1>2, <1>4, <2>1
      <3>3. Alive(g) \cup {o} = Alive(h) \cup {o}
        BY <1>6
      <3>4. \A q \in Objects : Cardinality(Children(g, q)) =
                Cardinality(Children(h, q)) - (IF q = p THEN 1 ELSE 0)
        BY <1>0, <1>4, <2>1, <3>1, <3>2, <3>3, UnlinkChildren
      <3> QED
        BY <2>1, <3>4
    <2>2. CASE p = NULL
      <3> SUFFICES ASSUME NEW q \in Objects
                   PROVE  Cardinality(Children(g, q)) = Cardinality(Children(h, q)) - d(q)
        OBVIOUS
      <3>1. q # NULL
        BY ObjectsAssumption
      <3>2. \A x \in Objects : g.parent[x] = h.parent[x]
        BY <1>2, <1>4, <2>2
      <3>3. Children(g, q) = Children(h, q)
        BY <1>6, <2>2, <3>1, <3>2 DEF Children
      <3> QED
        BY <2>2, <3>3, ChildrenFinite
    <2> QED
      BY <2>1, <2>2
  <1>8. Counted(g)
    <2> SUFFICES ASSUME NEW q \in Alive(g)
                 PROVE  g.child_count[q] = Cardinality(Children(g, q))
      BY DEF Counted
    <2>1. q \in Objects /\ h.child_count[q] = Cardinality(Children(h, q))
      BY <1>6 DEF Good, Counted
    <2> QED
      BY <1>2, <1>4, <1>7, <2>1
  <1>9. BalancedAs(g, own)
    <2> SUFFICES ASSUME NEW q \in Alive(g)
                 PROVE  g.rc[q] = own[q] + Linked(g, q)
                                    + Cardinality(Children(g, q)) + g.leak[q]
      BY DEF BalancedAs
    <2> DEFINE n == Cardinality(Children(h, q))
               m == Cardinality(Children(g, q))
    <2>1. /\ q \in Objects /\ q # o
          /\ h.rc[q] = own[q] + Linked(h, q) + n + h.leak[q]
      BY <1>6 DEF Good, BalancedAs
    <2>2. /\ g.rc[q] = h.rc[q]
          /\ g.leak[q] = h.leak[q] + d(q)
          /\ Linked(g, q) = Linked(h, q)
      BY <1>2, <1>4, <2>1 DEF Linked
    <2>3. /\ h.rc[q] \in Int /\ own[q] \in Int /\ h.leak[q] \in Int
          /\ n \in Int /\ Linked(h, q) \in Int /\ d(q) \in Int
      BY <1>0, <2>1, ChildrenFinite DEF Heaps, Linked
    <2>4. m = n - d(q)
      BY <1>7, <2>1
    <2> HIDE DEF n, m, d
    <2>5. g.rc[q] = own[q] + Linked(g, q) + m + g.leak[q]
      BY <2>1, <2>2, <2>3, <2>4
    <2> QED
      BY <2>5 DEF m
  <1>10. Placed(g)
    <2>1. p # NULL => h.st[p] # "unused"
      BY <1>0 DEF Good, Placed
    <2>2. \A x \in Objects : h.st[x] = "unused" => d(x) = 0
      BY <2>1
    <2>3. \A x \in Objects : g.parent[x] # NULL => g.parent[x] = h.parent[x] /\ x # o
                                                 /\ g.parent[x] \in Objects
      BY <1>2, <1>4 DEF Heaps, Pointers
    <2> HIDE DEF d
    <2>4. \A x \in Objects : g.st[x] = "unused" =>
             h.st[x] = "unused" /\ g.leak[x] = h.leak[x] + d(x)
                /\ g.child_count[x] = h.child_count[x] - d(x)
      BY <1>2, <1>4, <1>5
    <2> QED
      BY <1>5, <2>2, <2>3, <2>4 DEF Good, Placed
  <1> QED
    BY <1>0, <1>1, <1>2, <1>4, <1>8, <1>9, <1>10 DEF Good

\* x_object_ref_put takes one reference from the account, whether or not it
\* destroys the node.
LEMMA RefDecGood ==
    ASSUME NEW h \in Heaps, NEW o \in Objects, NEW own, Good(h, own)
    PROVE  /\ Good(RefDec(h, o), [own EXCEPT ![o] = @ - 1])
           /\ RefDec(h, o).held = h.held
  <1> DEFINE new == [own EXCEPT ![o] = @ - 1]
  <1>0. own \in [Objects -> Int] /\ new \in [Objects -> Int]
    BY DEF Good
  <1>1. CASE h.st[o] = "freed"
    <2>1. RefDec(h, o) = Touch(h, {o})
      BY <1>1 DEF RefDec
    <2>2. \A x \in Alive(h) : new[x] = own[x]
      BY <1>0, <1>1 DEF Alive
    <2>3. \A x \in Alive(h) : Touch(h, {o}).rc[x] - new[x] = h.rc[x] - own[x]
      BY <2>2, TouchType
    <2> HIDE DEF new
    <2>4. Good(RefDec(h, o), new)
      BY <1>0, <2>1, <2>3, TouchType, SameTreeGood
    <2> QED
      BY <2>1, <2>4, TouchType DEF new, SameTree
  <1>2. CASE h.st[o] # "freed"
    <2> DEFINE r == [h.rc EXCEPT ![o] = @ - 1]
               g == [h EXCEPT !.rc = r]
    <2>1. RefDec(h, o) = IF g.rc[o] <= 0 THEN Destroy(g, o) ELSE g
      BY <1>2 DEF RefDec
    <2>2. r \in [Objects -> Int]
      BY DEF Heaps
    <2>3. \A x \in Objects : r[x] - new[x] = h.rc[x] - own[x]
      BY <1>0 DEF Heaps
    <2>4. g \in Heaps /\ SameTree(g, h) /\ g.rc = r
      <3> HIDE DEF r
      <3> QED BY <2>2 DEF Heaps, SameTree
    <2> HIDE DEF g, r, new
    <2>5. \A x \in Alive(h) : g.rc[x] - new[x] = h.rc[x] - own[x]
      BY <2>3, <2>4 DEF Alive
    <2>6. Good(g, new) /\ g.held = h.held
      BY <1>0, <2>4, <2>5, SameTreeGood DEF SameTree
    <2>7. Good(Destroy(g, o), new) /\ Destroy(g, o).held = g.held
      BY <2>4, <2>6, DestroyGood
    <2> QED
      BY <2>1, <2>6, <2>7 DEF new
  <1> QED
    BY <1>1, <1>2

-----------------------------------------------------------------------------
(* The operations program code calls. *)

\* Between operations the account is what program code owns.
Settled(h) == Good(h, h.held)

\* Bookkeeping moves nothing but the account.
LEMMA HoldGood ==
    ASSUME NEW h \in Heaps, NEW o \in Objects, NEW k \in Int, Settled(h), h.st[o] # "freed"
    PROVE  /\ Hold(h, o, k) \in Heaps
           /\ Good(Hold(h, o, k), h.held)
           /\ Hold(h, o, k).held = [h.held EXCEPT ![o] = @ + k]
  <1> DEFINE t == [h.held EXCEPT ![o] = @ + k]
             g == [h EXCEPT !.held = t]
  <1>1. Hold(h, o, k) = g
    BY DEF Hold
  <1>2. t \in [Objects -> Int]
    BY DEF Heaps
  <1>3. /\ g \in Heaps /\ g.held = t /\ g.rc = h.rc /\ g.st = h.st /\ g.parent = h.parent
        /\ g.child_count = h.child_count /\ g.leak = h.leak
    <2> HIDE DEF t
    <2> QED BY <1>2 DEF Heaps
  <1> HIDE DEF g
  <1>4. Alive(g) = Alive(h)
    BY <1>3 DEF Alive
  <1>5. \A q \in Objects : Children(g, q) = Children(h, q) /\ Linked(g, q) = Linked(h, q)
    BY <1>3, <1>4 DEF Children, Linked
  <1>6. Alive(h) \subseteq Objects
    BY DEF Alive
  <1>7. BalancedAs(g, h.held)
    BY <1>3, <1>4, <1>5, <1>6 DEF Settled, Good, BalancedAs
  <1>8. Counted(g) /\ Placed(g)
    BY <1>3, <1>4, <1>5, <1>6 DEF Settled, Good, Counted, Placed
  <1> QED
    BY <1>1, <1>3, <1>7, <1>8 DEF Settled, Good

\* A reference taken by program code.
LEMMA GetGood ==
    ASSUME NEW h \in Heaps, NEW o \in Objects, Settled(h), h.st[o] # "freed"
    PROVE  Settled(RefInc(Hold(h, o, 1), o))
  <1> DEFINE k == Hold(h, o, 1)
  <1>1. k \in Heaps /\ Good(k, h.held) /\ k.held = [h.held EXCEPT ![o] = @ + 1]
    BY HoldGood
  <1> HIDE DEF k
  <1>2. /\ Good(RefInc(k, o), [h.held EXCEPT ![o] = @ + 1])
        /\ RefInc(k, o).held = k.held
    BY <1>1, RefIncGood
  <1> QED
    BY <1>1, <1>2 DEF k, Settled

\* A reference given back by program code.
LEMMA PutGood ==
    ASSUME NEW h \in Heaps, NEW o \in Objects, Settled(h)
    PROVE  Settled(PutH(h, o))
  <1>1. CASE h.st[o] = "freed"
    <2>1. PutH(h, o) = Touch(h, {o})
      BY <1>1 DEF PutH, Hold, RefDec
    <2>2. Good(Touch(h, {o}), h.held) /\ Touch(h, {o}).held = h.held
      BY TouchGood, TouchType DEF Settled, SameTree
    <2> QED
      BY <2>1, <2>2 DEF Settled
  <1>2. CASE h.st[o] # "freed"
    <2> DEFINE k == Hold(h, o, -1)
    <2>1. k \in Heaps /\ Good(k, h.held) /\ k.held = [h.held EXCEPT ![o] = @ + (-1)]
      BY <1>2, HoldGood
    <2>2. [h.held EXCEPT ![o] = @ + (-1)] = [h.held EXCEPT ![o] = @ - 1]
      BY DEF Heaps
    <2> HIDE DEF k
    <2>3. /\ Good(RefDec(k, o), [h.held EXCEPT ![o] = @ - 1])
          /\ RefDec(k, o).held = k.held
      BY <2>1, RefDecGood
    <2> QED
      BY <2>1, <2>2, <2>3 DEF k, PutH, Settled
  <1> QED
    BY <1>1, <1>2

\* x_object_remove_from_parent, of a linked node or not.
LEMMA RemoveHGood ==
    ASSUME NEW h \in Heaps, NEW o \in Objects, Settled(h)
    PROVE  Settled(RemoveH(h, o))
  <1> DEFINE p == h.parent[o]
  <1>0. p \in Pointers /\ h.held \in [Objects -> Int]
    BY DEF Heaps
  <1>1. CASE p = NULL
    BY <1>1, PutGood DEF RemoveH
  <1>2. CASE p # NULL /\ h.st[p] = "freed"
    <2>1. RemoveH(h, o) = Touch(h, {p})
      BY <1>2 DEF RemoveH
    <2>2. Good(Touch(h, {p}), h.held) /\ Touch(h, {p}).held = h.held
      BY TouchGood, TouchType DEF Settled, SameTree
    <2> QED
      BY <2>1, <2>2 DEF Settled
  <1>3. CASE p # NULL /\ h.st[p] # "freed"
    <2> DEFINE walked == Until(h.sibling, h.sons[p], o)
                         \cup Until(h.next, GetChild(h, p, Name[o]), o)
               k == Touch(h, walked)
               m == RemoveFromTreenode(k, p, o)
               n == RefDec(m, o)
               e1 == [h.held EXCEPT ![p] = @ + 1, ![o] = @ + 1]
               e2 == [e1 EXCEPT ![o] = @ - 1]
               e3 == [e2 EXCEPT ![p] = @ - 1]
    <2>1. RemoveH(h, o) = RefDec(n, p)
      BY <1>3 DEF RemoveH
    <2>2. k \in Heaps /\ SameTree(k, h)
      BY TouchType
    <2>3. Good(k, h.held)
      BY TouchGood DEF Settled
    <2> HIDE DEF k
    <2>4. p \in Objects /\ k.parent[o] = p /\ p \in Alive(k) /\ o \in Alive(k) /\ p # o
      BY <1>0, <1>3, <2>2 DEF Settled, Good, Placed, SameTree, Alive, Pointers, Heaps, Status
    <2>5. Good(m, e1) /\ m.held = k.held
      BY <2>2, <2>3, <2>4, RemoveGood
    <2>6. m \in Heaps
      BY <2>5 DEF Good
    <2> HIDE DEF m
    <2>7. e3 = h.held
      BY <1>0, <2>4
    <2> HIDE DEF e1
    <2>8. Good(n, e2) /\ n.held = m.held
      BY <2>5, <2>6, RefDecGood
    <2>9. n \in Heaps
      BY <2>8 DEF Good
    <2> HIDE DEF n, e2
    <2>10. Good(RefDec(n, p), e3) /\ RefDec(n, p).held = n.held
      BY <2>4, <2>8, <2>9, RefDecGood
    <2>11. RefDec(n, p).held = h.held
      BY <2>2, <2>5, <2>8, <2>10 DEF SameTree
    <2> HIDE DEF e3
    <2> QED
      BY <2>1, <2>7, <2>10, <2>11 DEF Settled
  <1> QED
    BY <1>1, <1>2, <1>3

\* x_object_append_child_no_cb.
LEMMA AppendHGood ==
    ASSUME NEW h \in Heaps, NEW p \in Alive(h), NEW c \in Alive(h), Settled(h),
           h.parent[c] = NULL, p # c
    PROVE  Settled(AppendH(h, p, c))
  <1> DEFINE k == Touch(h, OnList(h, p) \cup SameNamed(h, p, Name[c]))
             m == InsertIntoTree(k, p, c)
             n == RefInc(m, p)
             e1 == [h.held EXCEPT ![p] = @ - 1, ![c] = @ - 1]
             e2 == [e1 EXCEPT ![p] = @ + 1]
             e3 == [e2 EXCEPT ![c] = @ + 1]
  <1>0. /\ AppendH(h, p, c) = RefInc(n, c) /\ p \in Objects /\ c \in Objects
        /\ h.held \in [Objects -> Int]
    BY DEF AppendH, Alive, Heaps
  <1>1. k \in Heaps /\ SameTree(k, h)
    BY TouchType
  <1>2. Good(k, h.held)
    BY TouchGood DEF Settled
  <1> HIDE DEF k
  <1>3. p \in Alive(k) /\ c \in Alive(k) /\ k.parent[c] = NULL
    BY <1>1 DEF SameTree, Alive
  <1>4. Good(m, e1) /\ m.held = k.held
    BY <1>1, <1>2, <1>3, InsertGood
  <1>5. m \in Heaps
    BY <1>4 DEF Good
  <1>6. e3 = h.held
    BY <1>0
  <1> HIDE DEF m, e1
  <1>7. Good(n, e2) /\ n.held = m.held
    BY <1>0, <1>4, <1>5, RefIncGood
  <1>8. n \in Heaps
    BY <1>7 DEF Good
  <1> HIDE DEF n, e2
  <1>9. Good(RefInc(n, c), e3) /\ RefInc(n, c).held = n.held
    BY <1>0, <1>7, <1>8, RefIncGood
  <1>10. RefInc(n, c).held = h.held
    BY <1>1, <1>4, <1>7, <1>9 DEF SameTree
  <1> HIDE DEF e3
  <1> QED
    BY <1>0, <1>6, <1>9, <1>10 DEF Settled

-----------------------------------------------------------------------------
(* The specification. *)

\* The inductive invariant of AnySpec.
IInv == Settled(heap) /\ stack \in Seq(Frames) /\ Walking(stack)

\* At start no object is allocated.
LEMMA InitIInv == Init => IInv
  <1> SUFFICES ASSUME Init PROVE IInv
    OBVIOUS
  <1>1. heap \in Heaps
    BY DEF Init, Heaps, Status, Pointers
  <1>2. Alive(heap) = {}
    BY DEF Init, Alive
  <1>3. BalancedAs(heap, heap.held) /\ Counted(heap)
    BY <1>2 DEF BalancedAs, Counted
  <1>4. Placed(heap)
    BY DEF Init, Placed
  <1>5. stack \in Seq(Frames) /\ Walking(stack)
    BY DEF Init, Walking
  <1> QED
    BY <1>1, <1>3, <1>4, <1>5 DEF IInv, Settled, Good, Heaps

\* Allocating an object.
LEMMA NewGood ==
    ASSUME IInv, NEW o \in Objects, New(o)
    PROVE  IInv'
  <1> DEFINE ss == [heap.st EXCEPT ![o] = "fresh"]
             r == [heap.rc EXCEPT ![o] = 1]
             t == [heap.held EXCEPT ![o] = 1]
  <1>0. heap \in Heaps /\ Settled(heap) /\ heap.st[o] = "unused" /\ UNCHANGED stack
    BY DEF IInv, Settled, Good, New
  <1>1. heap' = [heap EXCEPT !.st = ss, !.rc = r, !.held = t]
    BY DEF New
  <1>2. /\ ss \in [Objects -> Status] /\ r \in [Objects -> Int] /\ t \in [Objects -> Int]
    BY <1>0 DEF Heaps, Status
  <1>3. /\ heap' \in Heaps /\ heap'.st = ss /\ heap'.rc = r /\ heap'.held = t
        /\ heap'.parent = heap.parent /\ heap'.leak = heap.leak
        /\ heap'.child_count = heap.child_count
    <2> HIDE DEF ss, r, t
    <2> QED BY <1>0, <1>1, <1>2 DEF Heaps
  <1>4. Alive(heap') = Alive(heap) \cup {o} /\ Alive(heap) \subseteq Objects /\ o \notin Alive(heap)
    BY <1>0, <1>3 DEF Alive, Heaps
  <1>5. /\ heap.parent[o] = NULL /\ heap.leak[o] = 0 /\ heap.child_count[o] = 0
    BY <1>0 DEF Settled, Good, Placed
  <1>6. \A q \in Objects : Children(heap', q) = Children(heap, q)
    BY <1>3, <1>4, <1>5, ObjectsAssumption DEF Children
  <1>7. Children(heap, o) = {}
    BY <1>0, <1>4, ObjectsAssumption DEF Children, Settled, Good, Placed
  <1>8. Cardinality(Children(heap, o)) = 0
    BY <1>7, FS_EmptySet
  <1>9. Counted(heap')
    BY <1>0, <1>3, <1>4, <1>5, <1>6, <1>8 DEF Counted, Settled, Good
  <1>10. BalancedAs(heap', heap'.held)
    <2> SUFFICES ASSUME NEW q \in Alive(heap')
                 PROVE  heap'.rc[q] = heap'.held[q] + Linked(heap', q)
                               + Cardinality(Children(heap', q)) + heap'.leak[q]
      BY DEF BalancedAs
    <2>1. q \in Objects /\ Linked(heap', q) = Linked(heap, q)
          /\ Cardinality(Children(heap', q)) = Cardinality(Children(heap, q))
          /\ heap'.leak[q] = heap.leak[q]
      BY <1>3, <1>4, <1>6 DEF Linked
    <2>2. CASE q = o
      <3>1. Linked(heap, o) = 0 /\ heap'.rc[o] = 1 /\ heap'.held[o] = 1
        BY <1>0, <1>3, <1>5 DEF Linked, Heaps
      <3> QED
        BY <1>5, <1>8, <2>1, <2>2, <3>1
    <2>3. CASE q # o
      <3>1. q \in Alive(heap) /\ heap'.rc[q] = heap.rc[q] /\ heap'.held[q] = heap.held[q]
        BY <1>0, <1>3, <1>4, <2>1, <2>3 DEF Heaps
      <3> QED
        BY <1>0, <2>1, <3>1 DEF Settled, Good, BalancedAs
    <2> QED
      BY <2>2, <2>3
  <1>11. Placed(heap')
    <2>1. \A x \in Objects : heap'.st[x] = IF x = o THEN "fresh" ELSE heap.st[x]
      BY <1>0, <1>3 DEF Heaps
    <2>2. \A x \in Objects : heap.parent[x] # NULL => heap.parent[x] \in Objects
      BY <1>0 DEF Heaps, Pointers
    <2> QED
      BY <1>0, <1>3, <1>5, <2>1, <2>2 DEF Settled, Good, Placed
  <1> QED
    BY <1>0, <1>3, <1>9, <1>10, <1>11 DEF IInv, Settled, Good

\* Following a pointer field from a node meets that node.
LEMMA ReachSelf ==
    ASSUME NEW f, NEW a \in Objects
    PROVE  a \in Reach(f, a)
  <1>1. a # NULL
    BY ObjectsAssumption
  <1> QED
    BY <1>1 DEF Reach

\* Reading the heap leaves it settled.
LEMMA TouchSettled ==
    ASSUME NEW h \in Heaps, Settled(h), NEW S
    PROVE  Settled(Touch(h, S)) /\ Touch(h, S) \in Heaps
  <1>1. Good(Touch(h, S), h.held) /\ Touch(h, S).held = h.held /\ Touch(h, S) \in Heaps
    BY TouchGood, TouchType DEF Settled, SameTree
  <1> QED
    BY <1>1 DEF Settled

\* The recursive call of x_object_destroy_tree.
LEMMA CallGood ==
    ASSUME IInv, DestroyTreeCall
    PROVE  IInv'
  <1>1. /\ heap \in Heaps /\ Settled(heap) /\ stack \in Seq(Frames) /\ Walking(stack)
        /\ stack # <<>> /\ Top.chld # NULL
    BY DEF IInv, Settled, Good, DestroyTreeCall
  <1>2. Len(stack) \in Nat \ {0} /\ Top = stack[Len(stack)] /\ Top \in Frames
    BY <1>1 DEF Top
  <1>3. Top.chld \in Objects
    BY <1>1, <1>2 DEF Frames, Pointers
  <1> DEFINE fr == [thiz |-> Top.chld, chld |-> heap.sons[Top.chld]]
  <1>4. fr \in Frames
    BY <1>1, <1>3 DEF Frames, Heaps
  <1>5. heap' = Touch(heap, {Top.chld}) /\ stack' = Append(stack, fr)
    BY DEF DestroyTreeCall
  <1>6. Settled(heap')
    BY <1>1, <1>5, TouchSettled
  <1> HIDE DEF fr
  <1>7. stack' \in Seq(Frames) /\ Len(stack') = Len(stack) + 1
    BY <1>1, <1>4, <1>5
  <1>8. Walking(stack')
    <2> SUFFICES ASSUME NEW i \in 1 .. Len(stack') - 1 PROVE stack'[i].chld # NULL
      BY DEF Walking
    <2>1. i \in 1 .. Len(stack)
      BY <1>2, <1>7
    <2>2. stack'[i] = stack[i]
      BY <1>1, <1>4, <1>5, <2>1
    <2>3. CASE i = Len(stack)
      BY <1>1, <1>2, <2>2, <2>3
    <2>4. CASE i # Len(stack)
      BY <1>1, <1>2, <2>1, <2>2, <2>4 DEF Walking
    <2> QED
      BY <2>3, <2>4
  <1> QED
    BY <1>6, <1>7, <1>8 DEF IInv

\* The return of x_object_destroy_tree to the loop that called it.
LEMMA ReturnGood ==
    ASSUME IInv, DestroyTreeReturn
    PROVE  IInv'
  <1> DEFINE h == Touch(heap, {Top.thiz})
             below == SubSeq(stack, 1, Len(stack) - 1)
             c == below[Len(below)].chld
  <1>1. /\ heap \in Heaps /\ Settled(heap) /\ stack \in Seq(Frames) /\ Walking(stack)
        /\ stack # <<>>
    BY DEF IInv, Settled, Good, DestroyTreeReturn
  <1>2. h \in Heaps /\ Settled(h)
    BY <1>1, TouchSettled
  <1>3. /\ Len(stack) \in Nat \ {0} /\ below \in Seq(Frames)
        /\ Len(below) = Len(stack) - 1
        /\ \A i \in 1 .. Len(below) : below[i] = stack[i]
    <2>1. Len(stack) \in Nat \ {0}
      BY <1>1
    <2> DEFINE k == Len(stack) - 1
    <2>2. k \in Nat /\ 1 \in Int /\ k \in Int
      BY <2>1
    <2>3. \A i \in 1 .. k : stack[i] \in Frames
      BY <1>1, <2>1
    <2>4. /\ SubSeq(stack, 1, k) \in Seq(Frames)
          /\ Len(SubSeq(stack, 1, k)) = IF 1 <= k THEN k - 1 + 1 ELSE 0
          /\ \A i \in 1 .. k - 1 + 1 : SubSeq(stack, 1, k)[i] = stack[1 + i - 1]
      <3> HIDE DEF k
      <3> QED BY <2>2, <2>3, SubSeqProperties
    <2>5. below = SubSeq(stack, 1, k)
      OBVIOUS
    <2> HIDE DEF below, k
    <2>6. Len(below) = k
      BY <2>2, <2>4, <2>5
    <2>7. \A i \in 1 .. k : below[i] = stack[i]
      BY <2>2, <2>4, <2>5
    <2> QED
      BY <2>1, <2>4, <2>5, <2>6, <2>7 DEF k
  <1>4. CASE below = <<>>
    <2>1. heap' = h /\ stack' = <<>>
      BY <1>4 DEF DestroyTreeReturn
    <2> QED
      BY <1>2, <2>1 DEF IInv, Walking
  <1>5. CASE below # <<>>
    <2> DEFINE n == Len(below)
               s2 == [below EXCEPT ![n].chld = h.sibling[c]]
    <2>1. heap' = DropChildH(h, c) /\ stack' = s2
      BY <1>5 DEF DestroyTreeReturn
    <2> HIDE DEF h, below
    <2>2. n \in 1 .. Len(stack) - 1 /\ n \in 1 .. Len(below) /\ below[n] \in Frames
      BY <1>3, <1>5
    <2>3. c \in Objects
      BY <1>1, <1>3, <2>2 DEF Walking, Frames, Pointers
    <2> HIDE DEF c
    <2>4. Settled(RemoveH(h, c))
      BY <1>2, <2>3, RemoveHGood
    <2>5. Settled(DropChildH(h, c))
      <3>1. RemoveH(h, c) \in Heaps
        BY <2>4 DEF Settled, Good
      <3> QED
        BY <2>3, <2>4, <3>1, PutGood DEF DropChildH
    <2>6. h.sibling[c] \in Pointers
      BY <1>2, <2>3 DEF Heaps
    <2>7. /\ s2 \in Seq(Frames) /\ Len(s2) = Len(below)
          /\ \A i \in 1 .. Len(s2) - 1 : s2[i] = below[i]
      <3> DEFINE fr == [below[n] EXCEPT !.chld = h.sibling[c]]
      <3>1. fr \in Frames
        BY <2>2, <2>6 DEF Frames
      <3>2. s2 = [below EXCEPT ![n] = fr]
        OBVIOUS
      <3> HIDE DEF fr, s2
      <3> QED
        BY <1>3, <2>2, <3>1, <3>2
    <2>8. Walking(s2)
      <3> HIDE DEF s2
      <3>1. \A i \in 1 .. Len(below) - 1 : i \in 1 .. Len(stack) - 1 /\ below[i] = stack[i]
        BY <1>3
      <3> QED BY <1>1, <2>7, <3>1 DEF Walking
    <2> HIDE DEF s2
    <2> QED
      BY <2>1, <2>5, <2>7, <2>8 DEF IInv
  <1> QED
    BY <1>4, <1>5

\* Every step of an arbitrary caller preserves the invariant.
LEMMA NextIInv == IInv /\ [AnyNext]_vars => IInv'
  <1> SUFFICES ASSUME IInv, [AnyNext]_vars PROVE IInv'
    OBVIOUS
  <1>0. heap \in Heaps /\ Settled(heap) /\ stack \in Seq(Frames) /\ Walking(stack)
    BY DEF IInv, Settled, Good
  <1>a. \A h : Settled(h) /\ heap' = h /\ UNCHANGED stack => IInv'
    BY <1>0 DEF IInv
  <1>1. ASSUME NEW o \in Objects, New(o) PROVE IInv'
    BY <1>1, NewGood
  <1>2. ASSUME NEW o \in Objects, RefGet(o) PROVE IInv'
    BY <1>0, <1>a, <1>2, GetGood DEF RefGet, Alive
  <1>3. ASSUME NEW o \in Objects, RefPut(o) PROVE IInv'
    BY <1>0, <1>a, <1>3, PutGood DEF RefPut
  <1>4. ASSUME NEW o \in Objects, RemoveFromParent(o) PROVE IInv'
    BY <1>0, <1>a, <1>4, RemoveHGood DEF RemoveFromParent
  <1>5. ASSUME NEW o \in Objects, Lookup(o) PROVE IInv'
    BY <1>0, <1>a, <1>5, TouchSettled DEF Lookup
  <1>6. ASSUME NEW o \in Objects, DestroyTree(o) PROVE IInv'
    <2> DEFINE fr == [thiz |-> o, chld |-> heap.sons[o]]
    <2>1. heap' = heap /\ stack' = <<fr>>
      BY <1>6 DEF DestroyTree
    <2>2. fr \in Frames
      BY <1>0 DEF Heaps, Frames
    <2> HIDE DEF fr
    <2>3. stack' \in Seq(Frames) /\ Walking(stack')
      BY <2>1, <2>2 DEF Walking
    <2> QED
      BY <1>0, <2>1, <2>3 DEF IInv
  <1>7. ASSUME NEW p \in Objects, NEW c \in Objects, AppendChild(p, c) PROVE IInv'
    <2>1. /\ p \in Alive(heap) /\ heap.st[c] = "fresh" /\ ~Below(heap, c, p)
          /\ heap' = AppendH(heap, p, c) /\ UNCHANGED stack
      BY <1>7 DEF AppendChild
    <2>2. p # c
      BY <2>1, ReachSelf DEF Below
    <2>3. c \in Alive(heap) /\ heap.parent[c] = NULL
      BY <1>0, <2>1 DEF Alive, Settled, Good, Placed
    <2>4. Settled(AppendH(heap, p, c))
      BY <1>0, <2>1, <2>2, <2>3, AppendHGood
    <2> QED
      BY <1>a, <2>1, <2>4
  <1>b. ASSUME NEW p \in Objects, NEW c \in Objects, LookupAll(p, c) PROVE IInv'
    BY <1>0, <1>a, <1>b, TouchSettled DEF LookupAll
  <1>8. CASE DestroyTreeCall
    BY <1>8, CallGood
  <1>9. CASE DestroyTreeReturn
    BY <1>9, ReturnGood
  <1>10. CASE UNCHANGED vars
    BY <1>10 DEF vars, IInv
  <1> QED
    BY <1>1, <1>2, <1>3, <1>4, <1>5, <1>6, <1>7, <1>b, <1>8, <1>9, <1>10
       DEF AnyNext, DestroyTreeStep

\* The inductive invariant holds of every behaviour, for any finite set of
\* addresses, any names and any bound on held references.
THEOREM AnyIInv == AnySpec => []IInv
  BY InitIInv, NextIInv, PTL DEF AnySpec

\* Every field stays in its type and the destroy_tree stack holds frames.
THEOREM AnyTypeOK == AnySpec => []TypeOK
  <1>1. IInv => TypeOK
    BY DEF IInv, Settled, Good, TypeOK
  <1> QED
    BY <1>1, AnyIInv, PTL

\* No sequence of calls, however undisciplined, makes x_obj.c lose or invent
\* a reference of an object that is still allocated.
THEOREM AnyRefBalance == AnySpec => []RefBalance
  <1>1. IInv => RefBalance
    BY DEF IInv, Settled, Good, RefBalance
  <1> QED
    BY <1>1, AnyIInv, PTL

\* No sequence of calls makes child_count differ from the number of children.
THEOREM AnyCountExact == AnySpec => []CountExact
  <1>1. IInv => CountExact
    BY DEF IInv, Settled, Good, CountExact
  <1> QED
    BY <1>1, AnyIInv, PTL

-----------------------------------------------------------------------------
(* Lists in the order of insertion. *)

\* f leads from x to the first member of S that was put behind it, where pos
\* is the order in which the members were put.
Follows(f, S, pos, x) ==
    IF f[x] = NULL THEN \A y \in S : pos[y] <= pos[x]
    ELSE /\ f[x] \in S /\ pos[x] < pos[f[x]]
         /\ \A y \in S : pos[x] < pos[y] => pos[f[x]] <= pos[y]

\* S is listed by f in that order.
InOrder(f, S, pos) ==
    /\ \A x \in S : Follows(f, S, pos, x)
    /\ \A x, y \in S : pos[x] = pos[y] => x = y

\* a is the first member of S, or null if there is none.
Leads(a, S, pos) ==
    IF a = NULL THEN S = {} ELSE a \in S /\ \A y \in S : pos[a] <= pos[y]

\* Following f from a member of a list meets that member and the ones behind it.
LEMMA ReachBehind ==
    ASSUME NEW f, NEW S \in SUBSET Objects, NEW pos \in [Objects -> Nat],
           \A x \in S : Follows(f, S, pos, x), NEW a \in S,
           \A x, y \in S : pos[x] = pos[y] => x = y
    PROVE  Reach(f, a) = {y \in S : pos[a] <= pos[y]}
  <1> DEFINE B == {y \in S : pos[a] <= pos[y]}
  <1>0. \A x \in S : x \in Objects /\ x # NULL /\ pos[x] \in Nat
    BY ObjectsAssumption
  <1>1. Reach(f, a) \subseteq B
    <2>1. a \in B /\ B \in SUBSET Objects
      BY <1>0
    <2>2. \A y \in B : f[y] \in B \cup {NULL}
      <3> SUFFICES ASSUME NEW y \in B, f[y] # NULL PROVE f[y] \in B
        OBVIOUS
      <3>1. f[y] \in S /\ pos[y] < pos[f[y]]
        BY DEF Follows
      <3> QED
        BY <1>0, <3>1
    <2> HIDE DEF B
    <2> QED
      BY <2>1, <2>2 DEF Reach
  <1>2. ASSUME NEW y \in B PROVE y \in Reach(f, a)
    <2> SUFFICES ASSUME NEW T \in SUBSET Objects, a \in T \cup {NULL},
                        \A x \in T : f[x] \in T \cup {NULL},
                        y \notin T
                 PROVE  FALSE
      BY <1>0 DEF Reach
    <2> DEFINE C == {x \in S : x \in T /\ pos[a] <= pos[x] /\ pos[x] <= pos[y]}
               D == {pos[y] - pos[x] : x \in C}
    <2>1. a \in C
      BY <1>0
    <2>2. D \in SUBSET Nat
      BY <1>0
    <2>3. D # {}
      BY <2>1
    <2>4. PICK d \in D : \A e \in D : d <= e
      <3> HIDE DEF D
      <3> QED BY <2>2, <2>3, LeastExists
    <2>5. PICK x \in C : d = pos[y] - pos[x]
      BY <2>4
    <2>6. \A z \in C : pos[z] <= pos[x]
      <3> SUFFICES ASSUME NEW z \in C PROVE pos[z] <= pos[x]
        OBVIOUS
      <3>1. pos[y] - pos[z] \in D
        OBVIOUS
      <3>2. d <= pos[y] - pos[z]
        BY <2>4, <3>1
      <3> QED
        BY <1>0, <2>5, <3>2
    <2>7. x \in S /\ x \in T /\ y \in S /\ pos[a] <= pos[x] /\ pos[x] <= pos[y] /\ x # y
      BY <2>5
    <2>8. pos[x] < pos[y]
      BY <1>0, <2>7
    <2>9. f[x] # NULL /\ f[x] \in S /\ pos[x] < pos[f[x]] /\ pos[f[x]] <= pos[y]
      <3>1. Follows(f, S, pos, x)
        BY <2>7
      <3>2. f[x] # NULL
        BY <1>0, <2>7, <2>8, <3>1 DEF Follows
      <3> QED
        BY <2>7, <2>8, <3>1, <3>2 DEF Follows
    <2>10. f[x] \in T
      BY <2>7, <2>9
    <2>11. f[x] \in C
      BY <1>0, <2>7, <2>9, <2>10
    <2> QED
      BY <1>0, <2>6, <2>7, <2>9, <2>11
  <1> QED
    BY <1>1, <1>2

\* Following f from the first member meets the whole list.
LEMMA ReachList ==
    ASSUME NEW f, NEW S \in SUBSET Objects, NEW pos \in [Objects -> Nat],
           InOrder(f, S, pos), NEW a, Leads(a, S, pos)
    PROVE  Reach(f, a) = S
  <1>1. CASE a = NULL
    BY <1>1 DEF Leads, Reach
  <1>2. CASE a # NULL
    <2>1. a \in S /\ \A y \in S : pos[a] <= pos[y]
      BY <1>2 DEF Leads
    <2>2. Reach(f, a) = {y \in S : pos[a] <= pos[y]}
      BY <2>1, ReachBehind DEF InOrder
    <2> QED
      BY <2>1, <2>2
  <1> QED
    BY <1>1, <1>2

\* A set that is not empty has a member that was put first.
LEMMA FirstExists ==
    ASSUME NEW S \in SUBSET Objects, NEW pos \in [Objects -> Nat], S # {}
    PROVE  \E x \in S : \A y \in S : pos[x] <= pos[y]
  <1> DEFINE D == {pos[x] : x \in S}
  <1>1. D \in SUBSET Nat /\ D # {}
    OBVIOUS
  <1>2. PICK d \in D : \A e \in D : d <= e
    <2> HIDE DEF D
    <2> QED BY <1>1, LeastExists
  <1> QED
    BY <1>2

\* The last node that a walk along a list finds is the last one.
LEMMA LastFound ==
    ASSUME NEW f, NEW S \in SUBSET Objects, NEW n \in Nat, NEW pos \in [Objects -> 0 .. n],
           InOrder(f, S, pos), NEW a \in S
    PROVE  Last(f, a) \in S /\ f[Last(f, a)] = NULL
  <1>0. pos \in [Objects -> Nat] /\ \A x \in S : pos[x] \in 0 .. n
    OBVIOUS
  <1>1. Reach(f, a) = {y \in S : pos[a] <= pos[y]}
    BY <1>0, ReachBehind DEF InOrder
  <1> DEFINE D == {n - pos[x] : x \in S}
  <1>2. D \in SUBSET Nat /\ D # {}
    BY <1>0
  <1>3. PICK d \in D : \A e \in D : d <= e
    <2> HIDE DEF D
    <2> QED BY <1>2, LeastExists
  <1>4. PICK x \in S : d = n - pos[x]
    BY <1>3
  <1>5. \A y \in S : pos[y] <= pos[x]
    <2> SUFFICES ASSUME NEW y \in S PROVE pos[y] <= pos[x]
      OBVIOUS
    <2>1. d <= n - pos[y]
      BY <1>3
    <2> QED
      BY <1>0, <1>4, <2>1
  <1>6. f[x] = NULL
    <2>1. Follows(f, S, pos, x)
      BY DEF InOrder
    <2> QED
      BY <1>0, <1>5, <2>1 DEF Follows
  <1>7. x \in Reach(f, a) /\ f[x] = NULL
    BY <1>1, <1>5, <1>6
  <1>8. Last(f, a) \in Reach(f, a) /\ f[Last(f, a)] = NULL
    BY <1>7 DEF Last
  <1> QED
    BY <1>1, <1>8

\* A node put behind the last one of a list.
LEMMA ListGrows ==
    ASSUME NEW f, NEW g, NEW S \in SUBSET Objects, NEW n \in Nat,
           NEW pos \in [Objects -> 0 .. n], InOrder(f, S, pos),
           NEW c \in Objects \ S, NEW l, S # {} => l \in S /\ f[l] = NULL,
           \A x \in S : g[x] = IF x = l THEN c ELSE f[x], g[c] = NULL,
           NEW pos2, pos2[c] = n + 1, \A x \in S : pos2[x] = pos[x]
    PROVE  InOrder(g, S \cup {c}, pos2)
  <1>0. /\ pos2[c] = n + 1 /\ \A x \in S : pos2[x] = pos[x] /\ pos[x] \in 0 .. n
        /\ c # NULL /\ NULL \notin S
    BY ObjectsAssumption
  <1>1. ASSUME NEW x \in S PROVE Follows(g, S \cup {c}, pos2, x)
    <2>0. Follows(f, S, pos, x)
      BY DEF InOrder
    <2>1. CASE x = l
      BY <1>0, <2>0, <2>1 DEF Follows
    <2>2. CASE x # l
      <3>1. g[x] = f[x]
        BY <2>2
      <3>2. f[x] # NULL
        <4> SUFFICES ASSUME f[x] = NULL PROVE FALSE
          OBVIOUS
        <4>1. pos[l] <= pos[x]
          BY <2>0 DEF Follows
        <4>2. Follows(f, S, pos, l) /\ f[l] = NULL
          BY DEF InOrder
        <4>3. pos[x] <= pos[l]
          BY <4>2 DEF Follows
        <4>4. pos[x] = pos[l]
          BY <1>0, <4>1, <4>3
        <4> QED
          BY <2>2, <4>4 DEF InOrder
      <3> QED
        BY <1>0, <2>0, <3>1, <3>2 DEF Follows
    <2> QED
      BY <2>1, <2>2
  <1>2. Follows(g, S \cup {c}, pos2, c)
    BY <1>0 DEF Follows
  <1>3. \A x, y \in S \cup {c} : pos2[x] = pos2[y] => x = y
    BY <1>0 DEF InOrder
  <1> QED
    BY <1>1, <1>2, <1>3 DEF InOrder

\* A node taken out of a list.
LEMMA ListShrinks ==
    ASSUME NEW f, NEW g, NEW S \in SUBSET Objects, NEW pos \in [Objects -> Nat],
           InOrder(f, S, pos), NEW o \in S,
           \A x \in S \ {o} : g[x] = IF f[x] = o THEN f[o] ELSE f[x]
    PROVE  InOrder(g, S \ {o}, pos)
  <1>0. \A x \in S : x # NULL /\ pos[x] \in Nat
    BY ObjectsAssumption
  <1>1. ASSUME NEW x \in S \ {o} PROVE Follows(g, S \ {o}, pos, x)
    <2>0. Follows(f, S, pos, x) /\ Follows(f, S, pos, o)
      BY DEF InOrder
    <2>1. CASE f[x] # o
      <3>1. g[x] = f[x]
        BY <2>1
      <3> QED
        BY <1>0, <2>0, <2>1, <3>1 DEF Follows
    <2>2. CASE f[x] = o
      <3>1. g[x] = f[o] /\ f[x] # NULL
        BY <1>0, <2>2
      <3>2. pos[x] < pos[o] /\ \A y \in S : pos[x] < pos[y] => pos[o] <= pos[y]
        BY <2>0, <2>2, <3>1 DEF Follows
      <3>3. \A y \in S \ {o} : pos[x] < pos[y] => pos[o] < pos[y]
        <4> SUFFICES ASSUME NEW y \in S \ {o}, pos[x] < pos[y] PROVE pos[o] < pos[y]
          OBVIOUS
        <4>1. pos[o] # pos[y]
          BY DEF InOrder
        <4> QED
          BY <1>0, <3>2, <4>1
      <3>4. CASE f[o] = NULL
        <4>1. \A y \in S : pos[y] <= pos[o]
          BY <2>0, <3>4 DEF Follows
        <4>2. \A y \in S \ {o} : pos[y] <= pos[x]
          BY <1>0, <3>3, <4>1
        <4> QED
          BY <3>1, <3>4, <4>2 DEF Follows
      <3>5. CASE f[o] # NULL
        <4>1. /\ f[o] \in S /\ pos[o] < pos[f[o]]
              /\ \A y \in S : pos[o] < pos[y] => pos[f[o]] <= pos[y]
          BY <2>0, <3>5 DEF Follows
        <4>2. f[o] # o /\ pos[x] < pos[f[o]]
          BY <1>0, <3>2, <4>1
        <4>3. \A y \in S \ {o} : pos[x] < pos[y] => pos[f[o]] <= pos[y]
          BY <3>3, <4>1
        <4> QED
          BY <3>1, <3>5, <4>1, <4>2, <4>3 DEF Follows
      <3> QED
        BY <3>4, <3>5
    <2> QED
      BY <2>1, <2>2
  <1> QED
    BY <1>1 DEF InOrder

\* Its first member, then.
LEMMA LeadMoves ==
    ASSUME NEW f, NEW S \in SUBSET Objects, NEW pos \in [Objects -> Nat],
           InOrder(f, S, pos), NEW a, Leads(a, S, pos), NEW o \in S
    PROVE  Leads(IF a = o THEN f[o] ELSE a, S \ {o}, pos)
  <1>0. \A x \in S : x # NULL /\ pos[x] \in Nat
    BY ObjectsAssumption
  <1>1. a \in S /\ \A y \in S : pos[a] <= pos[y]
    BY <1>0 DEF Leads
  <1>2. CASE a # o
    BY <1>0, <1>1, <1>2 DEF Leads
  <1>3. CASE a = o
    <2>0. Follows(f, S, pos, o)
      BY DEF InOrder
    <2>1. \A y \in S \ {o} : pos[o] < pos[y]
      <3> SUFFICES ASSUME NEW y \in S \ {o} PROVE pos[o] < pos[y]
        OBVIOUS
      <3>1. pos[o] # pos[y]
        BY DEF InOrder
      <3> QED
        BY <1>0, <1>1, <1>3, <3>1
    <2>2. CASE f[o] = NULL
      <3>1. S \ {o} = {}
        BY <1>0, <2>0, <2>1, <2>2 DEF Follows
      <3> QED
        BY <1>3, <2>2, <3>1 DEF Leads
    <2>3. CASE f[o] # NULL
      BY <1>0, <1>3, <2>0, <2>1, <2>3 DEF Follows, Leads
    <2> QED
      BY <2>2, <2>3
  <1> QED
    BY <1>2, <1>3

-----------------------------------------------------------------------------
(* The lists of a heap. *)

\* The members of S of one name, and the children of p of one name.
OfName(S, nm) == {x \in S : Name[x] = nm}
Named(h, p, nm) == OfName(Children(h, p), nm)

\* sons and sibling list the children in the order of insertion, and so does
\* next the children of each name.
Lists(h, pos) ==
    \A p \in Alive(h) : /\ Leads(h.sons[p], Children(h, p), pos)
                        /\ InOrder(h.sibling, Children(h, p), pos)
Nexts(h, pos) ==
    \A p \in Alive(h), d \in Objects : InOrder(h.next, Named(h, p, Name[d]), pos)

\* There is an order, that of insertion, in which the lists hold their nodes.
\* Next chains are only in order while no name is a prefix of another.
Ordered(h) ==
    \E n \in Nat : \E pos \in [Objects -> 0 .. n] :
        Lists(h, pos) /\ (NamesApart => Nexts(h, pos))

\* A node that was never linked is on no list, and one that was never
\* allocated has none.
Loose(h) ==
    \A o \in Objects :
        /\ h.st[o] \in {"unused", "fresh"} => /\ h.sibling[o] = NULL
                                              /\ NamesApart => h.next[o] = NULL
        /\ h.st[o] = "unused" => h.sons[o] = NULL

\* A linked object has a parent that is still allocated.
Rooted(h) == \A o \in Alive(h) : h.parent[o] # NULL => h.parent[o] \in Alive(h)

\* Every list of the heap is in order.
Tidy(h) == h \in Heaps /\ Placed(h) /\ Loose(h) /\ Rooted(h) /\ Ordered(h)

\* g and h have the same nodes and the same pointers.
SameLinks(g, h) ==
    /\ g.st = h.st /\ g.parent = h.parent /\ g.sons = h.sons
    /\ g.sibling = h.sibling /\ g.next = h.next

\* The tree being tidy is a matter of its pointers.
LEMMA SameLinksTidy ==
    ASSUME NEW g \in Heaps, NEW h, Tidy(h), SameLinks(g, h), Placed(g)
    PROVE  Tidy(g)
  <1>1. Alive(g) = Alive(h) /\ \A p : Children(g, p) = Children(h, p)
    BY DEF SameLinks, Alive, Children
  <1>2. Loose(g) /\ Rooted(g)
    BY <1>1 DEF Tidy, Loose, Rooted, SameLinks
  <1>3. \A p, nm : Named(g, p, nm) = Named(h, p, nm)
    BY <1>1 DEF Named, OfName
  <1>4. \A pos : Lists(h, pos) => Lists(g, pos)
    BY <1>1 DEF Lists, SameLinks
  <1>5. \A pos : Nexts(h, pos) => Nexts(g, pos)
    BY <1>1, <1>3 DEF Nexts, SameLinks
  <1>6. Ordered(g)
    BY <1>4, <1>5 DEF Tidy, Ordered
  <1> QED
    BY <1>2, <1>6 DEF Tidy

\* A list whose members keep their pointers and their places.
LEMMA ListKept ==
    ASSUME NEW f, NEW g, NEW S, NEW pos, NEW pos2, InOrder(f, S, pos),
           \A x \in S : g[x] = f[x] /\ pos2[x] = pos[x]
    PROVE  InOrder(g, S, pos2)
  <1>1. ASSUME NEW x \in S PROVE Follows(g, S, pos2, x)
    <2>1. Follows(f, S, pos, x)
      BY DEF InOrder
    <2> QED
      BY <2>1 DEF Follows
  <1> QED
    BY <1>1 DEF InOrder

\* The first member of a list whose members keep their places.
LEMMA LeadKept ==
    ASSUME NEW S, NEW pos, NEW pos2, NEW a, Leads(a, S, pos),
           \A x \in S : pos2[x] = pos[x]
    PROVE  Leads(a, S, pos2)
  BY DEF Leads

\* Children of a node are live objects.
LEMMA ChildrenAre ==
    ASSUME NEW h, NEW p \in Objects
    PROVE  /\ Children(h, p) \subseteq Objects /\ Children(h, p) \subseteq Alive(h)
           /\ \A x \in Children(h, p) : h.parent[x] = p /\ x # NULL
           /\ \A q : q # p => Children(h, p) \cap Children(h, q) = {}
           /\ \A nm : Named(h, p, nm) \subseteq Children(h, p)
  BY ObjectsAssumption DEF Children, Alive, Named, OfName

\* __x_object_get_child finds the first child of a name, when no name is a
\* prefix of another.
LEMMA ChildFound ==
    ASSUME NamesApart, NEW h, NEW p, NEW S \in SUBSET Objects, NEW pos \in [Objects -> Nat],
           InOrder(h.sibling, S, pos), Leads(h.sons[p], S, pos), NEW c \in Objects
    PROVE  Leads(GetChild(h, p, Name[c]), OfName(S, Name[c]), pos)
  <1> DEFINE T == {x \in S : Name[x] = Name[c]}
             N == {x \in OnList(h, p) : <<Name[x], Name[c]>> \in EQN}
  <1>1. OnList(h, p) = S
    BY ReachList DEF OnList
  <1>2. N = T
    <2>1. \A x \in S : <<Name[x], Name[c]>> \in EQN <=> Name[x] = Name[c]
      BY EQNAssumption DEF NamesApart
    <2> QED
      BY <1>1, <2>1
  <1>3. GetChild(h, p, Name[c]) =
          IF N = {} THEN NULL ELSE CHOOSE x \in N : N \subseteq Reach(h.sibling, x)
    BY DEF GetChild
  <1>6. T = OfName(S, Name[c])
    BY DEF OfName
  <1> HIDE DEF N
  <1>4. CASE T = {}
    BY <1>2, <1>3, <1>4, <1>6 DEF Leads
  <1>5. CASE T # {}
    <2>1. \A x \in S : Reach(h.sibling, x) = {y \in S : pos[x] <= pos[y]}
      BY ReachBehind DEF InOrder
    <2>2. T \in SUBSET Objects /\ T \subseteq S
      OBVIOUS
    <2>3. PICK x \in T : \A y \in T : pos[x] <= pos[y]
      <3> HIDE DEF T
      <3> QED BY <1>5, <2>2, FirstExists
    <2> HIDE DEF T
    <2>4. T \subseteq Reach(h.sibling, x)
      BY <2>1, <2>2, <2>3
    <2> DEFINE r == CHOOSE z \in T : T \subseteq Reach(h.sibling, z)
    <2>5. r \in T /\ T \subseteq Reach(h.sibling, r)
      BY <2>3, <2>4
    <2>6. GetChild(h, p, Name[c]) = r
      BY <1>2, <1>3, <1>5
    <2> HIDE DEF r
    <2>7. \A y \in T : pos[r] <= pos[y]
      BY <2>1, <2>2, <2>5
    <2>8. r # NULL
      BY <2>2, <2>5, ObjectsAssumption
    <2>9. Leads(r, T, pos)
      BY <2>5, <2>7, <2>8 DEF Leads
    <2> QED
      BY <1>6, <2>6, <2>9
  <1> QED
    BY <1>4, <1>5

\* h with c put behind l among the siblings.
Behind(h, l, c) == [h EXCEPT !.sibling = [h.sibling EXCEPT ![l] = c]]

\* The last son of p, and where the next chain of c's name ends once c is linked.
LastSon(h, p) == Last(h.sibling, h.sons[p])
ChainLast(h, h1, p, c) == Last(h.next, GetChild(h1, p, Name[c]))
Chained(h, p, c) == Behind(h, LastSon(h, p), c)

\* The pointers __x_object_insert_into_tree writes: c goes behind the last son l
\* and behind the last node m of its name.
Links(g, h, p, c, l, h1, m) ==
    /\ g.uaf = h.uaf
    /\ g.sibling[c] = NULL /\ g.next[c] = NULL
    /\ \A x \in Objects \ {p} : g.sons[x] = h.sons[x]
    /\ \A x \in Objects \ {c} :
         /\ g.sibling[x] = IF h.sons[p] # NULL /\ x = l THEN c ELSE h.sibling[x]
         /\ g.next[x] = IF h.sons[p] # NULL /\ x = m THEN c ELSE h.next[x]
    /\ g.sons[p] = IF h.sons[p] = NULL THEN c ELSE h.sons[p]
    /\ h1 \in Heaps /\ h1.sons = h.sons
    /\ \A x \in Objects : h1.sibling[x] = IF x = l THEN c ELSE h.sibling[x]

\* __x_object_insert_into_tree writes these pointers and no others.
LEMMA InsertLinks ==
    ASSUME NEW h \in Heaps, NEW p \in Objects, NEW c \in Objects,
           NEW g, g = InsertIntoTree(h, p, c), NEW l, l = LastSon(h, p),
           NEW h1, h1 = Chained(h, p, c), NEW m, m = ChainLast(h, h1, p, c)
    PROVE  Links(g, h, p, c, l, h1, m)
  <1>1. h1 \in Heaps /\ h1.sons = h.sons /\ h1.next = h.next /\ h1.uaf = h.uaf
        /\ h1.sibling = [h.sibling EXCEPT ![l] = c]
    BY DEF Heaps, Pointers, Behind, Chained
  <1> DEFINE put(k) == [k EXCEPT
                    !.st = [k.st EXCEPT ![c] = "inserted"],
                    !.parent = [k.parent EXCEPT ![c] = p],
                    !.next = [k.next EXCEPT ![c] = NULL],
                    !.sibling = [k.sibling EXCEPT ![c] = NULL],
                    !.child_count = [k.child_count EXCEPT ![p] = @ + 1]]
  <1>0. /\ h.sons \in [Objects -> Pointers] /\ h.sibling \in [Objects -> Pointers]
        /\ h.next \in [Objects -> Pointers]
    BY DEF Heaps
  <1>2. ASSUME NEW k \in Heaps
        PROVE  /\ put(k).sons = k.sons /\ put(k).uaf = k.uaf
               /\ put(k).sibling = [k.sibling EXCEPT ![c] = NULL]
               /\ put(k).next = [k.next EXCEPT ![c] = NULL]
    BY DEF Heaps
  <1>3. CASE h.sons[p] = NULL
    <2> DEFINE k == [h EXCEPT !.sons = [h.sons EXCEPT ![p] = c]]
    <2>1. g = put(k)
      BY <1>3 DEF InsertIntoTree
    <2>2. k \in Heaps /\ k.sons = [h.sons EXCEPT ![p] = c] /\ k.sibling = h.sibling
          /\ k.next = h.next /\ k.uaf = h.uaf
      BY DEF Heaps, Pointers
    <2>3. /\ put(k).sons = k.sons /\ put(k).uaf = k.uaf
          /\ put(k).sibling = [k.sibling EXCEPT ![c] = NULL]
          /\ put(k).next = [k.next EXCEPT ![c] = NULL]
      BY ONLY <1>2, <2>2
    <2> HIDE DEF k, put
    <2> QED
      BY <1>0, <1>1, <1>3, <2>1, <2>2, <2>3 DEF Links
  <1>4. CASE h.sons[p] # NULL
    <2> DEFINE k == [h1 EXCEPT !.next = [h1.next EXCEPT ![m] = c]]
    <2>1. g = put(k)
      BY <1>1, <1>4 DEF InsertIntoTree, Behind, Chained, LastSon, ChainLast
    <2>2. k \in Heaps /\ k.sons = h.sons /\ k.sibling = h1.sibling
          /\ k.next = [h.next EXCEPT ![m] = c] /\ k.uaf = h.uaf
      BY <1>1 DEF Heaps, Pointers
    <2>3. /\ put(k).sons = k.sons /\ put(k).uaf = k.uaf
          /\ put(k).sibling = [k.sibling EXCEPT ![c] = NULL]
          /\ put(k).next = [k.next EXCEPT ![c] = NULL]
      BY ONLY <1>2, <2>2
    <2> HIDE DEF k, put
    <2> QED
      BY <1>0, <1>1, <1>4, <2>1, <2>2, <2>3 DEF Links
  <1> QED
    BY <1>3, <1>4

\* Where the next chain T of a name is extended: behind its last node, or at the
\* new node itself if it is the first of its name.
ChainEnds(m, T, f, c) == IF T = {} THEN m = c ELSE m \in T /\ f[m] = NULL

\* __x_object_insert_into_tree finds the end of the chain of c's name.
LEMMA ChainEnd ==
    ASSUME NamesApart, NEW h \in Heaps, NEW p \in Objects, NEW c \in Objects,
           NEW S \in SUBSET Objects, c \notin S, S # {},
           NEW n \in Nat, NEW pos \in [Objects -> 0 .. n],
           InOrder(h.sibling, S, pos), Leads(h.sons[p], S, pos),
           NEW T, T = OfName(S, Name[c]), InOrder(h.next, T, pos),
           h.sibling[c] = NULL, h.next[c] = NULL,
           NEW l \in S, h.sibling[l] = NULL,
           NEW m, m = ChainLast(h, Behind(h, l, c), p, c)
    PROVE  ChainEnds(m, T, h.next, c)
  <1> DEFINE h1 == Behind(h, l, c)
  <1>00. /\ h1.sons = h.sons /\ c \notin S
         /\ \A x \in Objects : h1.sibling[x] = IF x = l THEN c ELSE h.sibling[x]
    BY DEF Heaps, Behind
  <1> HIDE DEF h1
  <1> DEFINE pos2 == [pos EXCEPT ![c] = n + 1]
             S2 == S \cup {c}
             T2 == OfName(S2, Name[c])
             f == GetChild(h1, p, Name[c])
  <1>0. /\ pos \in [Objects -> Nat] /\ pos2 \in [Objects -> Nat] /\ S2 \in SUBSET Objects
        /\ h.sibling \in [Objects -> Pointers] /\ h.next \in [Objects -> Pointers]
        /\ pos2[c] = n + 1 /\ \A x \in S : pos2[x] = pos[x] /\ pos[x] \in 0 .. n
        /\ c # NULL /\ NULL \notin S2
    BY ObjectsAssumption DEF Heaps
  <1>1. InOrder(h1.sibling, S2, pos2)
    <2>1. \A x \in S : h1.sibling[x] = IF x = l THEN c ELSE h.sibling[x]
      BY <1>00
    <2>2. h1.sibling[c] = NULL
      BY <1>00
    <2>3. c \in Objects \ S
      OBVIOUS
    <2>4. S # {} => l \in S /\ h.sibling[l] = NULL
      OBVIOUS
    <2>5. InOrder(h1.sibling, S \cup {c}, pos2)
      <3> HIDE DEF pos2, S2, T2, f
      <3> QED BY ONLY ListGrows, S \in SUBSET Objects, n \in Nat, pos \in [Objects -> 0 .. n],
                 InOrder(h.sibling, S, pos), <1>0, <2>1, <2>2, <2>3, <2>4
    <2> QED
      BY <2>5
  <1>2. Leads(h1.sons[p], S2, pos2)
    BY <1>0, <1>00 DEF Leads
  <1>3. Leads(f, T2, pos2)
    <2> HIDE DEF pos2, S2
    <2> QED BY ONLY ChildFound, NamesApart, c \in Objects, <1>0, <1>1, <1>2 DEF f, T2
  <1> HIDE DEF f, pos2
  <1>4. T2 = T \cup {c}
    BY DEF OfName
  <1>5. CASE T = {}
    <2>1. f = c
      BY <1>0, <1>3, <1>4, <1>5 DEF Leads
    <2>2. InOrder(h.next, {c}, pos)
      BY <1>0 DEF InOrder, Follows
    <2>3. Last(h.next, c) \in {c}
      <3>1. {c} \in SUBSET Objects
        OBVIOUS
      <3> QED BY <2>2, <3>1, LastFound
    <2> QED
      BY <1>5, <2>1, <2>3 DEF f, ChainLast, h1, ChainEnds
  <1>6. CASE T # {}
    <2>1. PICK y \in T : TRUE
      BY <1>6
    <2>2. f # c
      <3> SUFFICES ASSUME f = c PROVE FALSE
        OBVIOUS
      <3>1. pos2[c] <= pos2[y]
        BY <1>0, <1>3, <1>4, <2>1 DEF Leads
      <3>2. y \in S
        BY <2>1 DEF OfName
      <3> QED
        BY <1>0, <3>1, <3>2
    <2>3. f \in T
      BY <1>3, <1>4, <2>2 DEF Leads
    <2>4. T \in SUBSET Objects
      BY DEF OfName
    <2>5. Last(h.next, f) \in T /\ h.next[Last(h.next, f)] = NULL
      BY ONLY <2>3, <2>4, LastFound, n \in Nat, pos \in [Objects -> 0 .. n],
              InOrder(h.next, T, pos)
    <2> QED
      BY <1>6, <2>5 DEF f, ChainLast, h1, ChainEnds
  <1> QED
    BY <1>5, <1>6

\* Linking a node that was never linked keeps the tree tidy.
LEMMA InsertTidy ==
    ASSUME NEW h, Tidy(h), NEW p \in Alive(h), NEW c \in Objects, h.st[c] = "fresh", p # c,
           Placed(InsertIntoTree(h, p, c))
    PROVE  /\ Tidy(InsertIntoTree(h, p, c))
           /\ InsertIntoTree(h, p, c).uaf = h.uaf
  <1> DEFINE g == InsertIntoTree(h, p, c)
             S == Children(h, p)
             l == LastSon(h, p)
             h1 == Chained(h, p, c)
             m == ChainLast(h, h1, p, c)
  <1>0. /\ h \in Heaps /\ p \in Objects /\ c \in Alive(h) /\ h.parent[c] = NULL
        /\ h.sibling[c] = NULL /\ (NamesApart => h.next[c] = NULL) /\ c # NULL /\ p # NULL
        /\ h.sibling \in [Objects -> Pointers] /\ h.next \in [Objects -> Pointers]
        /\ h.sons \in [Objects -> Pointers] /\ h.parent \in [Objects -> Pointers]
        /\ Alive(h) \subseteq Objects
    <2>1. h \in Heaps /\ Placed(h) /\ Loose(h)
      BY DEF Tidy
    <2>2. h.sibling[c] = NULL /\ (NamesApart => h.next[c] = NULL)
      BY <2>1 DEF Loose
    <2>3. c \in Alive(h) /\ h.parent[c] = NULL
      BY <2>1 DEF Placed, Alive
    <2>4. p \in Objects /\ c # NULL /\ p # NULL /\ Alive(h) \subseteq Objects
      BY ObjectsAssumption DEF Alive
    <2> QED
      BY <2>1, <2>2, <2>3, <2>4 DEF Heaps
  <1>1. Inserted(g, h, p, c)
    BY <1>0, InsertType
  <1>2. /\ g.uaf = h.uaf
        /\ g.sibling[c] = NULL /\ g.next[c] = NULL
        /\ \A x \in Objects \ {p} : g.sons[x] = h.sons[x]
        /\ \A x \in Objects \ {c} :
             /\ g.sibling[x] = IF h.sons[p] # NULL /\ x = l THEN c ELSE h.sibling[x]
             /\ g.next[x] = IF h.sons[p] # NULL /\ x = m THEN c ELSE h.next[x]
        /\ g.sons[p] = IF h.sons[p] = NULL THEN c ELSE h.sons[p]
        /\ h1 \in Heaps /\ h1.sons = h.sons
        /\ \A x \in Objects : h1.sibling[x] = IF x = l THEN c ELSE h.sibling[x]
    <2>1. h \in Heaps /\ p \in Objects /\ c \in Objects
      BY <1>0
    <2>2. Links(g, h, p, c, l, h1, m)
      BY ONLY <2>1, InsertLinks
    <2> HIDE DEF g, l, h1, m
    <2> QED
      BY ONLY <2>2 DEF Links
  <1> HIDE DEF g, l, h1, m
  <1>3. /\ g \in Heaps /\ Alive(g) = Alive(h)
        /\ \A x \in Objects : g.parent[x] = IF x = c THEN p ELSE h.parent[x]
        /\ \A x \in Objects : g.st[x] = IF x = c THEN "inserted" ELSE h.st[x]
    BY <1>0, <1>1 DEF Inserted, Alive, Heaps
  <1>4. /\ \A q \in Objects : q # p => Children(g, q) = Children(h, q)
        /\ Children(g, p) = S \cup {c}
        /\ \A q \in Objects : c \notin Children(h, q)
    <2>1. \A q \in Objects : q # NULL
      BY ObjectsAssumption
    <2> QED
      BY <1>0, <1>3, <2>1 DEF Children
  <1>5. Rooted(g)
    BY <1>0, <1>3 DEF Rooted, Tidy
  <1>6. PICK n \in Nat : \E pos \in [Objects -> 0 .. n] :
            Lists(h, pos) /\ (NamesApart => Nexts(h, pos))
    BY DEF Tidy, Ordered
  <1>7. PICK pos \in [Objects -> 0 .. n] : Lists(h, pos) /\ (NamesApart => Nexts(h, pos))
    BY <1>6
  <1> DEFINE pos2 == [pos EXCEPT ![c] = n + 1]
  <1>8. /\ pos \in [Objects -> Nat] /\ pos2 \in [Objects -> 0 .. (n + 1)] /\ pos2[c] = n + 1
        /\ \A x \in Objects \ {c} : pos2[x] = pos[x] /\ pos[x] \in 0 .. n
    OBVIOUS
  <1>9. /\ S \in SUBSET Objects /\ InOrder(h.sibling, S, pos) /\ Leads(h.sons[p], S, pos)
        /\ c \notin S
    BY <1>0, <1>4, <1>7, ChildrenAre DEF Lists
  <1>10. S # {} => h.sons[p] # NULL /\ l \in S /\ h.sibling[l] = NULL
    <2> SUFFICES ASSUME S # {} PROVE h.sons[p] # NULL /\ l \in S /\ h.sibling[l] = NULL
      OBVIOUS
    <2>1. h.sons[p] \in S /\ h.sons[p] # NULL
      BY <1>9 DEF Leads
    <2> QED
      BY <1>9, <2>1, LastFound DEF l, LastSon
  <1>11. S = {} => h.sons[p] = NULL
    BY <1>9 DEF Leads
  <1>12. NamesApart => /\ InOrder(h.next, Named(h, p, Name[c]), pos)
                       /\ S # {} => IF Named(h, p, Name[c]) = {} THEN m = c
                                    ELSE m \in Named(h, p, Name[c]) /\ h.next[m] = NULL
    <2> SUFFICES ASSUME NamesApart
                 PROVE  /\ InOrder(h.next, Named(h, p, Name[c]), pos)
                        /\ S # {} => IF Named(h, p, Name[c]) = {} THEN m = c
                                     ELSE m \in Named(h, p, Name[c]) /\ h.next[m] = NULL
      OBVIOUS
    <2>1. InOrder(h.next, Named(h, p, Name[c]), pos)
      BY <1>7 DEF Nexts
    <2>2. Named(h, p, Name[c]) = {x \in S : Name[x] = Name[c]}
      BY DEF Named, OfName
    <2>3. ASSUME S # {}
          PROVE  IF Named(h, p, Name[c]) = {} THEN m = c
                 ELSE m \in Named(h, p, Name[c]) /\ h.next[m] = NULL
      <3>1. l \in S /\ h.sibling[l] = NULL
        BY <1>10, <2>3
      <3> DEFINE T == Named(h, p, Name[c])
      <3>2. /\ T = OfName(S, Name[c]) /\ InOrder(h.next, T, pos)
            /\ h.next[c] = NULL /\ m = ChainLast(h, Behind(h, l, c), p, c)
        BY <1>0, <2>1 DEF m, Named, h1, l, Chained
      <3> HIDE DEF S, T
      <3>3. ChainEnds(m, T, h.next, c)
        BY ONLY NamesApart, c \in Objects, n \in Nat, pos \in [Objects -> 0 .. n],
                <1>0, <1>2, <1>9, <2>3, <3>1, <3>2, ChainEnd
      <3> QED
        BY <3>3 DEF T, ChainEnds
    <2> QED
      BY <2>1, <2>3
  <1>13. \A x \in S : h.st[x] = "inserted"
    BY <1>0 DEF Children, Alive, Tidy, Placed
  <1>14. /\ \A x \in Objects : x # c /\ (S # {} => x # l) => g.sibling[x] = h.sibling[x]
         /\ \A x \in Objects : x # c /\ (S # {} => x # m) => g.next[x] = h.next[x]
         /\ \A x \in Objects : x # p => g.sons[x] = h.sons[x]
         /\ g.sibling[c] = NULL /\ g.next[c] = NULL
         /\ S # {} => g.sibling[l] = c /\ g.sons[p] = h.sons[p]
         /\ S = {} => g.sons[p] = c
    <2>1. CASE S = {}
      BY <1>0, <1>2, <1>11, <2>1
    <2>2. CASE S # {}
      BY <1>0, <1>2, <1>9, <1>10, <2>2
    <2> QED
      BY <2>1, <2>2
  <1>15. Loose(g)
    <2> SUFFICES ASSUME NEW o \in Objects
                 PROVE  /\ g.st[o] \in {"unused", "fresh"} =>
                             g.sibling[o] = NULL /\ (NamesApart => g.next[o] = NULL)
                        /\ g.st[o] = "unused" => g.sons[o] = NULL
      BY DEF Loose
    <2>1. /\ h.st[o] \in {"unused", "fresh"} =>
                 h.sibling[o] = NULL /\ (NamesApart => h.next[o] = NULL)
          /\ h.st[o] = "unused" => h.sons[o] = NULL
      <3>1. Loose(h)
        BY DEF Tidy
      <3> QED
        BY <3>1 DEF Loose
    <2>2. ASSUME g.st[o] \in {"unused", "fresh"}
          PROVE  g.sibling[o] = NULL /\ (NamesApart => g.next[o] = NULL)
      <3>1. o # c /\ h.st[o] \in {"unused", "fresh"}
        BY <1>3, <2>2
      <3>2. o \notin S
        BY <1>13, <3>1
      <3>3. S # {} => o # l
        BY <1>10, <3>2
      <3>4. NamesApart /\ S # {} => o # m
        BY <1>12, <3>1, <3>2 DEF Named, OfName
      <3> QED
        BY <1>14, <2>1, <3>1, <3>3, <3>4
    <2>3. ASSUME g.st[o] = "unused" PROVE g.sons[o] = NULL
      <3>1. o # c /\ h.st[o] = "unused"
        BY <1>3, <2>3
      <3>2. o # p
        BY <3>1 DEF Alive
      <3> QED
        BY <1>14, <2>1, <3>1, <3>2
    <2> QED
      BY <2>2, <2>3
  <1>16. Lists(g, pos2)
    <2> SUFFICES ASSUME NEW q \in Alive(g)
                 PROVE  /\ Leads(g.sons[q], Children(g, q), pos2)
                        /\ InOrder(g.sibling, Children(g, q), pos2)
      BY DEF Lists
    <2>0. q \in Objects /\ q \in Alive(h)
      BY <1>0, <1>3
    <2>1. CASE q # p
      <3> DEFINE R == Children(h, q)
      <3>1. /\ Children(g, q) = R /\ R \subseteq Objects /\ c \notin R /\ R \cap S = {}
            /\ Leads(h.sons[q], R, pos) /\ InOrder(h.sibling, R, pos)
        BY <1>0, <1>4, <1>7, <2>0, <2>1, ChildrenAre DEF Lists
      <3> HIDE DEF R, pos2
      <3>2. \A x \in R : pos2[x] = pos[x] /\ g.sibling[x] = h.sibling[x]
        BY <1>8, <1>10, <1>14, <3>1
      <3>3. g.sons[q] = h.sons[q]
        BY <1>14, <2>0, <2>1
      <3> QED
        BY <3>1, <3>2, <3>3, ListKept, LeadKept
    <2>2. CASE q = p
      <3>1. InOrder(g.sibling, S \cup {c}, pos2)
        <4>1. \A x \in S : g.sibling[x] = IF x = l THEN c ELSE h.sibling[x]
          BY <1>9, <1>10, <1>14
        <4>2. S # {} => l \in S /\ h.sibling[l] = NULL
          BY <1>10
        <4>3. c \in Objects \ S
          BY <1>9
        <4>4. pos2[c] = n + 1 /\ \A x \in S : pos2[x] = pos[x]
          BY <1>8, <1>9
        <4> HIDE DEF S, pos2
        <4> QED
          BY ONLY <1>9, <1>14, <4>1, <4>2, <4>3, <4>4, n \in Nat,
                  pos \in [Objects -> 0 .. n], ListGrows
      <3>2. Leads(g.sons[p], S \cup {c}, pos2)
        <4>1. CASE S = {}
          BY <1>0, <1>8, <1>14, <4>1 DEF Leads
        <4>2. CASE S # {}
          <5>1. g.sons[p] = h.sons[p] /\ h.sons[p] \in S /\ h.sons[p] # NULL
                /\ \A y \in S : pos[h.sons[p]] <= pos[y]
            BY <1>9, <1>10, <1>14, <4>2 DEF Leads
          <5> QED
            BY <1>8, <1>9, <5>1 DEF Leads
        <4> QED
          BY <4>1, <4>2
      <3> QED
        BY <1>4, <2>2, <3>1, <3>2
    <2> QED
      BY <2>1, <2>2
  <1>17. ASSUME NamesApart PROVE Nexts(g, pos2)
    <2> SUFFICES ASSUME NEW q \in Alive(g), NEW d \in Objects
                 PROVE  InOrder(g.next, Named(g, q, Name[d]), pos2)
      BY DEF Nexts
    <2> DEFINE T == Named(h, q, Name[d])
    <2>0. /\ q \in Objects /\ q \in Alive(h) /\ InOrder(h.next, T, pos)
          /\ T \subseteq Children(h, q) /\ T \subseteq Objects /\ c \notin T
      BY <1>0, <1>3, <1>4, <1>7, <1>17, ChildrenAre DEF Nexts
    <2>1. CASE q # p \/ Name[d] # Name[c]
      <3>1. Named(g, q, Name[d]) = T
        BY <1>4, <2>0, <2>1 DEF Named, OfName
      <3>2. S # {} => m \notin T
        <4> SUFFICES ASSUME S # {} PROVE m \notin T
          OBVIOUS
        <4>1. m = c \/ m \in Named(h, p, Name[c])
          BY <1>12, <1>17
        <4>2. CASE m = c
          BY <2>0, <4>2
        <4>3. CASE m \in Named(h, p, Name[c])
          BY <1>0, <2>0, <2>1, <4>3, ChildrenAre DEF Named, OfName
        <4> QED
          BY <4>1, <4>2, <4>3
      <3> HIDE DEF T, pos2
      <3>3. \A x \in T : pos2[x] = pos[x] /\ g.next[x] = h.next[x]
        BY <1>8, <1>14, <2>0, <3>2
      <3> QED
        BY <2>0, <3>1, <3>3, ListKept
    <2>2. CASE q = p /\ Name[d] = Name[c]
      <3>1. Named(g, q, Name[d]) = T \cup {c}
        BY <1>4, <2>2 DEF Named, OfName
      <3>2. T # {} => S # {} /\ m \in T /\ h.next[m] = NULL
        BY <1>12, <1>17, <2>0, <2>2
      <3>3. \A x \in T : g.next[x] = IF x = m THEN c ELSE h.next[x]
        <4> SUFFICES ASSUME NEW x \in T PROVE g.next[x] = IF x = m THEN c ELSE h.next[x]
          OBVIOUS
        <4>1. S # {} /\ m \in T /\ m \in Objects /\ m # c /\ x # c /\ x \in Objects
          BY <2>0, <3>2
        <4>2. g.next[m] = c
          BY <1>0, <1>2, <1>10, <4>1
        <4> QED
          BY <1>14, <4>1, <4>2
      <3>4. c \in Objects \ T
        BY <2>0
      <3>5. T # {} => m \in T /\ h.next[m] = NULL
        BY <3>2
      <3>6. T \in SUBSET Objects /\ InOrder(h.next, T, pos) /\ g.next[c] = NULL
        BY <1>14, <2>0
      <3>8. pos2[c] = n + 1 /\ \A x \in T : pos2[x] = pos[x]
        BY <1>8, <2>0
      <3> HIDE DEF T, pos2
      <3>7. InOrder(g.next, T \cup {c}, pos2)
        BY ONLY <3>3, <3>4, <3>5, <3>6, <3>8, n \in Nat, pos \in [Objects -> 0 .. n],
                ListGrows
      <3> QED
        BY <3>1, <3>7
    <2> QED
      BY <2>1, <2>2
  <1>18. Ordered(g)
    <2>1. n + 1 \in Nat
      OBVIOUS
    <2> HIDE DEF pos2
    <2> QED
      BY <1>8, <1>16, <1>17, <2>1 DEF Ordered
  <1> QED
    BY <1>2, <1>3, <1>5, <1>15, <1>18 DEF Tidy, g


\* h with o taken from the siblings and from the head of its parent's list, and
\* the first child of its name that is left.
Headed(h, o) ==
    [h EXCEPT !.sibling = Bypass(h.sibling, h.sons[h.parent[o]], o),
              !.sons = [h.sons EXCEPT ![h.parent[o]] = IF @ = o THEN h.sibling[o] ELSE @]]
FirstLeft(h, o) == GetChild(Headed(h, o), h.parent[o], Name[o])

\* The nodes x_object_destroy_no_cb may read when it unlinks o.
Walked(h, o) ==
    {h.parent[o]} \cup Reach(h.sibling, h.sons[h.parent[o]])
                  \cup Reach(Headed(h, o).sibling, Headed(h, o).sons[h.parent[o]])
                  \cup Reach(h.next, FirstLeft(h, o))

\* The pointers x_object_destroy_no_cb writes when it unlinks o.
Cut(g, h, o) ==
    /\ g.sons = Headed(h, o).sons /\ g.sibling = Headed(h, o).sibling
    /\ g.next = Bypass(h.next, FirstLeft(h, o), o)
    /\ g.uaf => h.uaf \/ \E x \in Walked(h, o) : h.st[x] = "freed"

\* A walk that stops early meets no more nodes.
LEMMA UntilReach ==
    ASSUME NEW f, NEW a, NEW o
    PROVE  Until(f, a, o) \subseteq Reach(f, a)
  BY DEF Until

\* Taking o from the lists of its siblings.
LEMMA HeadedLinks ==
    ASSUME NEW h \in Heaps, NEW o \in Objects, h.parent[o] # NULL
    PROVE  /\ Headed(h, o) \in Heaps /\ Headed(h, o).st = h.st /\ Headed(h, o).uaf = h.uaf
           /\ Headed(h, o).sibling = Bypass(h.sibling, h.sons[h.parent[o]], o)
           /\ Headed(h, o).sons = [h.sons EXCEPT ![h.parent[o]] =
                                       IF @ = o THEN h.sibling[o] ELSE @]
  <1> DEFINE p == h.parent[o]
             sib == Bypass(h.sibling, h.sons[p], o)
             sons == [h.sons EXCEPT ![p] = IF @ = o THEN h.sibling[o] ELSE @]
  <1>1. Headed(h, o) = [h EXCEPT !.sibling = sib, !.sons = sons]
    BY DEF Headed
  <1>2. /\ h.sibling \in [Objects -> Pointers] /\ h.sibling[o] \in Pointers
        /\ h.sons \in [Objects -> Pointers] /\ p \in Objects
    BY DEF Heaps, Pointers
  <1>3. sib \in [Objects -> Pointers] /\ sons \in [Objects -> Pointers]
    BY <1>2, BypassType
  <1>4. /\ Headed(h, o) \in Heaps /\ Headed(h, o).st = h.st /\ Headed(h, o).uaf = h.uaf
        /\ Headed(h, o).sibling = sib /\ Headed(h, o).sons = sons
    <2> HIDE DEF sib, sons
    <2> QED BY <1>1, <1>3 DEF Heaps
  <1> QED
    BY <1>4

\* These are the pointers UnlinkDying writes.
LEMMA CutLinks ==
    ASSUME NEW h \in Heaps, NEW o \in Objects, h.parent[o] # NULL
    PROVE  Cut(UnlinkDying(h, o), h, o)
  <1> DEFINE p == h.parent[o]
             k == Headed(h, o)
             first == FirstLeft(h, o)
             w == {p} \cup Until(h.sibling, h.sons[p], o)
                      \cup Until(k.sibling, k.sons[p], first) \cup Until(h.next, first, o)
             nx == Bypass(h.next, first, o)
             pa == [h.parent EXCEPT ![o] = NULL]
             cc == [h.child_count EXCEPT ![p] = @ - 1]
             lk == [h.leak EXCEPT ![p] = @ + 1]
             h2 == Touch(k, w)
  <1>1. UnlinkDying(h, o) =
            [h2 EXCEPT !.next = nx, !.parent = pa, !.child_count = cc, !.leak = lk]
    BY DEF UnlinkDying, Headed, FirstLeft
  <1>2. k \in Heaps /\ k.st = h.st /\ k.uaf = h.uaf
    BY HeadedLinks
  <1> HIDE DEF k, first, w
  <1>3. /\ h2 \in Heaps /\ h2.sons = k.sons /\ h2.sibling = k.sibling
        /\ h2.uaf => h.uaf \/ \E x \in w : h.st[x] = "freed"
    BY <1>2 DEF Touch, Heaps
  <1>4. w \subseteq Walked(h, o)
    BY UntilReach DEF w, Walked, k, first
  <1> HIDE DEF h2, nx, pa, cc, lk
  <1> DEFINE g == [h2 EXCEPT !.next = nx, !.parent = pa, !.child_count = cc, !.leak = lk]
  <1>5. g.sons = h2.sons /\ g.sibling = h2.sibling /\ g.next = nx /\ g.uaf = h2.uaf
    BY <1>3 DEF Heaps
  <1> HIDE DEF g
  <1>6. Cut(g, h, o)
    BY <1>3, <1>4, <1>5 DEF Cut, nx, k, first
  <1> QED
    BY <1>1, <1>6 DEF g

\* Destroying a node that is on no list keeps the tree tidy.
LEMMA DestroyLooseTidy ==
    ASSUME NEW h, Tidy(h), NEW o \in Alive(h), h.parent[o] = NULL, Children(h, o) = {},
           Placed(Destroy(h, o))
    PROVE  Tidy(Destroy(h, o)) /\ Destroy(h, o).uaf = h.uaf
  <1> DEFINE g == Destroy(h, o)
  <1>0. h \in Heaps /\ Loose(h) /\ Rooted(h) /\ Ordered(h) /\ o \in Objects
    BY DEF Tidy, Alive
  <1>1. /\ g \in Heaps /\ g.st = [h.st EXCEPT ![o] = "freed"] /\ g.parent = h.parent
        /\ g.sons = h.sons /\ g.sibling = h.sibling /\ g.next = h.next /\ g.uaf = h.uaf
    BY <1>0 DEF Destroy, Heaps, Status
  <1> HIDE DEF g
  <1>2. /\ Alive(g) = Alive(h) \ {o}
        /\ \A x \in Objects : g.st[x] = IF x = o THEN "freed" ELSE h.st[x]
    BY <1>0, <1>1 DEF Alive, Heaps
  <1>3. \A q \in Objects : Children(g, q) = Children(h, q)
    BY <1>1, <1>2, ObjectsAssumption DEF Children
  <1>4. Alive(h) \subseteq Objects
    BY DEF Alive
  <1>5. Loose(g)
    BY <1>0, <1>1, <1>2 DEF Loose
  <1>6. Rooted(g)
    <2> SUFFICES ASSUME NEW x \in Alive(g), g.parent[x] # NULL PROVE g.parent[x] \in Alive(g)
      BY DEF Rooted
    <2>1. x \in Alive(h) /\ h.parent[x] \in Alive(h)
      BY <1>0, <1>1, <1>2 DEF Rooted
    <2>2. h.parent[x] # o
      BY <2>1 DEF Children
    <2> QED
      BY <1>1, <1>2, <2>1, <2>2
  <1>7. \A pos : Lists(h, pos) => Lists(g, pos)
    BY <1>1, <1>2, <1>3, <1>4 DEF Lists
  <1>8. \A pos : Nexts(h, pos) => Nexts(g, pos)
    BY <1>1, <1>2, <1>3, <1>4 DEF Nexts, Named
  <1>9. Ordered(g)
    BY <1>0, <1>7, <1>8 DEF Ordered
  <1>10. Placed(g)
    BY DEF g
  <1> QED
    BY <1>1, <1>5, <1>6, <1>9, <1>10 DEF Tidy, g

\* Destroying a leaf that is still linked keeps the tree tidy and reads no freed
\* node.
LEMMA DestroyLinkedTidy ==
    ASSUME NEW h, Tidy(h), NEW o \in Alive(h), h.parent[o] # NULL, Children(h, o) = {},
           Placed(Destroy(h, o))
    PROVE  /\ Tidy(Destroy(h, o))
           /\ NamesApart /\ ~h.uaf => ~Destroy(h, o).uaf
  <1> DEFINE g == Destroy(h, o)
             p == h.parent[o]
             S == Children(h, p)
             T == Named(h, p, Name[o])
             k == Headed(h, o)
             first == FirstLeft(h, o)
             u == UnlinkDying(h, o)
  <1>0. /\ h \in Heaps /\ Placed(h) /\ Loose(h) /\ Rooted(h) /\ Ordered(h) /\ o \in Objects
        /\ Alive(h) \subseteq Objects
    BY DEF Tidy, Alive
  <1>1. p \in Alive(h) /\ p \in Objects /\ p # o /\ o \in S /\ o # NULL
    BY <1>0, ObjectsAssumption DEF Rooted, Placed, Children
  <1>2. UnlinkedDying(u, h, o) /\ Cut(u, h, o)
    BY <1>0, UnlinkDyingType, CutLinks
  <1>3. /\ g \in Heaps /\ g.sons = u.sons /\ g.sibling = u.sibling /\ g.next = u.next
        /\ g.uaf = u.uaf /\ g.parent = [h.parent EXCEPT ![o] = NULL]
        /\ g.st = [h.st EXCEPT ![o] = "freed"]
    <2>1. g = [u EXCEPT !.st = [u.st EXCEPT ![o] = "freed"]]
      BY DEF Destroy
    <2> HIDE DEF u, g
    <2> QED
      BY <1>0, <1>2, <2>1 DEF UnlinkedDying, Heaps, Status
  <1>4. /\ k \in Heaps /\ k.sibling = Bypass(h.sibling, h.sons[p], o)
        /\ k.sons = [h.sons EXCEPT ![p] = IF @ = o THEN h.sibling[o] ELSE @]
    BY <1>0, HeadedLinks
  <1>5. /\ \A x \in Objects : g.st[x] = IF x = o THEN "freed" ELSE h.st[x]
        /\ \A x \in Objects : g.parent[x] = IF x = o THEN NULL ELSE h.parent[x]
        /\ k.sons[p] = IF h.sons[p] = o THEN h.sibling[o] ELSE h.sons[p]
        /\ \A x \in Objects \ {p} : k.sons[x] = h.sons[x]
        /\ g.sons = k.sons /\ g.sibling = k.sibling
        /\ g.next = Bypass(h.next, first, o)
        /\ g.uaf => h.uaf \/ \E x \in Walked(h, o) : h.st[x] = "freed"
    <2> HIDE DEF g, u, k, first
    <2>1. \A x \in Objects : g.st[x] = IF x = o THEN "freed" ELSE h.st[x]
      BY <1>0, <1>3 DEF Heaps
    <2>2. \A x \in Objects : g.parent[x] = IF x = o THEN NULL ELSE h.parent[x]
      BY <1>0, <1>3 DEF Heaps
    <2>3. /\ k.sons[p] = IF h.sons[p] = o THEN h.sibling[o] ELSE h.sons[p]
          /\ \A x \in Objects \ {p} : k.sons[x] = h.sons[x]
      BY <1>0, <1>1, <1>4 DEF Heaps
    <2>4. /\ g.sons = k.sons /\ g.sibling = k.sibling
          /\ g.next = Bypass(h.next, first, o)
          /\ g.uaf => h.uaf \/ \E x \in Walked(h, o) : h.st[x] = "freed"
      BY <1>2, <1>3 DEF Cut, k, first
    <2> QED
      BY <2>1, <2>2, <2>3, <2>4
  <1> HIDE DEF g, u, k, first
  <1>6. Alive(g) = Alive(h) \ {o} /\ Alive(g) \subseteq Objects
    BY <1>0, <1>5 DEF Alive
  <1>7. \A q \in Objects : Children(g, q) = Children(h, q) \ {o}
    BY <1>0, <1>5, <1>6 DEF Children
  <1>8. \A q \in Objects \ {p} : Children(g, q) = Children(h, q) /\ o \notin Children(h, q)
    BY <1>7 DEF Children
  <1>9. Rooted(g)
    <2> SUFFICES ASSUME NEW x \in Alive(g), g.parent[x] # NULL PROVE g.parent[x] \in Alive(g)
      BY DEF Rooted
    <2>1. x \in Alive(h) /\ x # o /\ x \in Objects /\ g.parent[x] = h.parent[x]
      BY <1>0, <1>5, <1>6
    <2>2. h.parent[x] \in Alive(h)
      BY <1>0, <2>1 DEF Rooted
    <2>3. h.parent[x] # o
      BY <2>1 DEF Children
    <2> QED
      BY <1>6, <2>1, <2>2, <2>3
  <1>10. PICK n \in Nat : \E pos \in [Objects -> 0 .. n] :
            Lists(h, pos) /\ (NamesApart => Nexts(h, pos))
    BY <1>0 DEF Ordered
  <1>11. PICK pos \in [Objects -> 0 .. n] : Lists(h, pos) /\ (NamesApart => Nexts(h, pos))
    BY <1>10
  <1>12. pos \in [Objects -> Nat]
    OBVIOUS
  <1>13. /\ S \in SUBSET Objects /\ InOrder(h.sibling, S, pos) /\ Leads(h.sons[p], S, pos)
         /\ \A x \in S : h.st[x] = "inserted" /\ x \in Alive(h) /\ h.parent[x] = p
    <2>1. S \in SUBSET Objects /\ InOrder(h.sibling, S, pos) /\ Leads(h.sons[p], S, pos)
      BY <1>0, <1>1, <1>11, ChildrenAre DEF Lists
    <2>2. \A x \in S : x \in Alive(h) /\ h.parent[x] = p /\ x \in Objects
      BY <1>0 DEF Children
    <2> QED
      BY <1>0, <2>1, <2>2 DEF Placed
  <1>14. Reach(h.sibling, h.sons[p]) = S
    BY ONLY <1>12, <1>13, ReachList
  <1>15. \A x \in Objects \ {o} : g.sibling[x] =
            IF x \in S /\ h.sibling[x] = o THEN h.sibling[o] ELSE h.sibling[x]
    BY <1>4, <1>5, <1>14 DEF Bypass
  <1>16. InOrder(g.sibling, S \ {o}, pos)
    <2>1. \A x \in S \ {o} :
              g.sibling[x] = IF h.sibling[x] = o THEN h.sibling[o] ELSE h.sibling[x]
      BY <1>13, <1>15
    <2> HIDE DEF S
    <2> QED
      BY ONLY <1>1, <1>12, <1>13, <2>1, ListShrinks
  <1>17. Leads(g.sons[p], S \ {o}, pos)
    <2>1. g.sons[p] = IF h.sons[p] = o THEN h.sibling[o] ELSE h.sons[p]
      BY <1>5
    <2> HIDE DEF S
    <2>2. Leads(IF h.sons[p] = o THEN h.sibling[o] ELSE h.sons[p], S \ {o}, pos)
      BY ONLY <1>1, <1>12, <1>13, LeadMoves
    <2> QED
      BY <2>1, <2>2
  <1>18. Lists(g, pos)
    <2> SUFFICES ASSUME NEW q \in Alive(g)
                 PROVE  /\ Leads(g.sons[q], Children(g, q), pos)
                        /\ InOrder(g.sibling, Children(g, q), pos)
      BY DEF Lists
    <2>0. q \in Objects /\ q \in Alive(h)
      BY <1>6
    <2>1. CASE q = p
      BY <1>7, <1>16, <1>17, <2>0, <2>1
    <2>2. CASE q # p
      <3> DEFINE R == Children(h, q)
      <3>1. /\ Children(g, q) = R /\ R \subseteq Objects /\ o \notin R /\ R \cap S = {}
            /\ Leads(h.sons[q], R, pos) /\ InOrder(h.sibling, R, pos)
        BY <1>1, <1>8, <1>11, <2>0, <2>2, ChildrenAre DEF Lists
      <3>2. g.sons[q] = h.sons[q]
        BY <1>5, <2>0, <2>2
      <3> HIDE DEF R, S
      <3>3. \A x \in R : g.sibling[x] = h.sibling[x] /\ pos[x] = pos[x]
        BY <1>15, <3>1
      <3>4. InOrder(g.sibling, R, pos)
        BY ONLY <3>1, <3>3, ListKept
      <3> QED
        BY <3>1, <3>2, <3>4
    <2> QED
      BY <2>1, <2>2
  <1>19. ASSUME NamesApart
         PROVE  /\ InOrder(h.next, T, pos) /\ T \subseteq S /\ o \in T
                /\ Reach(h.next, first) \subseteq T
                /\ \A x \in Objects \ {o} : g.next[x] =
                       IF x \in T /\ h.next[x] = o THEN h.next[o] ELSE h.next[x]
    <2>1. InOrder(h.next, T, pos) /\ T \subseteq S /\ o \in T /\ T \in SUBSET Objects
      BY <1>0, <1>1, <1>11, <1>13, <1>19 DEF Nexts, Named, OfName
    <2>2. Leads(first, OfName(S \ {o}, Name[o]), pos)
      <3>1. /\ S \ {o} \in SUBSET Objects
            /\ InOrder(k.sibling, S \ {o}, pos) /\ Leads(k.sons[p], S \ {o}, pos)
        BY <1>5, <1>13, <1>16, <1>17
      <3> DEFINE S2 == S \ {o}
      <3> HIDE DEF S2, S
      <3>2. Leads(GetChild(k, p, Name[o]), OfName(S2, Name[o]), pos)
        BY ONLY <1>0, <1>12, <1>19, <3>1, ChildFound DEF S2
      <3> QED
        BY <3>2 DEF S2, first, FirstLeft, k
    <2>3. OfName(S \ {o}, Name[o]) = T \ {o}
      BY DEF OfName, Named
    <2>4. T \ {o} \subseteq Reach(h.next, first) /\ Reach(h.next, first) \subseteq T
      <3>1. CASE first = NULL
        <4>1. T \ {o} = {}
          BY <2>2, <2>3, <3>1 DEF Leads
        <4>2. Reach(h.next, NULL) = {}
          BY DEF Reach
        <4> QED
          BY <3>1, <4>1, <4>2
      <3>2. CASE first # NULL
        <4>1. first \in T /\ \A y \in T \ {o} : pos[first] <= pos[y]
          BY <2>2, <2>3, <3>2 DEF Leads
        <4>2. /\ \A x \in T : Follows(h.next, T, pos, x)
              /\ \A x, y \in T : pos[x] = pos[y] => x = y
          BY <2>1 DEF InOrder
        <4> HIDE DEF T
        <4>3. Reach(h.next, first) = {y \in T : pos[first] <= pos[y]}
          BY ONLY <1>12, <2>1, <4>1, <4>2, ReachBehind
        <4> QED
          BY <4>1, <4>3
      <3> QED
        BY <3>1, <3>2
    <2>5. \A x \in Objects \ {o} : x \in Reach(h.next, first) <=> x \in T
      BY <2>4
    <2>6. \A x \in Objects \ {o} : g.next[x] =
              IF x \in T /\ h.next[x] = o THEN h.next[o] ELSE h.next[x]
      BY <1>5, <2>5 DEF Bypass
    <2> QED
      BY <2>1, <2>4, <2>6
  <1>20. ASSUME NamesApart PROVE Nexts(g, pos)
    <2> SUFFICES ASSUME NEW q \in Alive(g), NEW d \in Objects
                 PROVE  InOrder(g.next, Named(g, q, Name[d]), pos)
      BY DEF Nexts
    <2> DEFINE R == Named(h, q, Name[d])
    <2>0. /\ q \in Objects /\ q \in Alive(h) /\ InOrder(h.next, R, pos)
          /\ R \subseteq Children(h, q) /\ R \in SUBSET Objects
      BY <1>6, <1>11, <1>20, ChildrenAre DEF Nexts
    <2>1. CASE q # p \/ Name[d] # Name[o]
      <3>1. Named(g, q, Name[d]) = R /\ o \notin R
        BY <1>7, <1>8, <2>0, <2>1 DEF Named, OfName
      <3>2. R \cap T = {}
        BY <1>1, <2>0, <2>1, ChildrenAre DEF Named, OfName
      <3> HIDE DEF R, T
      <3>3. \A x \in R : g.next[x] = h.next[x] /\ pos[x] = pos[x]
        BY <1>19, <1>20, <2>0, <3>1, <3>2
      <3>4. InOrder(g.next, R, pos)
        BY ONLY <2>0, <3>3, ListKept
      <3> QED
        BY <3>1, <3>4
    <2>2. CASE q = p /\ Name[d] = Name[o]
      <3>1. Named(g, q, Name[d]) = R \ {o} /\ R = T
        BY <1>7, <2>0, <2>2 DEF Named, OfName
      <3> HIDE DEF R, T
      <3>2. \A x \in R \ {o} : g.next[x] = IF h.next[x] = o THEN h.next[o] ELSE h.next[x]
        BY <1>19, <1>20, <2>0, <3>1
      <3>3. o \in R
        BY <1>19, <1>20, <3>1
      <3>4. InOrder(g.next, R \ {o}, pos)
        BY ONLY <1>12, <2>0, <3>2, <3>3, ListShrinks
      <3> QED
        BY <3>1, <3>4
    <2> QED
      BY <2>1, <2>2
  <1>21. Ordered(g)
    BY <1>18, <1>20 DEF Ordered
  <1>22. Loose(g)
    <2> SUFFICES ASSUME NEW x \in Objects
                 PROVE  /\ g.st[x] \in {"unused", "fresh"} =>
                             g.sibling[x] = NULL /\ (NamesApart => g.next[x] = NULL)
                        /\ g.st[x] = "unused" => g.sons[x] = NULL
      BY DEF Loose
    <2>1. ASSUME g.st[x] \in {"unused", "fresh"}
          PROVE  g.sibling[x] = NULL /\ (NamesApart => g.next[x] = NULL)
      <3>1. x # o /\ h.st[x] \in {"unused", "fresh"}
        BY <1>5, <2>1
      <3>2. x \notin S
        BY <1>13, <3>1
      <3>3. h.sibling[x] = NULL /\ (NamesApart => h.next[x] = NULL)
        BY <1>0, <3>1 DEF Loose
      <3> HIDE DEF S, T
      <3> QED
        BY <1>15, <1>19, <3>1, <3>2, <3>3
    <2>2. ASSUME g.st[x] = "unused" PROVE g.sons[x] = NULL
      <3>1. x # o /\ h.st[x] = "unused"
        BY <1>5, <2>2
      <3>2. x # p
        BY <1>1, <3>1 DEF Alive
      <3>3. h.sons[x] = NULL
        BY <1>0, <3>1 DEF Loose
      <3> QED
        BY <1>5, <3>2, <3>3
    <2> QED
      BY <2>1, <2>2
  <1>23. ASSUME NamesApart, ~h.uaf PROVE ~g.uaf
    <2> SUFFICES ASSUME NEW x \in Walked(h, o) PROVE h.st[x] # "freed"
      BY <1>5, <1>23
    <2>1. Reach(k.sibling, k.sons[p]) = S \ {o}
      <3>1. S \ {o} \in SUBSET Objects
        BY <1>13
      <3> DEFINE S2 == S \ {o}
      <3>2. InOrder(k.sibling, S2, pos) /\ Leads(k.sons[p], S2, pos)
        BY <1>5, <1>16, <1>17
      <3> HIDE DEF S2, S
      <3>3. Reach(k.sibling, k.sons[p]) = S2
        BY ONLY <1>12, <3>1, <3>2, ReachList DEF S2
      <3> QED
        BY <3>3 DEF S2
    <2>2. x = p \/ x \in S
      BY <1>14, <1>19, <1>23, <2>1 DEF Walked, k, first
    <2> QED
      BY <1>1, <1>13, <2>2 DEF Alive
  <1>24. Placed(g)
    BY DEF g
  <1> QED
    BY <1>3, <1>9, <1>21, <1>22, <1>23, <1>24 DEF Tidy, g

-----------------------------------------------------------------------------
(* Callers that never use _RMOV. *)

\* The lists are in order and, unless a name is a prefix of another, no freed
\* node was reached.
Sound(h) == Tidy(h) /\ (NamesApart => ~h.uaf)

\* What the lists of a tidy tree lead to.
LEMMA ListsExact ==
    ASSUME NEW h, Tidy(h), NEW p \in Alive(h)
    PROVE  /\ OnList(h, p) = Children(h, p)
           /\ NamesApart =>
                \A c \in Objects :
                    /\ SameNamed(h, p, Name[c]) \subseteq Children(h, p)
                    /\ Reach(h.next, GetChild(h, p, Name[c])) = Named(h, p, Name[c])
  <1> DEFINE S == Children(h, p)
  <1>0. p \in Objects /\ Ordered(h)
    BY DEF Alive, Tidy
  <1>1. PICK n \in Nat : \E pos \in [Objects -> 0 .. n] :
            Lists(h, pos) /\ (NamesApart => Nexts(h, pos))
    BY <1>0 DEF Ordered
  <1>2. PICK pos \in [Objects -> 0 .. n] : Lists(h, pos) /\ (NamesApart => Nexts(h, pos))
    BY <1>1
  <1>3. pos \in [Objects -> Nat]
    OBVIOUS
  <1>4. S \in SUBSET Objects /\ InOrder(h.sibling, S, pos) /\ Leads(h.sons[p], S, pos)
    BY <1>0, <1>2, ChildrenAre DEF Lists
  <1> HIDE DEF S
  <1>5. Reach(h.sibling, h.sons[p]) = S
    BY ONLY <1>3, <1>4, ReachList
  <1>6. ASSUME NamesApart, NEW c \in Objects
        PROVE  /\ SameNamed(h, p, Name[c]) \subseteq S
               /\ Reach(h.next, GetChild(h, p, Name[c])) = Named(h, p, Name[c])
    <2> DEFINE T == Named(h, p, Name[c])
               f == GetChild(h, p, Name[c])
    <2>1. InOrder(h.next, T, pos) /\ T \in SUBSET Objects /\ T \subseteq S
      BY <1>0, <1>2, <1>6, ChildrenAre DEF Nexts, S
    <2>2. Leads(f, OfName(S, Name[c]), pos)
      BY ONLY <1>3, <1>4, <1>6, ChildFound
    <2>3. OfName(S, Name[c]) = T
      BY DEF Named, S
    <2>4. Leads(f, T, pos)
      BY <2>2, <2>3
    <2> HIDE DEF T, f
    <2>5. Reach(h.next, f) = T
      BY ONLY <1>3, <2>1, <2>4, ReachList
    <2>6. Until(h.sibling, h.sons[p], f) \subseteq S
      BY <1>5, UntilReach
    <2>7. SameNamed(h, p, Name[c]) \subseteq S
      BY <2>1, <2>5, <2>6 DEF SameNamed, f
    <2> QED
      BY <2>5, <2>7 DEF T, f
  <1> QED
    BY <1>5, <1>6 DEF OnList, S

\* A change of counters.
LEMMA SameLinksSound ==
    ASSUME NEW g \in Heaps, NEW h, Sound(h), SameLinks(g, h), Placed(g), g.uaf = h.uaf
    PROVE  Sound(g)
  BY SameLinksTidy DEF Sound

\* Reading nodes none of which is freed.
LEMMA TouchSound ==
    ASSUME NEW h, Sound(h), NEW S, NamesApart => \A x \in S : h.st[x] # "freed"
    PROVE  Sound(Touch(h, S)) /\ Touch(h, S).st = h.st
  <1> DEFINE g == Touch(h, S)
  <1>0. h \in Heaps /\ Placed(h)
    BY DEF Sound, Tidy
  <1>1. g \in Heaps /\ SameLinks(g, h)
    BY <1>0 DEF Touch, Heaps, SameLinks
  <1>2. Placed(g)
    BY <1>0, TouchType DEF Placed, SameTree
  <1>3. NamesApart => ~g.uaf
    BY <1>0 DEF Touch, Heaps, Sound
  <1> HIDE DEF g
  <1>4. Tidy(g)
    BY <1>1, <1>2, SameLinksTidy DEF Sound
  <1>5. Sound(g) /\ g.st = h.st
    BY <1>1, <1>3, <1>4 DEF Sound, SameLinks
  <1> QED
    BY <1>5 DEF g

\* x_object_ref_get of a live node.
LEMMA IncSound ==
    ASSUME NEW h, Sound(h), NEW o \in Alive(h)
    PROVE  Sound(RefInc(h, o)) /\ RefInc(h, o).st = h.st
  <1> DEFINE r == [h.rc EXCEPT ![o] = @ + 1]
             g == [h EXCEPT !.rc = r]
  <1>0. h \in Heaps /\ Placed(h) /\ o \in Objects /\ h.st[o] # "freed"
    BY DEF Sound, Tidy, Alive
  <1>1. RefInc(h, o) = g
    BY <1>0 DEF RefInc
  <1>2. r \in [Objects -> Int]
    BY <1>0 DEF Heaps
  <1> HIDE DEF r
  <1>3. /\ g \in Heaps /\ SameLinks(g, h) /\ g.uaf = h.uaf
        /\ g.leak = h.leak /\ g.child_count = h.child_count
    BY <1>0, <1>2 DEF Heaps, SameLinks
  <1> HIDE DEF g
  <1>4. Placed(g)
    BY <1>0, <1>3 DEF Placed, SameLinks
  <1> QED
    BY <1>1, <1>3, <1>4, SameLinksSound DEF SameLinks

\* Program code takes a reference.
LEMMA GetSound ==
    ASSUME NEW h, Sound(h), NEW o \in Alive(h)
    PROVE  Sound(RefInc(Hold(h, o, 1), o))
  <1> DEFINE t == [h.held EXCEPT ![o] = @ + 1]
             g == [h EXCEPT !.held = t]
  <1>0. h \in Heaps /\ Placed(h) /\ o \in Objects /\ h.st[o] # "freed"
    BY DEF Sound, Tidy, Alive
  <1>1. Hold(h, o, 1) = g
    BY <1>0 DEF Hold
  <1>2. t \in [Objects -> Int]
    BY <1>0 DEF Heaps
  <1> HIDE DEF t
  <1>3. /\ g \in Heaps /\ SameLinks(g, h) /\ g.uaf = h.uaf
        /\ g.leak = h.leak /\ g.child_count = h.child_count
    BY <1>0, <1>2 DEF Heaps, SameLinks
  <1> HIDE DEF g
  <1>4. Placed(g)
    BY <1>0, <1>3 DEF Placed, SameLinks
  <1>5. Sound(g) /\ o \in Alive(g)
    BY <1>3, <1>4, SameLinksSound DEF SameLinks, Alive
  <1> QED
    BY <1>1, <1>5, IncSound

\* A handler gives a reference back: the last one goes only when there are no
\* children, because each of them holds one.
LEMMA PutSound ==
    ASSUME NEW h, Sound(h), Settled(h), NEW o \in Alive(h),
           h.held[o] >= 1 \/ Children(h, o) = {}
    PROVE  Sound(PutH(h, o))
  <1> DEFINE t == [h.held EXCEPT ![o] = @ + (-1)]
             k == [h EXCEPT !.held = t]
             r == [k.rc EXCEPT ![o] = @ - 1]
             g == [k EXCEPT !.rc = r]
  <1>0. h \in Heaps /\ Placed(h) /\ o \in Objects /\ h.st[o] # "freed"
    BY DEF Sound, Tidy, Alive
  <1>1. t \in [Objects -> Int]
    BY <1>0 DEF Heaps
  <1>2. /\ k \in Heaps /\ SameLinks(k, h) /\ k.uaf = h.uaf /\ k.rc = h.rc
        /\ k.leak = h.leak /\ k.child_count = h.child_count
    <2> HIDE DEF t
    <2> QED BY <1>0, <1>1 DEF Heaps, SameLinks
  <1>3. Hold(h, o, -1) = k
    BY <1>0 DEF Hold
  <1> HIDE DEF k
  <1>4. r \in [Objects -> Int] /\ r[o] = h.rc[o] - 1
    BY <1>0, <1>2 DEF Heaps
  <1>5. PutH(h, o) = IF g.rc[o] <= 0 THEN Destroy(g, o) ELSE g
    BY <1>0, <1>2, <1>3 DEF PutH, RefDec, SameLinks
  <1> HIDE DEF r
  <1>6. /\ g \in Heaps /\ SameLinks(g, h) /\ g.uaf = h.uaf /\ g.rc = r
        /\ g.leak = h.leak /\ g.child_count = h.child_count
    BY <1>2, <1>4 DEF Heaps, SameLinks
  <1> HIDE DEF g
  <1>7. Placed(g)
    BY <1>0, <1>6 DEF Placed, SameLinks
  <1>8. Sound(g) /\ o \in Alive(g) /\ Children(g, o) = Children(h, o)
    BY <1>6, <1>7, SameLinksSound DEF SameLinks, Alive, Children
  <1>9. CASE g.rc[o] <= 0
    <2>1. Children(h, o) = {}
      <3> SUFFICES ASSUME h.held[o] >= 1 PROVE Children(h, o) = {}
        OBVIOUS
      <3>1. h.rc[o] = h.held[o] + Linked(h, o) + Cardinality(Children(h, o)) + h.leak[o]
        BY DEF Settled, Good, BalancedAs
      <3>2. /\ h.rc[o] \in Int /\ h.held[o] \in Int /\ h.leak[o] \in Nat
            /\ Linked(h, o) \in Nat /\ Cardinality(Children(h, o)) \in Nat
        BY <1>0, ChildrenFinite DEF Heaps, Linked
      <3>3. h.rc[o] <= 1
        BY <1>4, <1>6, <1>9, <3>2
      <3>4. Cardinality(Children(h, o)) = 0
        BY <3>1, <3>2, <3>3
      <3> QED
        BY <3>4, ChildrenFinite, FS_EmptySet
    <2>2. PutH(h, o) = Destroy(g, o)
      BY <1>5, <1>9
    <2>3. Placed(Destroy(g, o))
      <3>1. Settled(PutH(h, o))
        BY <1>0, PutGood
      <3> QED
        BY <2>2, <3>1 DEF Settled, Good
    <2>4. Tidy(Destroy(g, o)) /\ (NamesApart => ~Destroy(g, o).uaf)
      <3>1. Tidy(g) /\ (NamesApart => ~g.uaf) /\ Children(g, o) = {}
        BY <1>8, <2>1 DEF Sound
      <3>2. CASE g.parent[o] = NULL
        BY <1>8, <2>3, <3>1, <3>2, DestroyLooseTidy
      <3>3. CASE g.parent[o] # NULL
        BY <1>8, <2>3, <3>1, <3>3, DestroyLinkedTidy
      <3> QED
        BY <3>2, <3>3
    <2> QED
      BY <2>2, <2>4 DEF Sound
  <1>10. CASE ~(g.rc[o] <= 0)
    BY <1>5, <1>8, <1>10
  <1> QED
    BY <1>9, <1>10

\* Linking an object that was just created.
LEMMA AppendSound ==
    ASSUME NEW h, Sound(h), Settled(h), NEW p \in Alive(h), NEW c \in Objects,
           h.st[c] = "fresh", p # c
    PROVE  Sound(AppendH(h, p, c))
  <1> DEFINE w == OnList(h, p) \cup SameNamed(h, p, Name[c])
             k == Touch(h, w)
             m == InsertIntoTree(k, p, c)
             n == RefInc(m, p)
  <1>0. AppendH(h, p, c) = RefInc(n, c)
    BY DEF AppendH
  <1>1. Tidy(h) /\ h \in Heaps
    BY DEF Sound, Tidy
  <1>2. NamesApart => \A x \in w : h.st[x] # "freed"
    <2>1. \A x \in Children(h, p) : h.st[x] # "freed"
      BY DEF Children, Alive
    <2>2. NamesApart => w \subseteq Children(h, p)
      BY <1>1, ListsExact
    <2> QED
      BY <2>1, <2>2
  <1> HIDE DEF w
  <1>3. Sound(k) /\ k.st = h.st
    BY <1>2, TouchSound
  <1>4. k \in Heaps /\ Good(k, h.held) /\ p \in Alive(k) /\ c \in Alive(k) /\ k.st[c] = "fresh"
    BY <1>1, <1>3, TouchGood, TouchType DEF Settled, Alive
  <1> HIDE DEF k
  <1>5. k.parent[c] = NULL
    BY <1>4 DEF Good, Placed
  <1>6. Placed(m)
    <2>1. Good(m, [h.held EXCEPT ![p] = @ - 1, ![c] = @ - 1])
      BY <1>4, <1>5, InsertGood
    <2> QED
      BY <2>1 DEF Good
  <1>7. Tidy(k)
    BY <1>3 DEF Sound
  <1>8. Tidy(m) /\ m.uaf = k.uaf
    BY <1>4, <1>6, <1>7, InsertTidy
  <1>9. Inserted(m, k, p, c)
    <2>1. p \in Objects
      BY DEF Alive
    <2> QED BY <1>4, <2>1, InsertType
  <1> HIDE DEF m
  <1>10. Sound(m) /\ p \in Alive(m) /\ c \in Alive(m)
    BY <1>3, <1>4, <1>8, <1>9 DEF Sound, Inserted, Alive, Heaps
  <1>11. Sound(n) /\ n.st = m.st
    BY <1>10, IncSound
  <1> HIDE DEF n
  <1>12. c \in Alive(n)
    BY <1>10, <1>11 DEF Alive
  <1> QED
    BY <1>0, <1>11, <1>12, IncSound

\* Allocating an object.
LEMMA NewSound ==
    ASSUME IInv, Sound(heap), NEW o \in Objects, New(o)
    PROVE  Sound(heap')
  <1> DEFINE ss == [heap.st EXCEPT ![o] = "fresh"]
             r == [heap.rc EXCEPT ![o] = 1]
             t == [heap.held EXCEPT ![o] = 1]
  <1>0. /\ heap \in Heaps /\ Placed(heap) /\ Loose(heap) /\ Rooted(heap) /\ Ordered(heap)
        /\ heap.st[o] = "unused" /\ (NamesApart => ~heap.uaf)
    BY DEF Sound, Tidy, New
  <1>1. heap' = [heap EXCEPT !.st = ss, !.rc = r, !.held = t]
    BY DEF New
  <1>2. /\ heap'.st = ss /\ heap'.parent = heap.parent /\ heap'.sons = heap.sons
        /\ heap'.sibling = heap.sibling /\ heap'.next = heap.next /\ heap'.uaf = heap.uaf
    <2> HIDE DEF ss, r, t
    <2> QED BY <1>0, <1>1 DEF Heaps
  <1>3. heap' \in Heaps /\ Placed(heap')
    BY NewGood DEF IInv, Settled, Good
  <1>4. /\ \A x \in Objects : heap'.st[x] = IF x = o THEN "fresh" ELSE heap.st[x]
        /\ Alive(heap') = Alive(heap) \cup {o} /\ Alive(heap) \subseteq Objects
    BY <1>0, <1>2 DEF Alive, Heaps
  <1>5. \A q \in Objects : Children(heap', q) = Children(heap, q)
    BY <1>0, <1>2, <1>4, ObjectsAssumption DEF Children, Placed
  <1>6. Children(heap, o) = {}
    BY <1>0, <1>4, ObjectsAssumption DEF Children, Placed
  <1>7. Loose(heap')
    BY <1>0, <1>2, <1>4 DEF Loose
  <1>8. Rooted(heap')
    BY <1>0, <1>2, <1>4, ObjectsAssumption DEF Rooted, Placed
  <1>9. heap.sons[o] = NULL
    BY <1>0 DEF Loose
  <1>10. \A pos : Lists(heap, pos) => Lists(heap', pos)
    <2> SUFFICES ASSUME NEW pos, Lists(heap, pos), NEW q \in Alive(heap')
                 PROVE  /\ Leads(heap'.sons[q], Children(heap', q), pos)
                        /\ InOrder(heap'.sibling, Children(heap', q), pos)
      BY DEF Lists
    <2>1. CASE q = o
      BY <1>2, <1>5, <1>6, <1>9, <2>1 DEF Leads, InOrder
    <2>2. CASE q # o
      BY <1>2, <1>4, <1>5, <2>2 DEF Lists
    <2> QED
      BY <2>1, <2>2
  <1>11. \A pos : Nexts(heap, pos) => Nexts(heap', pos)
    <2> SUFFICES ASSUME NEW pos, Nexts(heap, pos), NEW q \in Alive(heap'), NEW d \in Objects
                 PROVE  InOrder(heap'.next, Named(heap', q, Name[d]), pos)
      BY DEF Nexts
    <2>0. Named(heap', q, Name[d]) = Named(heap, q, Name[d])
      BY <1>4, <1>5 DEF Named
    <2>1. CASE q = o
      <3>1. Named(heap, q, Name[d]) = {}
        BY <1>6, <2>1 DEF Named, OfName
      <3> QED
        BY <2>0, <3>1 DEF InOrder
    <2>2. CASE q # o
      BY <1>2, <1>4, <2>0, <2>2 DEF Nexts
    <2> QED
      BY <2>1, <2>2
  <1>12. Ordered(heap')
    BY <1>0, <1>10, <1>11 DEF Ordered
  <1> QED
    BY <1>0, <1>2, <1>3, <1>7, <1>8, <1>12 DEF Sound, Tidy

\* A step of a caller that never uses _RMOV keeps the lists in order.
LEMMA StanzaSound ==
    ASSUME IInv, Sound(heap), StanzaNext
    PROVE  Sound(heap')
  <1>0. heap \in Heaps /\ Settled(heap) /\ Tidy(heap)
    BY DEF IInv, Settled, Good, Sound
  <1>00. \A p \in Alive(heap) : \A x \in Children(heap, p) : heap.st[x] # "freed"
    BY DEF Children, Alive
  <1>1. ASSUME NEW o \in Objects, New(o) PROVE Sound(heap')
    BY <1>1, NewSound
  <1>2. ASSUME NEW o \in Objects, RefGet(o) PROVE Sound(heap')
    BY <1>2, GetSound DEF RefGet
  <1>3. ASSUME NEW o \in Objects, PutStanza(o) PROVE Sound(heap')
    <2>1. /\ heap.held[o] >= 1 \/ Children(heap, o) = {}
          /\ o \in Alive(heap) /\ heap' = PutH(heap, o)
      BY <1>3 DEF PutStanza, RefPut
    <2> QED
      BY <1>0, <2>1, PutSound
  <1>4. ASSUME NEW o \in Objects, Lookup(o) PROVE Sound(heap')
    <2>1. o \in Alive(heap) /\ heap' = Touch(heap, OnList(heap, o))
      BY <1>4 DEF Lookup
    <2>2. \A x \in OnList(heap, o) : heap.st[x] # "freed"
      BY <1>0, <1>00, <2>1, ListsExact
    <2> QED
      BY <2>1, <2>2, TouchSound
  <1>5. ASSUME NEW p \in Objects, NEW c \in Objects, AppendChild(p, c) PROVE Sound(heap')
    <2>1. /\ p \in Alive(heap) /\ heap.st[c] = "fresh" /\ ~Below(heap, c, p)
          /\ heap' = AppendH(heap, p, c)
      BY <1>5 DEF AppendChild
    <2>2. p # c
      BY <2>1, ReachSelf DEF Below
    <2> QED
      BY <1>0, <2>1, <2>2, AppendSound
  <1>6. ASSUME NEW p \in Objects, NEW c \in Objects, LookupAll(p, c) PROVE Sound(heap')
    <2>1. p \in Alive(heap) /\ heap' = Touch(heap, SameNamed(heap, p, Name[c]))
      BY <1>6 DEF LookupAll
    <2>2. NamesApart => \A x \in SameNamed(heap, p, Name[c]) : heap.st[x] # "freed"
      BY <1>0, <1>00, <2>1, ListsExact
    <2> QED
      BY <2>1, <2>2, TouchSound
  <1> QED
    BY <1>1, <1>2, <1>3, <1>4, <1>5, <1>6 DEF StanzaNext

-----------------------------------------------------------------------------
(* Pointers without cycles. *)

\* Following f from a node never leads back to it.
NoCycle(f) == \A x \in Objects : x \notin Reach(f, f[x])

\* g is f with c taken out, or partly so.
Bypassed(g, f, c) ==
    \A x \in Objects : \/ g[x] = f[x]
                       \/ x = c /\ g[x] = NULL
                       \/ f[x] = c /\ g[x] = f[c]

\* A set that is closed under f holds what is reached from it.
LEMMA ReachLeast ==
    ASSUME NEW f, NEW a, NEW S \in SUBSET Objects, a \in S \cup {NULL},
           \A y \in S : f[y] \in S \cup {NULL}
    PROVE  Reach(f, a) \subseteq S
  BY DEF Reach

\* Nothing is reached from null.
LEMMA ReachNull ==
    ASSUME NEW f
    PROVE  Reach(f, NULL) = {}
  <1> DEFINE S == {}
  <1>1. S \in SUBSET Objects /\ NULL \in S \cup {NULL} /\ \A y \in S : f[y] \in S \cup {NULL}
    OBVIOUS
  <1> HIDE DEF S
  <1>2. Reach(f, NULL) \subseteq S
    BY <1>1, ReachLeast
  <1> QED
    BY <1>2 DEF S

\* The nodes reached are closed under f.
LEMMA ReachStep ==
    ASSUME NEW f \in [Objects -> Pointers], NEW a \in Pointers
    PROVE  /\ Reach(f, a) \in SUBSET Objects /\ a \in Reach(f, a) \cup {NULL}
           /\ \A y \in Reach(f, a) : f[y] \in Reach(f, a) \cup {NULL}
  <1>1. Reach(f, a) \in SUBSET Objects
    BY DEF Reach
  <1>2. a \in Reach(f, a) \cup {NULL}
    BY ReachSelf DEF Pointers
  <1>3. ASSUME NEW y \in Reach(f, a), f[y] # NULL PROVE f[y] \in Reach(f, a)
    <2>1. f[y] \in Objects
      BY <1>1, <1>3 DEF Pointers
    <2> SUFFICES ASSUME NEW S \in SUBSET Objects, a \in S \cup {NULL},
                        \A z \in S : f[z] \in S \cup {NULL}
                 PROVE  f[y] \in S
      BY <2>1 DEF Reach
    <2>2. y \in S
      BY DEF Reach
    <2> QED
      BY <1>3, <2>2
  <1> QED
    BY <1>1, <1>2, <1>3

\* What is reached from a node reached.
LEMMA ReachSub ==
    ASSUME NEW f \in [Objects -> Pointers], NEW a \in Pointers, NEW b \in Reach(f, a) \cup {NULL}
    PROVE  Reach(f, b) \subseteq Reach(f, a)
  BY ReachStep, ReachLeast

\* Pointers that agree on the nodes reached reach the same.
LEMMA ReachSame ==
    ASSUME NEW f \in [Objects -> Pointers], NEW g, NEW a \in Pointers,
           \A x \in Reach(f, a) : g[x] = f[x]
    PROVE  Reach(g, a) = Reach(f, a)
  <1> DEFINE R == Reach(f, a)
  <1>1. /\ R \in SUBSET Objects /\ a \in R \cup {NULL}
        /\ \A y \in R : f[y] \in R \cup {NULL}
    BY ReachStep
  <1>2. Reach(g, a) \subseteq R
    <2> HIDE DEF R
    <2>1. \A y \in R : g[y] \in R \cup {NULL}
      BY <1>1 DEF R
    <2> QED
      BY <1>1, <2>1, ReachLeast
  <1>3. ASSUME NEW x \in R PROVE x \in Reach(g, a)
    <2>0. x \in Objects
      BY <1>1
    <2> SUFFICES ASSUME NEW S \in SUBSET Objects, a \in S \cup {NULL},
                        \A y \in S : g[y] \in S \cup {NULL}
                 PROVE  x \in S
      BY <2>0 DEF Reach
    <2> DEFINE Q == S \cap R
    <2>1. Q \in SUBSET Objects /\ a \in Q \cup {NULL}
      BY <1>1
    <2>2. \A y \in Q : f[y] \in Q \cup {NULL}
      <3> SUFFICES ASSUME NEW y \in Q PROVE f[y] \in Q \cup {NULL}
        OBVIOUS
      <3>1. y \in S /\ y \in R /\ g[y] = f[y]
        OBVIOUS
      <3>2. f[y] \in S \cup {NULL} /\ f[y] \in R \cup {NULL}
        BY <1>1, <3>1
      <3> QED
        BY <3>2
    <2>3. Reach(f, a) \subseteq Q
      <3> HIDE DEF Q, R
      <3> QED BY <2>1, <2>2, ReachLeast
    <2> QED
      BY <2>3
  <1> QED
    BY <1>2, <1>3

\* Linking a node below one that is not below it makes no cycle.
LEMMA LinkNoCycle ==
    ASSUME NEW f \in [Objects -> Pointers], NoCycle(f), NEW c \in Objects, f[c] = NULL,
           NEW p \in Objects, c \notin Reach(f, p),
           NEW g, \A x \in Objects : g[x] = IF x = c THEN p ELSE f[x]
    PROVE  NoCycle(g)
  <1>0. p \in Pointers /\ \A x \in Objects : f[x] \in Pointers
    BY DEF Pointers
  <1>1. Reach(f, p) \in SUBSET Objects /\ p \in Reach(f, p)
        /\ \A y \in Reach(f, p) : f[y] \in Reach(f, p) \cup {NULL}
    BY <1>0, ReachStep, ObjectsAssumption
  <1>2. Reach(g, p) \subseteq Reach(f, p)
    <2>1. \A y \in Reach(f, p) : g[y] \in Reach(f, p) \cup {NULL}
      BY <1>1
    <2> QED
      BY <1>1, <2>1, ReachLeast
  <1>3. ASSUME NEW x \in Objects, x # c, x \in Reach(g, g[x]) PROVE FALSE
    <2> DEFINE R == Reach(f, f[x])
    <2>0. g[x] = f[x] /\ x \notin R
      BY <1>3 DEF NoCycle
    <2>1. /\ R \in SUBSET Objects /\ f[x] \in R \cup {NULL}
          /\ \A y \in R : f[y] \in R \cup {NULL}
      BY <1>0, ReachStep
    <2>2. CASE c \notin R
      <3>1. \A y \in R : g[y] \in R \cup {NULL}
        BY <2>1, <2>2
      <3>2. Reach(g, f[x]) \subseteq R
        <4> HIDE DEF R
        <4> QED BY <2>1, <3>1, ReachLeast
      <3> QED
        BY <1>3, <2>0, <3>2
    <2>3. CASE c \in R
      <3> DEFINE Q == R \cup Reach(f, p)
      <3>1. Q \in SUBSET Objects /\ f[x] \in Q \cup {NULL}
        BY <1>1, <2>1
      <3>2. \A y \in Q : g[y] \in Q \cup {NULL}
        BY <1>1, <2>1
      <3>3. Reach(g, f[x]) \subseteq Q
        <4> HIDE DEF Q, R
        <4> QED BY <3>1, <3>2, ReachLeast
      <3>4. x \in Reach(f, p)
        BY <1>3, <2>0, <3>3
      <3>5. f[x] \in Reach(f, p) \cup {NULL}
        BY <1>1, <3>4
      <3>6. R \subseteq Reach(f, p)
        BY <1>0, <3>5, ReachSub
      <3> QED
        BY <2>3, <3>6
    <2> QED
      BY <2>2, <2>3
  <1>4. c \notin Reach(g, g[c])
    BY <1>2
  <1> QED
    BY <1>3, <1>4 DEF NoCycle

\* Nor does putting a node that leads nowhere behind others.
LEMMA EndNoCycle ==
    ASSUME NEW f \in [Objects -> Pointers], NoCycle(f), NEW c \in Objects, NEW g,
           g[c] = NULL, \A x \in Objects \ {c} : g[x] = f[x] \/ g[x] = c
    PROVE  NoCycle(g)
  <1>0. \A x \in Objects : f[x] \in Pointers
    OBVIOUS
  <1> SUFFICES ASSUME NEW x \in Objects, x \in Reach(g, g[x]) PROVE FALSE
    BY DEF NoCycle
  <1>1. CASE x = c
    BY <1>1, ReachNull
  <1>2. CASE x # c /\ g[x] = c
    <2>1. \A y \in {c} : g[y] \in {c} \cup {NULL}
      OBVIOUS
    <2>2. {c} \in SUBSET Objects /\ c \in {c} \cup {NULL}
      OBVIOUS
    <2>3. Reach(g, c) \subseteq {c}
      BY ONLY <2>1, <2>2, ReachLeast
    <2> QED
      BY <1>2, <2>3
  <1>3. CASE x # c /\ g[x] # c
    <2> DEFINE R == Reach(f, f[x])
               Q == R \cup {c}
    <2>1. /\ R \in SUBSET Objects /\ f[x] \in R \cup {NULL}
          /\ \A y \in R : f[y] \in R \cup {NULL}
      BY <1>0, ReachStep
    <2>2. Q \in SUBSET Objects /\ f[x] \in Q \cup {NULL}
      BY <2>1
    <2>3. \A y \in Q : g[y] \in Q \cup {NULL}
      BY <2>1
    <2>4. Reach(g, f[x]) \subseteq Q
      <3> HIDE DEF Q
      <3> QED BY <2>2, <2>3, ReachLeast
    <2>5. g[x] = f[x]
      BY <1>3
    <2> QED
      BY <1>3, <2>4, <2>5 DEF NoCycle
  <1> QED
    BY <1>1, <1>2, <1>3

\* Nor does taking a node out, after which less is reached.
LEMMA CutReach ==
    ASSUME NEW f \in [Objects -> Pointers], NEW c \in Objects, NEW g, Bypassed(g, f, c),
           NEW b \in Pointers
    PROVE  Reach(g, b) \subseteq Reach(f, b)
  <1> DEFINE R == Reach(f, b)
  <1>1. R \in SUBSET Objects /\ b \in R \cup {NULL} /\ \A y \in R : f[y] \in R \cup {NULL}
    BY ReachStep
  <1>2. \A y \in R : g[y] \in R \cup {NULL}
    <2> SUFFICES ASSUME NEW y \in R PROVE g[y] \in R \cup {NULL}
      OBVIOUS
    <2>1. y \in Objects /\ c # NULL
      BY <1>1, ObjectsAssumption
    <2> HIDE DEF R
    <2> QED
      BY <1>1, <2>1 DEF Bypassed
  <1> HIDE DEF R
  <1>3. Reach(g, b) \subseteq R
    BY <1>1, <1>2, ReachLeast
  <1> QED
    BY <1>3 DEF R

\* Taking a node out closes no cycle.
LEMMA CutNoCycle ==
    ASSUME NEW f \in [Objects -> Pointers], NoCycle(f), NEW c \in Objects, NEW g,
           Bypassed(g, f, c)
    PROVE  NoCycle(g)
  <1> SUFFICES ASSUME NEW x \in Objects, x \in Reach(g, g[x]) PROVE FALSE
    BY DEF NoCycle
  <1>0. f[x] \in Pointers /\ f[c] \in Pointers /\ c \in Pointers /\ c # NULL
    BY ObjectsAssumption DEF Pointers
  <1>1. CASE g[x] = f[x]
    BY <1>0, <1>1, CutReach DEF NoCycle
  <1>2. CASE x = c /\ g[x] = NULL
    BY <1>2, ReachNull
  <1>3. CASE f[x] = c /\ g[x] = f[c]
    <2>1. Reach(g, f[c]) \subseteq Reach(f, f[c])
      BY <1>0, CutReach
    <2>2. Reach(f, f[c]) \subseteq Reach(f, c)
      BY <1>0, ReachStep, ReachSub
    <2> QED
      BY <1>3, <2>1, <2>2 DEF NoCycle
  <1> QED
    BY <1>1, <1>2, <1>3 DEF Bypassed

-----------------------------------------------------------------------------
(* Callers that tear trees down the way the session code does. *)

\* Code owns no negative number of references, and one at least to a linked
\* object; what is freed is in nobody's use.
Owned(h) ==
    \A o \in Objects :
        /\ h.held[o] >= 0
        /\ h.parent[o] # NULL => h.held[o] >= 1
        /\ h.st[o] = "freed" => h.held[o] = 0 /\ h.parent[o] = NULL /\ Children(h, o) = {}

\* What session callers keep of the heap.  With a cycle in sibling a tear-down
\* would come to a node twice and put a reference that no link holds.
Kept(h) == Settled(h) /\ Owned(h) /\ NoCycle(h.parent) /\ NoCycle(h.sibling)

\* The last reference to a node, of those that own counts, is given back only by
\* a node that is neither linked nor has children.
LEMMA DecKept ==
    ASSUME NEW h \in Heaps, NEW own, Good(h, own), NEW o \in Alive(h), own[o] >= 1,
           NEW g, g = RefDec(h, o)
    PROVE  /\ g.parent = h.parent /\ g.sons = h.sons /\ g.sibling = h.sibling
           /\ g.held = h.held
           /\ \/ g.st = h.st
              \/ /\ g.st = [h.st EXCEPT ![o] = "freed"] /\ own[o] = 1
                 /\ h.parent[o] = NULL /\ Children(h, o) = {}
  <1> DEFINE r == [h.rc EXCEPT ![o] = @ - 1]
             k == [h EXCEPT !.rc = r]
  <1>0. o \in Objects /\ h.st[o] # "freed" /\ own \in [Objects -> Int]
    BY DEF Alive, Good
  <1>1. g = IF k.rc[o] <= 0 THEN Destroy(k, o) ELSE k
    BY <1>0 DEF RefDec
  <1>2. r \in [Objects -> Int] /\ r[o] = h.rc[o] - 1
    BY <1>0 DEF Heaps
  <1> HIDE DEF r
  <1>3. /\ k \in Heaps /\ k.parent = h.parent /\ k.sons = h.sons /\ k.sibling = h.sibling
        /\ k.held = h.held /\ k.st = h.st /\ k.rc = r
    BY <1>2 DEF Heaps
  <1> HIDE DEF k
  <1>4. CASE k.rc[o] <= 0
    <2>1. h.rc[o] = own[o] + Linked(h, o) + Cardinality(Children(h, o)) + h.leak[o]
      BY DEF Good, BalancedAs
    <2>2. /\ h.rc[o] \in Int /\ own[o] \in Int /\ h.leak[o] \in Nat
          /\ Linked(h, o) \in Nat /\ Cardinality(Children(h, o)) \in Nat
      BY <1>0, ChildrenFinite DEF Heaps, Linked
    <2>3. own[o] = 1 /\ Linked(h, o) = 0 /\ Cardinality(Children(h, o)) = 0
      BY <1>2, <1>3, <1>4, <2>1, <2>2
    <2>4. h.parent[o] = NULL /\ Children(h, o) = {}
      BY <2>3, ChildrenFinite, FS_EmptySet DEF Linked
    <2>5. g = [k EXCEPT !.st = [k.st EXCEPT ![o] = "freed"]]
      BY <1>1, <1>3, <1>4, <2>4 DEF Destroy
    <2>6. /\ g.parent = k.parent /\ g.sons = k.sons /\ g.sibling = k.sibling
          /\ g.held = k.held /\ g.st = [k.st EXCEPT ![o] = "freed"]
      BY <1>3, <2>5 DEF Heaps
    <2> QED
      BY <1>3, <2>3, <2>4, <2>6
  <1>5. CASE ~(k.rc[o] <= 0)
    BY <1>1, <1>3, <1>5
  <1> QED
    BY <1>4, <1>5

\* Program code gives back a reference that it owns.
LEMMA PutKept ==
    ASSUME NEW h, Kept(h), NEW o \in Alive(h),
           h.held[o] >= (IF h.parent[o] = NULL THEN 1 ELSE 2),
           NEW g, g = PutH(h, o)
    PROVE  /\ Kept(g)
           /\ g.parent = h.parent /\ g.sons = h.sons /\ g.sibling = h.sibling
           /\ \A x \in Objects : g.st[x] = h.st[x] \/ (x = o /\ h.parent[x] = NULL)
  <1> DEFINE t == [h.held EXCEPT ![o] = @ + (-1)]
             k == Hold(h, o, -1)
  <1>0. /\ h \in Heaps /\ o \in Objects /\ h.st[o] # "freed" /\ Settled(h)
        /\ Alive(h) \subseteq Objects /\ h.held \in [Objects -> Int] /\ h.held[o] \in Int
    BY DEF Kept, Settled, Good, Alive, Heaps
  <1>1. k \in Heaps /\ Good(k, h.held) /\ k.held = t
    BY <1>0, HoldGood
  <1>2. /\ k.parent = h.parent /\ k.sons = h.sons /\ k.sibling = h.sibling /\ k.st = h.st
    BY <1>0 DEF Hold, Heaps
  <1>3. g = RefDec(k, o)
    BY DEF PutH
  <1> HIDE DEF k
  <1>4. o \in Alive(k) /\ h.held[o] >= 1 /\ Children(k, o) = Children(h, o)
    BY <1>0, <1>2 DEF Alive, Children
  <1>5. /\ g.parent = k.parent /\ g.sons = k.sons /\ g.sibling = k.sibling
        /\ g.held = k.held
        /\ \/ g.st = k.st
           \/ /\ g.st = [k.st EXCEPT ![o] = "freed"] /\ h.held[o] = 1
              /\ k.parent[o] = NULL /\ Children(k, o) = {}
    BY <1>1, <1>3, <1>4, DecKept
  <1>6. \A x \in Objects : g.held[x] = IF x = o THEN h.held[o] - 1 ELSE h.held[x]
    BY <1>0, <1>1, <1>5
  <1>7. \A x \in Objects : \/ g.st[x] = h.st[x]
                           \/ /\ x = o /\ g.st[x] = "freed" /\ h.held[x] = 1
                              /\ h.parent[x] = NULL /\ Children(h, x) = {}
    BY <1>0, <1>2, <1>4, <1>5 DEF Heaps
  <1>8. g.parent = h.parent /\ g.sons = h.sons /\ g.sibling = h.sibling
    BY <1>2, <1>5
  <1>9. \A x \in Objects : Children(g, x) \subseteq Children(h, x)
    BY <1>7, <1>8 DEF Children, Alive
  <1>10. Owned(g)
    <2> SUFFICES ASSUME NEW x \in Objects
                 PROVE  /\ g.held[x] >= 0
                        /\ g.parent[x] # NULL => g.held[x] >= 1
                        /\ g.st[x] = "freed" => /\ g.held[x] = 0 /\ g.parent[x] = NULL
                                                /\ Children(g, x) = {}
      BY DEF Owned
    <2>1. /\ h.held[x] >= 0 /\ (h.parent[x] # NULL => h.held[x] >= 1) /\ h.held[x] \in Int
          /\ h.st[x] = "freed" => /\ h.held[x] = 0 /\ h.parent[x] = NULL
                                  /\ Children(h, x) = {}
      BY <1>0 DEF Kept, Owned
    <2>2. CASE x = o
      <3>1. g.held[x] = h.held[x] - 1 /\ h.st[x] # "freed"
        BY <1>0, <1>6, <2>2
      <3>2. /\ g.held[x] >= 0
            /\ g.parent[x] # NULL => g.held[x] >= 1
        BY <1>0, <1>8, <2>2, <3>1
      <3>3. ASSUME g.st[x] = "freed"
            PROVE  h.held[x] = 1 /\ h.parent[x] = NULL /\ Children(h, x) = {}
        BY <1>7, <3>1, <3>3
      <3>4. g.st[x] = "freed" => g.held[x] = 0 /\ g.parent[x] = NULL /\ Children(g, x) = {}
        BY <1>8, <1>9, <3>1, <3>3
      <3> QED
        BY <3>2, <3>4
    <2>3. CASE x # o
      <3>1. g.held[x] = h.held[x] /\ g.st[x] = h.st[x] /\ g.parent[x] = h.parent[x]
        BY <1>6, <1>7, <1>8, <2>3
      <3> QED
        BY <1>9, <2>1, <3>1
    <2> QED
      BY <2>2, <2>3
  <1>11. Settled(g)
    BY <1>0, PutGood
  <1>12. NoCycle(g.parent) /\ NoCycle(g.sibling)
    BY <1>8 DEF Kept
  <1> QED
    BY <1>7, <1>8, <1>10, <1>11, <1>12 DEF Kept

\* g is h with o no longer linked: nothing that was linked is freed, o possibly
\* excepted.
Detached(g, h, o) ==
    /\ g.parent = [h.parent EXCEPT ![o] = NULL] /\ g.sons = h.sons
    /\ Bypassed(g.sibling, h.sibling, o)
    /\ \A x \in Objects : g.st[x] = h.st[x] \/ x = o \/ h.parent[x] = NULL

\* The list pointers __x_object_remove_from_treenode writes.
LEMMA RemoveLinks ==
    ASSUME NEW h \in Heaps, NEW p, NEW c \in Objects, NEW g, g = RemoveFromTreenode(h, p, c)
    PROVE  g.sons = h.sons /\ Bypassed(g.sibling, h.sibling, c)
  <1> DEFINE sb == IF h.sons[p] # NULL THEN Bypass(h.sibling, h.sons[p], c) ELSE h.sibling
  <1>1. g.sons = h.sons /\ g.sibling = sb
    BY DEF RemoveFromTreenode, Heaps
  <1>2. Bypassed(sb, h.sibling, c)
    BY DEF Bypass, Bypassed
  <1> QED
    BY <1>1, <1>2

\* _RMOV of a linked object: the tree's references go, code keeps its own, and
\* a parent that goes with them has no other use.
LEMMA RemoveKept ==
    ASSUME NEW h, Kept(h), NEW o \in Alive(h), h.parent[o] # NULL, NEW g, g = RemoveH(h, o)
    PROVE  /\ Kept(g) /\ Detached(g, h, o)
           /\ o \in Alive(g) /\ g.held = h.held
  <1> DEFINE p == h.parent[o]
             w == Until(h.sibling, h.sons[p], o) \cup Until(h.next, GetChild(h, p, Name[o]), o)
             k == Touch(h, w)
             m == RemoveFromTreenode(k, p, o)
             n == RefDec(m, o)
             e1 == [h.held EXCEPT ![p] = @ + 1, ![o] = @ + 1]
             e2 == [e1 EXCEPT ![o] = @ - 1]
  <1>0. /\ h \in Heaps /\ o \in Objects /\ Settled(h) /\ Placed(h) /\ Owned(h)
        /\ Alive(h) \subseteq Objects /\ h.held \in [Objects -> Int]
        /\ h.parent \in [Objects -> Pointers] /\ h.sibling \in [Objects -> Pointers]
    BY DEF Kept, Settled, Good, Alive, Heaps
  <1>1. p \in Objects /\ p # o /\ p \in Alive(h) /\ h.st[p] # "freed"
    <2>1. p \in Objects /\ p # o /\ h.st[p] # "unused"
      BY <1>0 DEF Placed, Pointers
    <2>2. o \in Children(h, p)
      BY DEF Children
    <2>3. h.st[p] # "freed"
      BY <1>0, <2>1, <2>2 DEF Owned
    <2> QED
      BY <1>0, <2>1, <2>3 DEF Alive, Heaps, Status
  <1>2. g = RefDec(n, p)
    BY <1>1 DEF RemoveH
  <1>3. /\ k \in Heaps /\ SameTree(k, h) /\ k.sons = h.sons /\ k.sibling = h.sibling
        /\ Good(k, h.held)
    BY <1>0, TouchType, TouchGood DEF Touch, Heaps, Settled
  <1> HIDE DEF k
  <1>4. p \in Alive(k) /\ o \in Alive(k) /\ k.parent[o] = p
    BY <1>1, <1>3 DEF SameTree, Alive
  <1>5. Good(m, e1) /\ Removed(m, k, p, o)
    BY <1>0, <1>1, <1>3, <1>4, RemoveGood, RemoveType
  <1>6. m.sons = k.sons /\ Bypassed(m.sibling, k.sibling, o)
    BY <1>0, <1>3, RemoveLinks
  <1> HIDE DEF m
  <1>7. /\ m \in Heaps /\ m.st = h.st /\ m.parent = [h.parent EXCEPT ![o] = NULL]
        /\ m.held = h.held /\ o \in Alive(m) /\ p \in Alive(m)
    BY <1>1, <1>3, <1>5 DEF Removed, SameTree, Alive
  <1>8. /\ h.held[o] >= 1 /\ h.held[p] >= 0 /\ h.held[o] \in Int /\ h.held[p] \in Int
        /\ (h.parent[p] # NULL => h.held[p] >= 1)
    BY <1>0, <1>1 DEF Owned
  <1>9. e1[o] = h.held[o] + 1 /\ e1[p] = h.held[p] + 1 /\ e2[p] = h.held[p] + 1
    BY <1>0, <1>1
  <1> HIDE DEF e1
  <1>10. e1[o] >= 1 /\ e1[o] # 1
    BY <1>8, <1>9
  <1>11. /\ n.parent = m.parent /\ n.sons = m.sons /\ n.sibling = m.sibling
         /\ n.held = m.held /\ n.st = m.st
    <2>1. /\ n.parent = m.parent /\ n.sons = m.sons /\ n.sibling = m.sibling
          /\ n.held = m.held
          /\ \/ n.st = m.st
             \/ /\ n.st = [m.st EXCEPT ![o] = "freed"] /\ e1[o] = 1
                /\ m.parent[o] = NULL /\ Children(m, o) = {}
      BY ONLY <1>5, <1>7, <1>10, DecKept
    <2> HIDE DEF n
    <2> QED
      BY <1>10, <2>1
  <1>12. Good(n, e2) /\ n \in Heaps
    BY <1>0, <1>5, <1>7, RefDecGood DEF Good
  <1> HIDE DEF n, e2
  <1>13. p \in Alive(n) /\ e2[p] >= 1
    BY <1>7, <1>8, <1>9, <1>11 DEF Alive
  <1>14. /\ g.parent = n.parent /\ g.sons = n.sons /\ g.sibling = n.sibling
         /\ g.held = n.held
         /\ \/ g.st = n.st
            \/ /\ g.st = [n.st EXCEPT ![p] = "freed"] /\ e2[p] = 1
               /\ n.parent[p] = NULL /\ Children(n, p) = {}
    BY <1>2, <1>12, <1>13, DecKept
  <1>15. \A x \in Objects : /\ n.parent[x] = IF x = o THEN NULL ELSE h.parent[x]
                            /\ n.st[x] = h.st[x]
    BY <1>0, <1>7, <1>11
  <1>16. \A x \in Objects : \/ g.st[x] = h.st[x]
                            \/ /\ x = p /\ g.st[x] = "freed" /\ h.held[x] = 0
                               /\ h.parent[x] = NULL /\ Children(n, x) = {}
    <2>1. e2[p] = 1 => h.held[p] = 0
      BY <1>8, <1>9
    <2>2. n.st \in [Objects -> Status]
      BY <1>12 DEF Heaps
    <2> QED
      BY <1>1, <1>14, <1>15, <2>1, <2>2
  <1>17. /\ g.parent = [h.parent EXCEPT ![o] = NULL] /\ g.sons = h.sons /\ g.held = h.held
         /\ Bypassed(g.sibling, h.sibling, o)
    BY <1>3, <1>6, <1>7, <1>11, <1>14
  <1>18. Detached(g, h, o)
    BY <1>16, <1>17 DEF Detached
  <1>19. \A x \in Objects : Children(g, x) \subseteq Children(n, x)
                            /\ Children(n, x) \subseteq Children(h, x)
    <2>1. \A x \in Objects : g.st[x] \in {"fresh", "inserted"} => h.st[x] \in {"fresh", "inserted"}
      BY <1>16
    <2>2. Alive(g) \subseteq Alive(n) /\ Alive(n) = Alive(h)
      BY <1>15, <2>1 DEF Alive
    <2>3. \A x \in Objects : x # NULL
      BY ObjectsAssumption
    <2> QED
      BY <1>0, <1>14, <1>15, <2>2, <2>3 DEF Children
  <1>20. Owned(g)
    <2> SUFFICES ASSUME NEW x \in Objects
                 PROVE  /\ g.held[x] >= 0
                        /\ g.parent[x] # NULL => g.held[x] >= 1
                        /\ g.st[x] = "freed" => /\ g.held[x] = 0 /\ g.parent[x] = NULL
                                                /\ Children(g, x) = {}
      BY DEF Owned
    <2>1. /\ h.held[x] >= 0 /\ (h.parent[x] # NULL => h.held[x] >= 1)
          /\ h.st[x] = "freed" => /\ h.held[x] = 0 /\ h.parent[x] = NULL
                                  /\ Children(h, x) = {}
      BY <1>0 DEF Owned
    <2>2. g.held[x] = h.held[x] /\ g.parent[x] = IF x = o THEN NULL ELSE h.parent[x]
      BY <1>14, <1>15, <1>17
    <2>3. Children(g, x) \subseteq Children(h, x) /\ Children(g, x) \subseteq Children(n, x)
      BY <1>19
    <2>4. ASSUME g.st[x] = "freed"
          PROVE  g.held[x] = 0 /\ g.parent[x] = NULL /\ Children(g, x) = {}
      <3>1. CASE h.st[x] = "freed"
        BY <2>1, <2>2, <2>3, <3>1
      <3>2. CASE h.st[x] # "freed"
        BY <1>16, <2>2, <2>3, <2>4, <3>2
      <3> QED
        BY <3>1, <3>2
    <2> QED
      BY <2>1, <2>2, <2>4
  <1>21. NoCycle(g.parent) /\ NoCycle(g.sibling)
    <2>1. Bypassed(g.parent, h.parent, o)
      BY <1>14, <1>15 DEF Bypassed
    <2>2. NoCycle(h.parent) /\ NoCycle(h.sibling)
      BY DEF Kept
    <2> QED
      BY <1>0, <1>17, <2>1, <2>2, CutNoCycle
  <1>22. Settled(g)
    BY <1>0, RemoveHGood
  <1>23. o \in Alive(g)
    BY <1>0, <1>1, <1>16 DEF Alive
  <1> QED
    BY <1>17, <1>18, <1>20, <1>21, <1>22, <1>23 DEF Kept

\* What x_object_destroy_tree does with a child it is done with.
LEMMA DropKept ==
    ASSUME NEW h, Kept(h), NEW c \in Alive(h), h.parent[c] # NULL
    PROVE  Kept(DropChildH(h, c)) /\ Detached(DropChildH(h, c), h, c)
  <1> DEFINE k == RemoveH(h, c)
             g == PutH(k, c)
  <1>0. c \in Objects /\ h \in Heaps /\ h.held[c] >= 1
    BY DEF Alive, Kept, Settled, Good, Owned
  <1>1. Kept(k) /\ Detached(k, h, c) /\ c \in Alive(k) /\ k.held = h.held
    BY RemoveKept
  <1> HIDE DEF k
  <1>2. \A x \in Objects : k.parent[x] = IF x = c THEN NULL ELSE h.parent[x]
    BY <1>0, <1>1 DEF Detached, Heaps
  <1>3. k.held[c] >= (IF k.parent[c] = NULL THEN 1 ELSE 2)
    BY <1>0, <1>1, <1>2
  <1>4. /\ Kept(g) /\ g.parent = k.parent /\ g.sons = k.sons /\ g.sibling = k.sibling
        /\ \A x \in Objects : g.st[x] = k.st[x] \/ (x = c /\ k.parent[x] = NULL)
    BY <1>1, <1>3, PutKept
  <1> HIDE DEF g
  <1>5. Detached(g, h, c)
    BY <1>1, <1>4 DEF Detached
  <1>6. DropChildH(h, c) = g
    BY DEF DropChildH, g, k
  <1> QED
    BY <1>4, <1>5, <1>6

\* A tear-down in progress: U are the nodes it has not come to.  Their lists are
\* exact and lead to nodes of U only; each activation has a node of its own that
\* is not in U; the child a loop waits for is linked below the loop's node; and
\* the rest of every loop's list are children of that node in U.
Teardown(h, s, U) ==
    /\ \A d \in U : /\ h.parent[d] # NULL
                    /\ OnList(h, d) = Children(h, d) /\ Children(h, d) \subseteq U
    /\ \A i \in 1 .. Len(s) : s[i].thiz \notin U
    /\ \A i, j \in 1 .. Len(s) : s[i].thiz = s[j].thiz => i = j
    /\ \A i \in 1 .. Len(s) - 1 :
        /\ s[i].chld = s[i + 1].thiz
        /\ h.parent[s[i].chld] = s[i].thiz
        /\ Reach(h.sibling, h.sibling[s[i].chld]) \subseteq U \cap Children(h, s[i].thiz)
    /\ s # <<>> =>
        Reach(h.sibling, s[Len(s)].chld) \subseteq U \cap Children(h, s[Len(s)].thiz)

\* The activations s are those of a tear-down, or there is none.
InTeardown(h, s) == \E U \in SUBSET Objects : Teardown(h, s, U)

\* No tear-down is in progress.
LEMMA NoTeardown ==
    ASSUME NEW h
    PROVE  InTeardown(h, <<>>)
  <1>1. Teardown(h, <<>>, {})
    BY DEF Teardown
  <1> QED
    BY <1>1 DEF InTeardown

\* Reading nodes disturbs none of this.
LEMMA TouchKept ==
    ASSUME NEW h, Kept(h), NEW S, NEW g, g = Touch(h, S)
    PROVE  /\ Kept(g) /\ g.st = h.st /\ g.parent = h.parent /\ g.sons = h.sons
           /\ g.sibling = h.sibling /\ \A p : Children(g, p) = Children(h, p)
  <1>0. h \in Heaps /\ Settled(h)
    BY DEF Kept, Settled, Good
  <1>1. /\ g.st = h.st /\ g.parent = h.parent /\ g.sons = h.sons /\ g.sibling = h.sibling
        /\ g.held = h.held
    BY <1>0 DEF Touch, Heaps
  <1>2. \A p : Children(g, p) = Children(h, p)
    BY <1>1 DEF Children, Alive
  <1>3. Owned(g)
    BY <1>1, <1>2 DEF Kept, Owned
  <1>4. Settled(g)
    BY <1>0, TouchSettled
  <1> QED
    BY <1>1, <1>2, <1>3, <1>4 DEF Kept

\* A tear-down is a matter of pointers.
LEMMA SameTeardown ==
    ASSUME NEW h, NEW g, NEW s, NEW U, Teardown(h, s, U),
           g.parent = h.parent, g.sons = h.sons, g.sibling = h.sibling,
           \A p : Children(g, p) = Children(h, p)
    PROVE  Teardown(g, s, U)
  BY DEF Teardown, OnList

\* The entry of x_object_destroy_tree on a tree that lost no object before.
LEMMA EntryTeardown ==
    ASSUME NEW h, Kept(h), NEW o \in Alive(h), Intact(h, o),
           NEW s, s = <<[thiz |-> o, chld |-> h.sons[o]]>>
    PROVE  InTeardown(h, s)
  <1> DEFINE U == {d \in Alive(h) : Below(h, o, d) /\ d # o}
  <1>0. /\ h.parent \in [Objects -> Pointers] /\ o \in Objects /\ NoCycle(h.parent)
        /\ Alive(h) \subseteq Objects /\ U \in SUBSET Objects
    BY DEF Kept, Settled, Good, Heaps, Alive
  <1>1. \A d \in Alive(h) : Below(h, o, d) => OnList(h, d) = Children(h, d)
    BY DEF Intact
  <1>2. ASSUME NEW d \in Alive(h), Below(h, o, d), NEW e \in Children(h, d) PROVE e \in U
    <2>1. e \in Alive(h) /\ e \in Objects /\ h.parent[e] = d /\ d \in Objects
      BY <1>0 DEF Children
    <2>2. e \in Pointers /\ d # NULL /\ e # NULL
      BY <2>1, ObjectsAssumption DEF Pointers
    <2>3. d \in Reach(h.parent, e)
      BY <1>0, <2>1, <2>2, ReachStep
    <2>4. Reach(h.parent, d) \subseteq Reach(h.parent, e)
      BY <1>0, <2>2, <2>3, ReachSub
    <2>5. Below(h, o, e)
      BY <1>2, <2>4 DEF Below
    <2>6. e # o
      BY <1>0, <1>2, <2>1 DEF Below, NoCycle
    <2> QED
      BY <2>1, <2>5, <2>6
  <1>3. ASSUME NEW d \in U PROVE h.parent[d] # NULL
    <2> SUFFICES ASSUME h.parent[d] = NULL PROVE FALSE
      OBVIOUS
    <2>1. {d} \in SUBSET Objects /\ d \in {d} \cup {NULL}
          /\ \A y \in {d} : h.parent[y] \in {d} \cup {NULL}
      BY <1>0
    <2>2. Reach(h.parent, d) \subseteq {d}
      BY ONLY <2>1, ReachLeast
    <2> QED
      BY <2>2 DEF Below
  <1>4. Below(h, o, o)
    BY <1>0, ReachSelf DEF Below
  <1>5. Reach(h.sibling, h.sons[o]) = Children(h, o) /\ Children(h, o) \subseteq U
    BY <1>1, <1>2, <1>4 DEF OnList
  <1>6. \A d \in U : /\ h.parent[d] # NULL
                     /\ OnList(h, d) = Children(h, d) /\ Children(h, d) \subseteq U
    BY <1>1, <1>2, <1>3
  <1>7. o \notin U
    OBVIOUS
  <1> HIDE DEF U
  <1>8. Len(s) = 1 /\ s[1].thiz = o /\ s[1].chld = h.sons[o]
    OBVIOUS
  <1>9. \A i \in 1 .. Len(s) : i = 1
    BY <1>8
  <1>10. Teardown(h, s, U)
    BY <1>5, <1>6, <1>7, <1>8, <1>9 DEF Teardown
  <1> QED
    BY <1>0, <1>10 DEF InTeardown

\* The recursive call: the current child leaves the nodes not come to.
LEMMA CallTeardown ==
    ASSUME NEW h, Kept(h), NEW s \in Seq(Frames), s # <<>>, NEW U \in SUBSET Objects,
           Teardown(h, s, U), s[Len(s)].chld # NULL,
           NEW s2, s2 = Append(s, [thiz |-> s[Len(s)].chld, chld |-> h.sons[s[Len(s)].chld]])
    PROVE  Teardown(h, s2, U \ {s[Len(s)].chld})
  <1> DEFINE n == Len(s)
             a == s[n].chld
             t == s[n].thiz
             V == U \ {a}
  <1>0. /\ n \in Nat /\ n >= 1 /\ s[n] \in Frames /\ a \in Objects /\ a \in Pointers /\ a # NULL
        /\ h.sibling \in [Objects -> Pointers] /\ h.sibling[a] \in Pointers
        /\ NoCycle(h.sibling) /\ Placed(h)
    <2>1. n \in Nat /\ n >= 1 /\ s[n] \in Frames
      OBVIOUS
    <2>2. a \in Objects /\ a \in Pointers
      BY <2>1 DEF Frames, Pointers
    <2> QED
      BY <2>1, <2>2 DEF Kept, Settled, Good, Heaps
  <1>1. /\ Len(s2) = n + 1 /\ \A i \in 1 .. n : s2[i] = s[i]
        /\ s2[n + 1].thiz = a /\ s2[n + 1].chld = h.sons[a] /\ s2 # <<>>
    <2> DEFINE fr == [thiz |-> a, chld |-> h.sons[a]]
    <2>1. fr \in Frames /\ fr.thiz = a /\ fr.chld = h.sons[a]
      BY <1>0 DEF Kept, Settled, Good, Heaps, Frames
    <2>2. s2 = Append(s, fr)
      OBVIOUS
    <2> HIDE DEF fr
    <2> QED
      BY <1>0, <2>1, <2>2
  <1>2. Reach(h.sibling, a) \subseteq U \cap Children(h, t)
    BY DEF Teardown
  <1>3. a \in U /\ a \in Children(h, t) /\ h.parent[a] = t
    BY <1>0, <1>2, ReachSelf DEF Children
  <1>4. t \notin U /\ \A i \in 1 .. n : s[i].thiz \notin U /\ (s[i].thiz = t => i = n)
    BY <1>0 DEF Teardown
  <1>5. ASSUME NEW d \in V
        PROVE  /\ h.parent[d] # NULL /\ OnList(h, d) = Children(h, d)
               /\ Children(h, d) \subseteq V
    <2>1. h.parent[d] # NULL /\ OnList(h, d) = Children(h, d) /\ Children(h, d) \subseteq U
      BY DEF Teardown
    <2>2. a \notin Children(h, d)
      BY <1>3, <1>4 DEF Children
    <2> QED
      BY <2>1, <2>2
  <1>6. \A i \in 1 .. n + 1 : s2[i].thiz \notin V
    BY <1>0, <1>1, <1>4
  <1>7. \A i, j \in 1 .. n + 1 : s2[i].thiz = s2[j].thiz => i = j
    <2>1. \A i, j \in 1 .. n : s[i].thiz = s[j].thiz => i = j
      BY DEF Teardown
    <2>2. \A i \in 1 .. n : s[i].thiz # a
      BY <1>3, <1>4
    <2>3. \A i \in 1 .. n + 1 : i \in 1 .. n \/ i = n + 1
      BY <1>0
    <2> QED
      BY <1>1, <2>1, <2>2, <2>3
  <1>8. ASSUME NEW i \in 1 .. n
        PROVE  /\ s2[i].chld = s2[i + 1].thiz
               /\ h.parent[s2[i].chld] = s2[i].thiz
               /\ Reach(h.sibling, h.sibling[s2[i].chld]) \subseteq V \cap Children(h, s2[i].thiz)
    <2>1. CASE i = n
      <3>1. h.sibling[a] \in Reach(h.sibling, a) \cup {NULL}
        BY <1>0, ReachStep, ReachSelf
      <3>2. Reach(h.sibling, h.sibling[a]) \subseteq Reach(h.sibling, a)
        BY <1>0, <3>1, ReachSub
      <3>3. a \notin Reach(h.sibling, h.sibling[a])
        BY <1>0 DEF NoCycle
      <3>4. s2[i] = s[n] /\ s2[i + 1].thiz = a
        BY <1>1, <2>1
      <3> QED
        BY <1>2, <1>3, <3>2, <3>3, <3>4
    <2>2. CASE i # n
      <3>1. i \in 1 .. n - 1 /\ i + 1 \in 1 .. n
        BY <1>0, <2>2
      <3>2. /\ s[i].chld = s[i + 1].thiz /\ h.parent[s[i].chld] = s[i].thiz
            /\ Reach(h.sibling, h.sibling[s[i].chld]) \subseteq U \cap Children(h, s[i].thiz)
        BY <3>1 DEF Teardown
      <3>3. a \notin Children(h, s[i].thiz)
        BY <1>3, <1>4, <2>2 DEF Children
      <3>4. s2[i] = s[i] /\ s2[i + 1] = s[i + 1]
        BY <1>1, <3>1
      <3> QED
        BY <3>2, <3>3, <3>4
    <2> QED
      BY <2>1, <2>2
  <1>9. Reach(h.sibling, s2[n + 1].chld) \subseteq V \cap Children(h, s2[n + 1].thiz)
    <2>1. OnList(h, a) = Children(h, a) /\ Children(h, a) \subseteq U
      BY <1>3 DEF Teardown
    <2>2. a \notin Children(h, a)
      BY <1>0 DEF Children, Placed
    <2> QED
      BY <1>1, <2>1, <2>2 DEF OnList
  <1>10. Len(s2) - 1 = n
    BY <1>0, <1>1
  <1>11. Teardown(h, s2, V)
    <2> HIDE DEF V, a, n
    <2> QED
      BY <1>1, <1>5, <1>6, <1>7, <1>8, <1>9, <1>10 DEF Teardown
  <1> QED
    BY <1>11

\* The return: the child the loop waited for is dropped, and its old sibling is
\* the next one.
LEMMA ReturnTeardown ==
    ASSUME NEW h, Kept(h), NEW s \in Seq(Frames), NEW U \in SUBSET Objects,
           Teardown(h, s, U), NEW n \in Nat, n >= 1, Len(s) = n + 1, Walking(s),
           NEW c, c = s[n].chld, NEW g, Kept(g), Detached(g, h, c),
           NEW s2, Len(s2) = n, \A i \in 1 .. n - 1 : s2[i] = s[i],
           s2[n].thiz = s[n].thiz, s2[n].chld = h.sibling[c]
    PROVE  Teardown(g, s2, U)
  <1> DEFINE p == s[n].thiz
  <1>0. /\ h \in Heaps /\ Placed(h) /\ h.parent \in [Objects -> Pointers]
        /\ h.sibling \in [Objects -> Pointers] /\ h.sons \in [Objects -> Pointers]
        /\ g \in Heaps /\ Placed(g)
    BY DEF Kept, Settled, Good, Heaps
  <1>1. c \in Objects /\ c # NULL /\ \A i \in 1 .. n + 1 : s[i] \in Frames
    <2>1. \A i \in 1 .. n + 1 : s[i] \in Frames
      OBVIOUS
    <2>2. n \in 1 .. n + 1 /\ n \in 1 .. Len(s) - 1
      OBVIOUS
    <2> QED
      BY <2>1, <2>2 DEF Frames, Pointers, Walking
  <1>2. /\ c = s[n + 1].thiz /\ h.parent[c] = p /\ c \notin U
        /\ Reach(h.sibling, h.sibling[c]) \subseteq U \cap Children(h, p)
    <2>1. n \in 1 .. Len(s) - 1 /\ n + 1 \in 1 .. Len(s)
      OBVIOUS
    <2> QED
      BY <2>1 DEF Teardown
  <1>3. p \in Objects /\ p \notin U /\ \A i \in 1 .. n - 1 : s[i].thiz # p
    <2>1. n \in 1 .. Len(s) /\ \A i \in 1 .. n - 1 : i \in 1 .. Len(s) /\ i # n
      OBVIOUS
    <2> QED
      BY <1>1, <2>1 DEF Teardown, Frames
  <1>4. /\ \A x \in Objects : g.parent[x] = IF x = c THEN NULL ELSE h.parent[x]
        /\ g.sons = h.sons /\ Bypassed(g.sibling, h.sibling, c)
        /\ \A x \in Objects : g.st[x] = h.st[x] \/ x = c \/ h.parent[x] = NULL
    BY <1>0, <1>1 DEF Detached
  <1>5. ASSUME NEW q \in Objects PROVE Children(g, q) = Children(h, q) \ {c}
    <2>0. q # NULL
      BY ObjectsAssumption
    <2>1. ASSUME NEW x \in Objects PROVE x \in Children(g, q) <=> x \in Children(h, q) /\ x # c
      <3>1. CASE x = c \/ h.parent[x] # q
        BY <1>4, <2>0, <3>1 DEF Children
      <3>2. CASE x # c /\ h.parent[x] = q
        BY <1>4, <2>0, <3>2 DEF Children, Alive
      <3> QED
        BY <3>1, <3>2
    <2>2. Children(g, q) \subseteq Objects /\ Children(h, q) \subseteq Objects
      BY DEF Children, Alive
    <2> QED
      BY <2>1, <2>2
  <1>6. \A q \in Objects \ {p} : Children(g, q) = Children(h, q) /\ c \notin Children(h, q)
    BY <1>2, <1>5 DEF Children
  <1>7. ASSUME NEW a \in Pointers, c \notin Reach(h.sibling, a)
        PROVE  Reach(g.sibling, a) = Reach(h.sibling, a)
    <2>1. /\ Reach(h.sibling, a) \in SUBSET Objects
          /\ \A y \in Reach(h.sibling, a) : h.sibling[y] \in Reach(h.sibling, a) \cup {NULL}
      BY <1>0, ReachStep
    <2>2. \A x \in Reach(h.sibling, a) : g.sibling[x] = h.sibling[x]
      <3> SUFFICES ASSUME NEW x \in Reach(h.sibling, a) PROVE g.sibling[x] = h.sibling[x]
        OBVIOUS
      <3>1. x \in Objects /\ x # c /\ h.sibling[x] # c
        BY <1>1, <1>7, <2>1
      <3> QED
        BY <1>4, <3>1 DEF Bypassed
    <2> QED
      BY <1>0, <2>2, ReachSame
  <1>8. ASSUME NEW d \in U
        PROVE  /\ g.parent[d] # NULL /\ OnList(g, d) = Children(g, d)
               /\ Children(g, d) \subseteq U
    <2>1. h.parent[d] # NULL /\ OnList(h, d) = Children(h, d) /\ Children(h, d) \subseteq U
      BY DEF Teardown
    <2>2. d \in Objects /\ d # c /\ d # p
      BY <1>2, <1>3
    <2>3. Children(g, d) = Children(h, d) /\ c \notin Children(h, d)
      BY <1>6, <2>2
    <2>4. h.sons[d] \in Pointers
      BY <1>0, <2>2
    <2>5. Reach(g.sibling, h.sons[d]) = Reach(h.sibling, h.sons[d])
      BY <1>7, <2>1, <2>3, <2>4 DEF OnList
    <2> QED
      BY <1>4, <2>1, <2>2, <2>3, <2>5 DEF OnList
  <1>9. \A i \in 1 .. n : s2[i].thiz = s[i].thiz
    OBVIOUS
  <1>10. \A i \in 1 .. n : s2[i].thiz \notin U
    BY <1>9 DEF Teardown
  <1>11. \A i, j \in 1 .. n : s2[i].thiz = s2[j].thiz => i = j
    BY <1>9 DEF Teardown
  <1>12. ASSUME NEW i \in 1 .. n - 1
         PROVE  /\ s2[i].chld = s2[i + 1].thiz
                /\ g.parent[s2[i].chld] = s2[i].thiz
                /\ Reach(g.sibling, g.sibling[s2[i].chld])
                       \subseteq U \cap Children(g, s2[i].thiz)
    <2> DEFINE e == s[i].chld
               q == s[i].thiz
    <2>0. i \in 1 .. Len(s) - 1 /\ i \in 1 .. n /\ i + 1 \in 1 .. n /\ s2[i] = s[i]
      OBVIOUS
    <2>1. /\ e = s[i + 1].thiz /\ h.parent[e] = q
          /\ Reach(h.sibling, h.sibling[e]) \subseteq U \cap Children(h, q)
      BY <2>0 DEF Teardown
    <2>2. q \in Objects /\ e \in Objects /\ q # p
      BY <1>1, <1>3, <2>0 DEF Frames, Pointers, Walking
    <2>3. e # c /\ Children(g, q) = Children(h, q)
      BY <1>2, <1>6, <2>1, <2>2
    <2>4. h.sibling[e] \in Pointers /\ c \notin Reach(h.sibling, h.sibling[e])
      BY <1>0, <1>2, <2>1, <2>2
    <2>5. h.sibling[e] # c
      <3> SUFFICES ASSUME h.sibling[e] = c PROVE FALSE
        OBVIOUS
      <3>1. c \in Reach(h.sibling, c)
        BY <1>1, ReachSelf
      <3> QED
        BY <2>4, <3>1
    <2>6. g.sibling[e] = h.sibling[e]
      BY <1>4, <2>2, <2>3, <2>5 DEF Bypassed
    <2>7. Reach(g.sibling, h.sibling[e]) = Reach(h.sibling, h.sibling[e])
      BY <1>7, <2>4
    <2>8. s2[i + 1].thiz = s[i + 1].thiz
      BY <1>9, <2>0
    <2> QED
      BY <1>4, <2>0, <2>1, <2>2, <2>3, <2>6, <2>7, <2>8
  <1>13. Reach(g.sibling, s2[n].chld) \subseteq U \cap Children(g, s2[n].thiz)
    <2>1. h.sibling[c] \in Pointers /\ c \notin Reach(h.sibling, h.sibling[c])
      BY <1>0, <1>1, <1>2
    <2>2. Reach(g.sibling, h.sibling[c]) = Reach(h.sibling, h.sibling[c])
      BY <1>7, <2>1
    <2>3. Children(g, p) = Children(h, p) \ {c}
      BY <1>3, <1>5
    <2> QED
      BY <1>2, <2>1, <2>2, <2>3
  <1> QED
    BY <1>8, <1>10, <1>11, <1>12, <1>13 DEF Teardown

\* Linking an object that its creator still owns.
LEMMA AppendKept ==
    ASSUME NEW h, Kept(h), NEW p \in Alive(h), NEW c \in Alive(h), h.parent[c] = NULL,
           h.held[c] >= 1, ~Below(h, c, p), NEW g, g = AppendH(h, p, c)
    PROVE  Kept(g)
  <1> DEFINE k == Touch(h, OnList(h, p) \cup SameNamed(h, p, Name[c]))
             m == InsertIntoTree(k, p, c)
             n == RefInc(m, p)
  <1>0. /\ h \in Heaps /\ p \in Objects /\ c \in Objects /\ Settled(h) /\ Owned(h)
        /\ h.parent \in [Objects -> Pointers] /\ h.sibling \in [Objects -> Pointers]
        /\ h.st \in [Objects -> Status] /\ NoCycle(h.parent) /\ NoCycle(h.sibling)
    BY DEF Kept, Settled, Good, Alive, Heaps
  <1>1. g = RefInc(n, c)
    BY DEF AppendH
  <1>2. /\ k \in Heaps /\ k.st = h.st /\ k.parent = h.parent /\ k.sibling = h.sibling
        /\ k.held = h.held
    BY <1>0 DEF Touch, Heaps
  <1> HIDE DEF k
  <1>3. Inserted(m, k, p, c)
    BY <1>0, <1>2, InsertType
  <1>4. Links(m, k, p, c, LastSon(k, p), Chained(k, p, c), ChainLast(k, Chained(k, p, c), p, c))
    BY <1>0, <1>2, InsertLinks
  <1> HIDE DEF m
  <1>5. /\ m \in Heaps /\ m.st = [h.st EXCEPT ![c] = "inserted"]
        /\ m.parent = [h.parent EXCEPT ![c] = p] /\ m.held = h.held
    BY <1>2, <1>3 DEF Inserted
  <1>6. m.sibling[c] = NULL /\ \A x \in Objects \ {c} : m.sibling[x] = h.sibling[x] \/ m.sibling[x] = c
    BY <1>2, <1>4 DEF Links
  <1>7. m.st[p] # "freed" /\ m.st[c] # "freed"
    BY <1>0, <1>5 DEF Alive
  <1>8. /\ n \in Heaps /\ n.st = m.st /\ n.parent = m.parent /\ n.sibling = m.sibling
        /\ n.held = m.held
    <2> DEFINE r == [m.rc EXCEPT ![p] = @ + 1]
    <2>1. r \in [Objects -> Int]
      BY <1>0, <1>5 DEF Heaps
    <2>2. n = [m EXCEPT !.rc = r]
      BY <1>7 DEF RefInc
    <2> HIDE DEF r, n
    <2> QED
      BY <1>5, <2>1, <2>2 DEF Heaps
  <1> HIDE DEF n
  <1>9. g.st = n.st /\ g.parent = n.parent /\ g.sibling = n.sibling /\ g.held = n.held
    <2>1. g = [n EXCEPT !.rc = [n.rc EXCEPT ![c] = @ + 1]]
      BY <1>1, <1>7, <1>8 DEF RefInc
    <2> QED
      BY <1>8, <2>1 DEF Heaps
  <1>10. /\ \A x \in Objects : g.parent[x] = IF x = c THEN p ELSE h.parent[x]
         /\ \A x \in Objects : g.st[x] = IF x = c THEN "inserted" ELSE h.st[x]
         /\ g.held = h.held
    BY <1>0, <1>5, <1>8, <1>9
  <1>11. \A x \in Objects : x # p => Children(g, x) \subseteq Children(h, x)
    BY <1>10 DEF Children, Alive
  <1>12. Owned(g)
    <2> SUFFICES ASSUME NEW x \in Objects
                 PROVE  /\ g.held[x] >= 0
                        /\ g.parent[x] # NULL => g.held[x] >= 1
                        /\ g.st[x] = "freed" => /\ g.held[x] = 0 /\ g.parent[x] = NULL
                                                /\ Children(g, x) = {}
      BY DEF Owned
    <2>1. /\ h.held[x] >= 0 /\ (h.parent[x] # NULL => h.held[x] >= 1)
          /\ h.st[x] = "freed" => /\ h.held[x] = 0 /\ h.parent[x] = NULL
                                  /\ Children(h, x) = {}
      BY <1>0 DEF Owned
    <2>2. ASSUME g.st[x] = "freed" PROVE x # c /\ x # p /\ h.st[x] = "freed"
      BY <1>10, <2>2 DEF Alive
    <2> QED
      BY <1>10, <1>11, <2>1, <2>2
  <1>13. NoCycle(g.parent)
    <2>1. c \notin Reach(h.parent, p)
      BY DEF Below
    <2> QED
      BY <1>0, <1>10, <2>1, LinkNoCycle
  <1>14. NoCycle(g.sibling)
    BY <1>0, <1>6, <1>8, <1>9, EndNoCycle
  <1>15. p # c
    BY <1>0, ReachSelf DEF Below
  <1>16. Settled(g)
    BY <1>0, <1>15, AppendHGood
  <1> QED
    BY <1>12, <1>13, <1>14, <1>16 DEF Kept

\* Taking a reference to a live object.
LEMMA GetKept ==
    ASSUME NEW h, Kept(h), NEW o \in Alive(h), NEW g, g = RefInc(Hold(h, o, 1), o)
    PROVE  Kept(g)
  <1> DEFINE t == [h.held EXCEPT ![o] = @ + 1]
             k == [h EXCEPT !.held = t]
             r == [k.rc EXCEPT ![o] = @ + 1]
  <1>0. /\ h \in Heaps /\ o \in Objects /\ h.st[o] # "freed" /\ Settled(h) /\ Owned(h)
        /\ h.held \in [Objects -> Int]
    BY DEF Kept, Settled, Good, Alive, Heaps
  <1>1. Hold(h, o, 1) = k
    BY <1>0 DEF Hold
  <1>2. t \in [Objects -> Int] /\ \A x \in Objects : t[x] = IF x = o THEN h.held[o] + 1 ELSE h.held[x]
    BY <1>0
  <1> HIDE DEF t
  <1>3. /\ k \in Heaps /\ k.st = h.st /\ k.parent = h.parent /\ k.sibling = h.sibling
        /\ k.held = t
    BY <1>0, <1>2 DEF Heaps
  <1> HIDE DEF k
  <1>4. g = [k EXCEPT !.rc = r]
    BY <1>0, <1>1, <1>3 DEF RefInc
  <1> HIDE DEF r
  <1>5. g.st = h.st /\ g.parent = h.parent /\ g.sibling = h.sibling /\ g.held = t
    BY <1>3, <1>4 DEF Heaps
  <1>6. \A x : Children(g, x) = Children(h, x)
    BY <1>5 DEF Children, Alive
  <1>7. Owned(g)
    <2> SUFFICES ASSUME NEW x \in Objects
                 PROVE  /\ g.held[x] >= 0
                        /\ g.parent[x] # NULL => g.held[x] >= 1
                        /\ g.st[x] = "freed" => /\ g.held[x] = 0 /\ g.parent[x] = NULL
                                                /\ Children(g, x) = {}
      BY DEF Owned
    <2>1. /\ h.held[x] >= 0 /\ (h.parent[x] # NULL => h.held[x] >= 1) /\ h.held[x] \in Int
          /\ h.st[x] = "freed" => /\ h.held[x] = 0 /\ h.parent[x] = NULL
                                  /\ Children(h, x) = {}
      BY <1>0 DEF Owned
    <2>2. CASE x = o
      BY <1>0, <1>2, <1>5, <2>1, <2>2
    <2>3. CASE x # o
      BY <1>2, <1>5, <1>6, <2>1, <2>3
    <2> QED
      BY <2>2, <2>3
  <1>8. Settled(g)
    BY <1>0, GetGood
  <1> QED
    BY <1>5, <1>7, <1>8 DEF Kept

\* Allocating an object.
LEMMA NewKept ==
    ASSUME IInv, Kept(heap), NEW o \in Objects, New(o)
    PROVE  Kept(heap')
  <1>0. /\ heap \in Heaps /\ Owned(heap) /\ Placed(heap) /\ heap.st[o] = "unused"
        /\ heap.held \in [Objects -> Int] /\ heap.st \in [Objects -> Status]
    BY DEF Kept, Settled, Good, Heaps, New
  <1>1. /\ heap'.st = [heap.st EXCEPT ![o] = "fresh"] /\ heap'.parent = heap.parent
        /\ heap'.sibling = heap.sibling /\ heap'.held = [heap.held EXCEPT ![o] = 1]
    BY <1>0 DEF New, Heaps
  <1>2. /\ \A x \in Objects : heap'.st[x] = IF x = o THEN "fresh" ELSE heap.st[x]
        /\ \A x \in Objects : heap'.held[x] = IF x = o THEN 1 ELSE heap.held[x]
    BY <1>0, <1>1
  <1>3. \A x \in Objects : Children(heap', x) = Children(heap, x)
    BY <1>0, <1>1, <1>2, ObjectsAssumption DEF Children, Alive, Placed
  <1>4. Owned(heap')
    <2> SUFFICES ASSUME NEW x \in Objects
                 PROVE  /\ heap'.held[x] >= 0
                        /\ heap'.parent[x] # NULL => heap'.held[x] >= 1
                        /\ heap'.st[x] = "freed" => /\ heap'.held[x] = 0 /\ heap'.parent[x] = NULL
                                                    /\ Children(heap', x) = {}
      BY DEF Owned
    <2>1. /\ heap.held[x] >= 0 /\ (heap.parent[x] # NULL => heap.held[x] >= 1)
          /\ heap.st[x] = "freed" => /\ heap.held[x] = 0 /\ heap.parent[x] = NULL
                                     /\ Children(heap, x) = {}
      BY <1>0 DEF Owned
    <2> QED
      BY <1>1, <1>2, <1>3, <2>1
  <1>5. Settled(heap')
    BY NewGood DEF IInv
  <1> QED
    BY <1>1, <1>4, <1>5 DEF Kept

\* The activations after a return to a loop.
LEMMA ReturnFrames ==
    ASSUME IInv, DestroyTreeReturn, NEW n, n = Len(stack) - 1, n # 0
    PROVE  /\ n \in Nat /\ n >= 1 /\ Len(stack) = n + 1
           /\ Len(stack') = n /\ \A i \in 1 .. n - 1 : stack'[i] = stack[i]
           /\ stack'[n].thiz = stack[n].thiz
           /\ stack'[n].chld = Touch(heap, {Top.thiz}).sibling[stack[n].chld]
           /\ heap' = DropChildH(Touch(heap, {Top.thiz}), stack[n].chld)
  <1> DEFINE h == Touch(heap, {Top.thiz})
             below == SubSeq(stack, 1, Len(stack) - 1)
             sb == h.sibling[stack[n].chld]
  <1>1. stack \in Seq(Frames) /\ stack # <<>>
    BY DEF IInv, DestroyTreeReturn
  <1>2. Len(stack) \in Nat \ {0} /\ n \in Nat /\ n >= 1 /\ Len(stack) = n + 1
    BY <1>1
  <1>3. below \in Seq(Frames) /\ Len(below) = n /\ \A i \in 1 .. n : below[i] = stack[i]
    <2>1. \A i \in 1 .. n : stack[i] \in Frames
      BY <1>1, <1>2
    <2>2. 1 \in Int /\ n \in Int
      BY <1>2
    <2>3. /\ SubSeq(stack, 1, n) \in Seq(Frames)
          /\ Len(SubSeq(stack, 1, n)) = IF 1 <= n THEN n - 1 + 1 ELSE 0
          /\ \A i \in 1 .. n - 1 + 1 : SubSeq(stack, 1, n)[i] = stack[1 + i - 1]
      BY <2>1, <2>2, SubSeqProperties
    <2> QED
      BY <1>2, <2>2, <2>3
  <1>4. below # <<>>
    BY <1>2, <1>3
  <1>5. below[Len(below)] = stack[n] /\ below[n] = stack[n]
    BY <1>2, <1>3
  <1>6. /\ heap' = DropChildH(h, below[Len(below)].chld)
        /\ stack' = [below EXCEPT ![Len(below)].chld = h.sibling[below[Len(below)].chld]]
    BY <1>4 DEF DestroyTreeReturn
  <1> HIDE DEF below, h
  <1>7. heap' = DropChildH(h, stack[n].chld) /\ stack' = [below EXCEPT ![n].chld = sb]
    BY <1>3, <1>5, <1>6
  <1>8. stack[n] \in Frames
    BY <1>1, <1>2
  <1> HIDE DEF sb
  <1> DEFINE fr == [below[n] EXCEPT !.chld = sb]
  <1>9. fr.thiz = stack[n].thiz /\ fr.chld = sb
    BY <1>5, <1>8 DEF Frames
  <1>10. stack' = [below EXCEPT ![n] = fr]
    BY <1>7
  <1> HIDE DEF fr
  <1>11. Len(stack') = n /\ stack'[n] = fr /\ \A i \in 1 .. n - 1 : stack'[i] = stack[i]
    BY <1>2, <1>3, <1>10
  <1> QED
    BY <1>2, <1>7, <1>9, <1>11 DEF h, sb

\* A step of a caller that tears trees down the way the session code does.
LEMMA SessionKept ==
    ASSUME IInv, Kept(heap), InTeardown(heap, stack), SessionNext
    PROVE  Kept(heap') /\ InTeardown(heap', stack')
  <1>0. /\ heap \in Heaps /\ Settled(heap) /\ Placed(heap)
        /\ stack \in Seq(Frames) /\ Walking(stack)
    BY DEF IInv, Settled, Good
  <1>i. ASSUME Idle, UNCHANGED stack PROVE InTeardown(heap', stack')
    BY <1>i, NoTeardown DEF Idle
  <1>1. ASSUME NEW o \in Objects, New(o) PROVE Kept(heap') /\ InTeardown(heap', stack')
    BY <1>i, <1>1, NewKept DEF New
  <1>2. ASSUME NEW o \in Objects, RefGet(o) PROVE Kept(heap') /\ InTeardown(heap', stack')
    BY <1>i, <1>2, GetKept DEF RefGet
  <1>3. ASSUME NEW o \in Objects, PutOwned(o) PROVE Kept(heap') /\ InTeardown(heap', stack')
    BY <1>i, <1>3, PutKept DEF PutOwned, RefPut
  <1>4. ASSUME NEW o \in Objects, RemoveLinked(o) PROVE Kept(heap') /\ InTeardown(heap', stack')
    BY <1>i, <1>4, RemoveKept DEF RemoveLinked, RemoveFromParent
  <1>5. ASSUME NEW o \in Objects, Lookup(o) PROVE Kept(heap') /\ InTeardown(heap', stack')
    BY <1>i, <1>5, TouchKept DEF Lookup
  <1>6. ASSUME NEW o \in Objects, DestroyIntact(o) PROVE Kept(heap') /\ InTeardown(heap', stack')
    <2>1. /\ o \in Alive(heap) /\ Intact(heap, o) /\ heap' = heap
          /\ stack' = <<[thiz |-> o, chld |-> heap.sons[o]]>>
      BY <1>6 DEF DestroyIntact, DestroyTree
    <2>2. InTeardown(heap, stack')
      BY <2>1, EntryTeardown
    <2> QED
      BY <2>1, <2>2
  <1>7. ASSUME NEW p \in Objects, NEW c \in Objects, AppendChild(p, c)
        PROVE  Kept(heap') /\ InTeardown(heap', stack')
    <2>1. /\ p \in Alive(heap) /\ heap.st[c] = "fresh" /\ heap.held[c] >= 1
          /\ ~Below(heap, c, p) /\ heap' = AppendH(heap, p, c) /\ Idle /\ UNCHANGED stack
      BY <1>7 DEF AppendChild
    <2>2. c \in Alive(heap) /\ heap.parent[c] = NULL
      BY <1>0, <2>1 DEF Alive, Placed
    <2> QED
      BY <1>i, <2>1, <2>2, AppendKept
  <1>8. ASSUME NEW p \in Objects, NEW c \in Objects, LookupAll(p, c)
        PROVE  Kept(heap') /\ InTeardown(heap', stack')
    BY <1>i, <1>8, TouchKept DEF LookupAll
  <1>9. PICK U \in SUBSET Objects : Teardown(heap, stack, U)
    BY DEF InTeardown
  <1>10. CASE DestroyTreeCall
    <2> DEFINE a == stack[Len(stack)].chld
               fr == [thiz |-> a, chld |-> heap.sons[a]]
    <2>1. /\ stack # <<>> /\ a # NULL /\ heap' = Touch(heap, {a})
          /\ stack' = Append(stack, fr)
      BY <1>10 DEF DestroyTreeCall, Top
    <2>2. Teardown(heap, stack', U \ {a})
      BY <1>0, <1>9, <2>1, CallTeardown
    <2> HIDE DEF a, fr
    <2>3. /\ Kept(heap') /\ heap'.parent = heap.parent /\ heap'.sons = heap.sons
          /\ heap'.sibling = heap.sibling /\ \A p : Children(heap', p) = Children(heap, p)
      BY <2>1, TouchKept
    <2>4. Teardown(heap', stack', U \ {a})
      BY <2>2, <2>3, SameTeardown
    <2>5. U \ {a} \in SUBSET Objects
      OBVIOUS
    <2> QED
      BY <2>3, <2>4, <2>5 DEF InTeardown
  <1>11. CASE DestroyTreeReturn
    <2> DEFINE h == Touch(heap, {Top.thiz})
               n == Len(stack) - 1
               c == stack[n].chld
    <2>1. /\ Kept(h) /\ h.st = heap.st /\ h.parent = heap.parent /\ h.sons = heap.sons
          /\ h.sibling = heap.sibling /\ \A p : Children(h, p) = Children(heap, p)
      BY TouchKept
    <2>2. CASE n = 0
      <3>1. SubSeq(stack, 1, Len(stack) - 1) = <<>>
        <4>1. 1 \in Int /\ 0 \in Int /\ \A i \in 1 .. 0 : stack[i] \in Frames
          OBVIOUS
        <4>2. SubSeq(stack, 1, 0) \in Seq(Frames) /\ Len(SubSeq(stack, 1, 0)) = 0
          BY <4>1, SubSeqProperties
        <4>3. Len(stack) - 1 = 0
          BY <2>2
        <4> DEFINE s0 == SubSeq(stack, 1, 0)
        <4>4. SubSeq(stack, 1, Len(stack) - 1) = s0
          BY <4>3, Zenon
        <4> HIDE DEF s0
        <4>5. s0 \in Seq(Frames) /\ Len(s0) = 0
          BY <4>2 DEF s0
        <4>6. s0 = <<>>
          BY ONLY <4>5
        <4> QED
          BY <4>4, <4>6, Zenon
      <3>2. heap' = h /\ stack' = <<>>
        BY <1>11, <3>1 DEF DestroyTreeReturn
      <3> QED
        BY <2>1, <3>2, NoTeardown
    <2>3. CASE n # 0
      <3>1. /\ n \in Nat /\ n >= 1 /\ Len(stack) = n + 1
            /\ Len(stack') = n /\ \A i \in 1 .. n - 1 : stack'[i] = stack[i]
            /\ stack'[n].thiz = stack[n].thiz /\ stack'[n].chld = h.sibling[c]
            /\ heap' = DropChildH(h, c)
        BY <1>11, <2>3, ReturnFrames
      <3> HIDE DEF h
      <3>2. Teardown(h, stack, U)
        BY <1>9, <2>1, SameTeardown
      <3>3. n \in 1 .. Len(stack) - 1 /\ n \in 1 .. Len(stack) /\ stack[n] \in Frames
        BY <1>0, <3>1
      <3>4. c \in Objects /\ h.parent[c] # NULL
        BY <1>0, <3>2, <3>3, ObjectsAssumption DEF Teardown, Frames, Pointers, Walking
      <3>5. c \in Alive(h)
        BY <2>1, <3>4 DEF Kept, Settled, Good, Placed, Alive
      <3>6. Kept(heap') /\ Detached(heap', h, c)
        BY <2>1, <3>1, <3>4, <3>5, DropKept
      <3>7. Teardown(heap', stack', U)
        <4> HIDE DEF n
        <4>1. c = stack[n].chld
          OBVIOUS
        <4> HIDE DEF c
        <4>2. Kept(h)
          BY <2>1
        <4>3. stack \in Seq(Frames) /\ Walking(stack)
          BY <1>0
        <4>4. U \in SUBSET Objects
          OBVIOUS
        <4>5. n \in Nat /\ n >= 1 /\ Len(stack) = n + 1 /\ Len(stack') = n
          BY <3>1
        <4>6. /\ \A i \in 1 .. n - 1 : stack'[i] = stack[i]
              /\ stack'[n].thiz = stack[n].thiz /\ stack'[n].chld = h.sibling[c]
          BY <3>1
        <4>7. Kept(heap') /\ Detached(heap', h, c)
          BY <3>6
        <4> QED
          BY ONLY <3>2, <4>1, <4>2, <4>3, <4>4, <4>5, <4>6, <4>7, ReturnTeardown
      <3> QED
        BY <3>6, <3>7 DEF InTeardown
    <2> QED
      BY <2>2, <2>3
  <1> QED
    BY <1>1, <1>2, <1>3, <1>4, <1>5, <1>6, <1>7, <1>8, <1>10, <1>11
       DEF SessionNext, DestroyTreeStep

-----------------------------------------------------------------------------
(* The specification with its three kinds of callers. *)

\* The inductive invariant of CallerSpec.
CInv ==
    /\ IInv
    /\ caller = "stanza" => Sound(heap)
    /\ caller = "session" => Kept(heap) /\ InTeardown(heap, stack)

\* At start there is no list.
LEMMA InitCInv == CallerInit => CInv
  <1> SUFFICES ASSUME CallerInit PROVE CInv
    OBVIOUS
  <1>0. Init /\ IInv
    BY InitIInv DEF CallerInit
  <1>1. heap \in Heaps /\ Placed(heap) /\ ~heap.uaf
    BY <1>0 DEF IInv, Settled, Good, Init
  <1>2. Alive(heap) = {}
    BY <1>0 DEF Init, Alive
  <1>3. Loose(heap) /\ Rooted(heap)
    BY <1>0, <1>2 DEF Init, Loose, Rooted
  <1>4. Ordered(heap)
    <2> DEFINE pos == [x \in Objects |-> 0]
    <2>1. pos \in [Objects -> 0 .. 0] /\ 0 \in Nat
      OBVIOUS
    <2>2. \A q : Lists(heap, q) /\ Nexts(heap, q)
      BY <1>2 DEF Lists, Nexts
    <2> HIDE DEF pos
    <2> QED
      BY <2>1, <2>2 DEF Ordered
  <1>5. Sound(heap)
    BY <1>1, <1>3, <1>4 DEF Sound, Tidy
  <1>6. Owned(heap)
    BY <1>0, <1>2 DEF Init, Owned
  <1>7. NoCycle(heap.parent) /\ NoCycle(heap.sibling)
    BY <1>0, ReachNull DEF Init, NoCycle
  <1>8. Kept(heap)
    BY <1>0, <1>6, <1>7 DEF Kept, IInv
  <1>9. InTeardown(heap, stack)
    BY <1>0, NoTeardown DEF Init
  <1> QED
    BY <1>0, <1>5, <1>8, <1>9 DEF CInv

\* Disciplined callers are callers.
LEMMA AnyCaller == SessionNext \/ StanzaNext => AnyNext
  <1>1. \A o \in Objects : /\ PutOwned(o) => RefPut(o)
                           /\ RemoveLinked(o) => RemoveFromParent(o)
                           /\ DestroyIntact(o) => DestroyTree(o)
                           /\ PutStanza(o) => RefPut(o)
    BY DEF PutOwned, RemoveLinked, DestroyIntact, PutStanza
  <1> QED
    BY <1>1 DEF SessionNext, StanzaNext, AnyNext

\* Every step of every kind of caller preserves the invariant.
LEMMA NextCInv == CInv /\ [CallerNext]_<<vars, caller>> => CInv'
  <1> SUFFICES ASSUME CInv, [CallerNext]_<<vars, caller>> PROVE CInv'
    OBVIOUS
  <1>1. [AnyNext]_vars
    BY AnyCaller DEF CallerNext
  <1>2. IInv'
    BY <1>1, NextIInv DEF CInv
  <1>3. ASSUME caller' = "stanza" PROVE Sound(heap)'
    <2>1. caller = "stanza" /\ IInv /\ Sound(heap)
      BY <1>3 DEF CallerNext, CInv
    <2>2. CASE StanzaNext
      BY <2>1, <2>2, StanzaSound
    <2>3. CASE UNCHANGED <<vars, caller>>
      BY <2>1, <2>3 DEF vars
    <2> QED
      BY <2>1, <2>2, <2>3 DEF CallerNext
  <1>4. ASSUME caller' = "session" PROVE Kept(heap') /\ InTeardown(heap', stack')
    <2>1. caller = "session" /\ IInv /\ Kept(heap) /\ InTeardown(heap, stack)
      BY <1>4 DEF CallerNext, CInv
    <2>2. CASE SessionNext
      BY <2>1, <2>2, SessionKept
    <2>3. CASE UNCHANGED <<vars, caller>>
      BY <2>1, <2>3 DEF vars
    <2> QED
      BY <2>1, <2>2, <2>3 DEF CallerNext
  <1> QED
    BY <1>2, <1>3, <1>4 DEF CInv

\* The inductive invariant holds of every behaviour of the three kinds of
\* callers.
THEOREM CallerCInv == CallerSpec => []CInv
  BY InitCInv, NextCInv, PTL DEF CallerSpec

\* Without _RMOV, walking sons and sibling meets exactly the children, for any
\* number of objects and any names: x_object_destroy_no_cb repairs the lists.
THEOREM CallerListExact == CallerSpec => []StanzaListExact
  <1>1. CInv => StanzaListExact
    BY ListsExact DEF CInv, Sound, StanzaListExact, ListExact
  <1> QED
    BY <1>1, CallerCInv, PTL

\* Without _RMOV, and with names none of which is a prefix of another, a loop
\* with x_object_get_next meets exactly the children of a name.
THEOREM CallerNextComplete == CallerSpec => []StanzaNextComplete
  <1>1. CInv => StanzaNextComplete
    <2> SUFFICES ASSUME CInv, caller = "stanza", NamesApart,
                        NEW p \in Alive(heap), NEW c \in Children(heap, p)
                 PROVE  Reach(heap.next, GetChild(heap, p, Name[c]))
                            = {d \in Children(heap, p) : Name[d] = Name[c]}
      BY DEF StanzaNextComplete, NextComplete
    <2>1. Tidy(heap) /\ c \in Objects
      BY DEF CInv, Sound, Children, Alive
    <2>2. Reach(heap.next, GetChild(heap, p, Name[c])) = Named(heap, p, Name[c])
      BY <2>1, ListsExact
    <2> QED
      BY <2>2 DEF Named, OfName
  <1> QED
    BY <1>1, CallerCInv, PTL

\* Without _RMOV, and with such names, no operation of x_obj.c reads or writes a
\* node that was freed.
THEOREM CallerNoDangling == CallerSpec => []StanzaNoDangling
  <1>1. CInv => StanzaNoDangling
    BY DEF CInv, Sound, StanzaNoDangling, NoDanglingAccess
  <1> QED
    BY <1>1, CallerCInv, PTL

\* Callers that tear trees down the way the session code does never see an object
\* freed that code owns, that is linked, or that is the parent of another.
THEOREM CallerKeepsUsed == CallerSpec => []SessionKeepsUsed
  <1>1. CInv => SessionKeepsUsed
    BY DEF CInv, Kept, Owned, SessionKeepsUsed, NoFreeWhileInUse
  <1> QED
    BY <1>1, CallerCInv, PTL

=============================================================================
