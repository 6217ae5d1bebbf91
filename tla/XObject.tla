------------------------------- MODULE XObject -------------------------------
(***************************************************************************)
(* The object tree of xwlib (xmppbot/xwlib/x_obj.c): reference-counted      *)
(* nodes linked by parent, sons, sibling and next pointers.                *)
(*                                                                         *)
(* heap is a record of functions over Objects, one function per field of   *)
(* struct xobject / tree_node that the tree code reads or writes.  Every   *)
(* C function is an operator from heaps to heaps, so a handler that calls  *)
(* several of them is their composition, in the order of the calls.        *)
(*                                                                         *)
(* Two fields are bookkeeping that the code does not store.  held[o] is    *)
(* the number of references to o that program code owns: the creator's,    *)
(* and each x_object_ref_get not yet matched by x_object_ref_put.  leak[o] *)
(* counts the references to o that nobody can give back any more, because  *)
(* the child that carried them was destroyed without releasing its parent. *)
(* uaf records that some access reached a freed node; what follows such an *)
(* access is undefined, so no operation is taken afterwards.               *)
(*                                                                         *)
(* Attributes, content, names set after creation, listeners and the        *)
(* control register are not part of this module; object names are the      *)
(* constant function Name, and EQN is the comparison of x_utils.h.         *)
(***************************************************************************)
EXTENDS Integers, Sequences, FiniteSets

CONSTANTS Objects,   \* the addresses x_malloc can return for objects
          NULL,      \* the null pointer
          Name,      \* Name[o]: the name object o is created with
          EQN,       \* pairs <<s1, s2>> with x_strncasecmp(s1, s2, strlen(s1)) = 0
          MaxHeld    \* bound on the references program code takes to one object

ASSUME ObjectsAssumption == IsFiniteSet(Objects) /\ NULL \notin Objects

ASSUME MaxHeldAssumption == MaxHeld \in Nat \ {0}

\* A string is a prefix of itself.
ASSUME EQNAssumption == \A o \in Objects : <<Name[o], Name[o]>> \in EQN

VARIABLES heap,      \* the nodes
          stack      \* activation records of x_object_destroy_tree

vars == <<heap, stack>>

Pointers == Objects \cup {NULL}

\* A node is unused until it is allocated, fresh until it is first linked
\* into a tree, inserted from then on, and freed once x_free was called.
Status == {"unused", "fresh", "inserted", "freed"}

Heaps == [st : [Objects -> Status],
          parent : [Objects -> Pointers],
          sons : [Objects -> Pointers],
          sibling : [Objects -> Pointers],
          next : [Objects -> Pointers],
          child_count : [Objects -> Int],
          rc : [Objects -> Int],
          held : [Objects -> Int],
          leak : [Objects -> Nat],
          uaf : BOOLEAN]

Frames == [thiz : Objects, chld : Pointers]

\* Every loop of x_object_destroy_tree that waits for a recursive call waits
\* for the one on its current child.
Walking(s) == \A i \in 1 .. Len(s) - 1 : s[i].chld # NULL

\* Fields hold pointers, counters and states, and the activation records of
\* x_object_destroy_tree form a chain of calls.
TypeOK == heap \in Heaps /\ stack \in Seq(Frames) /\ Walking(stack)

Alive(h) == {o \in Objects : h.st[o] \in {"fresh", "inserted"}}

Children(h, p) == {c \in Alive(h) : h.parent[c] = p}

-----------------------------------------------------------------------------
(* Walking the lists. *)

\* The nodes met when pointer field f is followed from a: the smallest set
\* that holds a and is closed under f.
Reach(f, a) ==
    {x \in Objects : \A S \in SUBSET Objects :
        (a \in S \cup {NULL} /\ \A y \in S : f[y] \in S \cup {NULL}) => x \in S}

\* The nodes on p's list of sons.
OnList(h, p) == Reach(h.sibling, h.sons[p])

\* The last node of the list that starts at a.
Last(f, a) == CHOOSE x \in Reach(f, a) : f[x] = NULL

\* __x_object_get_child: the first node of p's list whose name compares equal
\* to nm under EQN; NULL if there is none.
GetChild(h, p, nm) ==
    LET named == {x \in OnList(h, p) : <<Name[x], nm>> \in EQN}
    IN  IF named = {} THEN NULL
        ELSE CHOOSE x \in named : named \subseteq Reach(h.sibling, x)

\* The nodes that a walk along f from a meets until it finds o; all of them if
\* it does not.
Until(f, a, o) ==
    IF o \in Reach(f, a) THEN Reach(f, a) \ Reach(f, f[o]) ELSE Reach(f, a)

\* The nodes met by a loop over the children of a name: __x_object_get_child and
\* then x_object_get_next until there is none.
SameNamed(h, p, nm) ==
    LET first == GetChild(h, p, nm)
    IN  Until(h.sibling, h.sons[p], first) \cup Reach(h.next, first)

\* Reading or writing the nodes in S.
Touch(h, S) == [h EXCEPT !.uaf = @ \/ \E x \in S : h.st[x] = "freed"]

-----------------------------------------------------------------------------
(* Tree surgery. *)

\* Mutation: the next chain is never extended.
InsertNoNext(h, p, c) ==
    [h EXCEPT
        !.sons = IF h.sons[p] = NULL THEN [h.sons EXCEPT ![p] = c] ELSE h.sons,
        !.sibling = [x \in Objects |->
                        IF x = c THEN NULL
                        ELSE IF h.sons[p] # NULL /\ x = Last(h.sibling, h.sons[p]) THEN c
                        ELSE h.sibling[x]],
        !.st = [h.st EXCEPT ![c] = "inserted"],
        !.parent = [h.parent EXCEPT ![c] = p],
        !.next = [h.next EXCEPT ![c] = NULL],
        !.child_count = [h.child_count EXCEPT ![p] = @ + 1]]

\* __x_object_insert_into_tree, called for a node on no list.
InsertIntoTree(h, p, c) ==
    LET linked ==
          IF h.sons[p] = NULL
          THEN [h EXCEPT !.sons = [h.sons EXCEPT ![p] = c]]
          ELSE LET h1 == [h EXCEPT !.sibling =
                                [h.sibling EXCEPT ![Last(h.sibling, h.sons[p])] = c]]
                   f == GetChild(h1, p, Name[c])
               IN  [h1 EXCEPT !.next = [h1.next EXCEPT ![Last(h1.next, f)] = c]]
    IN  [linked EXCEPT
            !.st = [linked.st EXCEPT ![c] = "inserted"],
            !.parent = [linked.parent EXCEPT ![c] = p],
            !.next = [linked.next EXCEPT ![c] = NULL],
            !.sibling = [linked.sibling EXCEPT ![c] = NULL],
            !.child_count = [linked.child_count EXCEPT ![p] = @ + 1]]

\* Unlinks c from the list of pointer field f that starts at a, if some node
\* on it precedes c.
Bypass(f, a, c) ==
    [x \in Objects |-> IF x = c THEN NULL
                       ELSE IF x \in Reach(f, a) /\ f[x] = c THEN f[c]
                       ELSE f[x]]

\* Mutation: the last child is not counted out.
RemoveFloorOne(h, p, c) ==
    [h EXCEPT
        !.parent = [h.parent EXCEPT ![c] = NULL],
        !.next = Bypass(h.next, GetChild(h, p, Name[c]), c),
        !.sibling = Bypass(h.sibling, h.sons[p], c),
        !.child_count = [h.child_count EXCEPT ![p] = IF @ <= 1 THEN @ ELSE @ - 1]]

\* __x_object_remove_from_treenode.  The head of the list is left alone: when
\* c is the first son, sons still points to it.
RemoveFromTreenode(h, p, c) ==
    LET listed == h.sons[p] # NULL IN
    [h EXCEPT
        !.parent = [h.parent EXCEPT ![c] = NULL],
        !.next = IF listed THEN Bypass(h.next, GetChild(h, p, Name[c]), c) ELSE h.next,
        !.sibling = IF listed THEN Bypass(h.sibling, h.sons[p], c) ELSE h.sibling,
        !.child_count = [h.child_count EXCEPT ![p] = IF @ <= 0 THEN @ ELSE @ - 1]]

\* Mutation: a destroyed first son stays at the head of its parent's list.
UnlinkKeepHead(h, o) ==
    LET p == h.parent[o] IN
    [h EXCEPT !.sibling = Bypass(h.sibling, h.sons[p], o),
              !.next = Bypass(h.next, GetChild(h, p, Name[o]), o),
              !.parent = [h.parent EXCEPT ![o] = NULL],
              !.child_count = [h.child_count EXCEPT ![p] = @ - 1],
              !.leak = [h.leak EXCEPT ![p] = @ + 1]]

\* The part of x_object_destroy_no_cb that unlinks a node still in a tree.
\* Here the head of the list is repaired, and p's reference is not released.
UnlinkDying(h, o) ==
    LET p == h.parent[o]
        sib == Bypass(h.sibling, h.sons[p], o)
        sons == [h.sons EXCEPT ![p] = IF @ = o THEN h.sibling[o] ELSE @]
        h1 == [h EXCEPT !.sibling = sib, !.sons = sons]
        first == GetChild(h1, p, Name[o])
    IN  [Touch(h1, {p} \cup Until(h.sibling, h.sons[p], o)
                       \cup Until(h1.sibling, h1.sons[p], first)
                       \cup Until(h.next, first, o)) EXCEPT
            !.next = Bypass(h.next, first, o),
            !.parent = [h.parent EXCEPT ![o] = NULL],
            !.child_count = [h.child_count EXCEPT ![p] = @ - 1],
            !.leak = [h.leak EXCEPT ![p] = @ + 1]]

\* x_object_destroy: unlink if necessary, then x_free.
Destroy(h, o) ==
    LET h1 == IF h.parent[o] = NULL THEN h ELSE UnlinkDying(h, o)
    IN  [h1 EXCEPT !.st = [h1.st EXCEPT ![o] = "freed"]]

-----------------------------------------------------------------------------
(* Reference counting. *)

\* x_object_ref_get
RefInc(h, o) ==
    IF h.st[o] = "freed" THEN Touch(h, {o})
    ELSE [h EXCEPT !.rc = [h.rc EXCEPT ![o] = @ + 1]]

\* x_object_ref_put
RefDec(h, o) ==
    IF h.st[o] = "freed" THEN Touch(h, {o})
    ELSE LET h1 == [h EXCEPT !.rc = [h.rc EXCEPT ![o] = @ - 1]]
         IN  IF h1.rc[o] <= 0 THEN Destroy(h1, o) ELSE h1

\* Program code owns k more references to o; bookkeeping only.
Hold(h, o, k) ==
    IF h.st[o] = "freed" THEN h ELSE [h EXCEPT !.held = [h.held EXCEPT ![o] = @ + k]]

\* Program code gives up a reference it owns.
PutH(h, o) == RefDec(Hold(h, o, -1), o)

\* Mutation: _REFGET(parent) is forgotten.
AppendNoParentRef(h, p, c) ==
    RefInc(InsertIntoTree(Touch(h, OnList(h, p) \cup SameNamed(h, p, Name[c])), p, c), c)

\* x_object_append_child_no_cb: the tree takes a reference to each end of the
\* new link.
AppendH(h, p, c) ==
    LET walked == OnList(h, p) \cup SameNamed(h, p, Name[c])
    IN  RefInc(RefInc(InsertIntoTree(Touch(h, walked), p, c), p), c)

\* x_object_remove_from_parent: unlink, then drop the tree's references.  Of a
\* node that is not linked it drops the caller's.
RemoveH(h, o) ==
    LET p == h.parent[o]
        walked == Until(h.sibling, h.sons[p], o)
                  \cup Until(h.next, GetChild(h, p, Name[o]), o)
    IN  IF p = NULL THEN PutH(h, o)
        ELSE IF h.st[p] = "freed" THEN Touch(h, {p})
        ELSE RefDec(RefDec(RemoveFromTreenode(Touch(h, walked), p, o), o), p)

\* The body of the loop of x_object_destroy_tree after the recursive call:
\* _RMOV(_chld) and then _REFPUT(_chld), which drops the creator's reference.
DropChildH(h, c) == PutH(RemoveH(h, c), c)

-----------------------------------------------------------------------------
(* Operations as program code calls them. *)

\* p lies in the subtree of c.
Below(h, c, p) == c \in Reach(h.parent, p)

Running == ~heap.uaf

\* No x_object_destroy_tree is on the stack of the calling thread.
Idle == Running /\ stack = <<>>

\* x_object_new_ns_match
New(o) ==
    /\ Idle
    /\ heap.st[o] = "unused"
    /\ heap' = [heap EXCEPT !.st = [heap.st EXCEPT ![o] = "fresh"],
                            !.rc = [heap.rc EXCEPT ![o] = 1],
                            !.held = [heap.held EXCEPT ![o] = 1]]
    /\ UNCHANGED stack

RefGet(o) ==
    /\ Idle
    /\ o \in Alive(heap)
    /\ heap.held[o] < MaxHeld
    /\ heap' = RefInc(Hold(heap, o, 1), o)
    /\ UNCHANGED stack

RefPut(o) ==
    /\ Idle
    /\ o \in Alive(heap)
    /\ heap' = PutH(heap, o)
    /\ UNCHANGED stack

\* Nothing was removed from the subtree of c so far.
Intact(h, c) ==
    \A d \in Alive(h) : Below(h, c, d) => OnList(h, d) = Children(h, d)

\* Every caller in the repository appends an object it has just created (and
\* so still owns), alone or with the subtree it has built below it.
AppendChild(p, c) ==
    /\ Idle
    /\ p \in Alive(heap)
    /\ heap.st[c] = "fresh" /\ heap.held[c] >= 1
    /\ ~Below(heap, c, p)
    /\ Intact(heap, c)
    /\ heap' = AppendH(heap, p, c)
    /\ UNCHANGED stack

RemoveFromParent(o) ==
    /\ Idle
    /\ o \in Alive(heap)
    /\ heap' = RemoveH(heap, o)
    /\ UNCHANGED stack

\* x_object_get_child, x_object_find_child and every other walk over p's sons.
Lookup(p) ==
    /\ Idle
    /\ p \in Alive(heap)
    /\ heap' = Touch(heap, OnList(heap, p))
    /\ UNCHANGED stack

\* A loop over all children of p that are named like o, such as the one over
\* the mechanisms in sasl_exit.
LookupAll(p, o) ==
    /\ Idle
    /\ p \in Alive(heap)
    /\ heap' = Touch(heap, SameNamed(heap, p, Name[o]))
    /\ UNCHANGED stack

\* Entry of x_object_destroy_tree.
DestroyTree(o) ==
    /\ Idle
    /\ o \in Alive(heap)
    /\ stack' = <<[thiz |-> o, chld |-> heap.sons[o]]>>
    /\ UNCHANGED heap

Top == stack[Len(stack)]

\* Mutation: the loop moves to the next sibling before the recursive call.
DestroyTreeCallEarly ==
    /\ Running /\ stack # <<>>
    /\ Top.chld # NULL
    /\ heap' = Touch(heap, {Top.chld})
    /\ stack' = Append([stack EXCEPT ![Len(stack)].chld = heap.sibling[Top.chld]],
                       [thiz |-> Top.chld, chld |-> heap.sons[Top.chld]])

\* The recursive call on the current child.
DestroyTreeCall ==
    /\ Running /\ stack # <<>>
    /\ Top.chld # NULL
    /\ heap' = Touch(heap, {Top.chld})
    /\ stack' = Append(stack, [thiz |-> Top.chld, chld |-> heap.sons[Top.chld]])

\* The end of the loop; the caller's loop, if any, drops the child it passed
\* and moves to the sibling that child had before it was dropped.
DestroyTreeReturn ==
    /\ Running /\ stack # <<>>
    /\ Top.chld = NULL
    /\ LET h == Touch(heap, {Top.thiz})
           below == SubSeq(stack, 1, Len(stack) - 1)
       IN  IF below = <<>>
           THEN heap' = h /\ stack' = <<>>
           ELSE LET c == below[Len(below)].chld
                IN  /\ heap' = DropChildH(h, c)
                    /\ stack' = [below EXCEPT ![Len(below)].chld = h.sibling[c]]

Init ==
    /\ heap = [st |-> [o \in Objects |-> "unused"],
               parent |-> [o \in Objects |-> NULL],
               sons |-> [o \in Objects |-> NULL],
               sibling |-> [o \in Objects |-> NULL],
               next |-> [o \in Objects |-> NULL],
               child_count |-> [o \in Objects |-> 0],
               rc |-> [o \in Objects |-> 0],
               held |-> [o \in Objects |-> 0],
               leak |-> [o \in Objects |-> 0],
               uaf |-> FALSE]
    /\ stack = <<>>

-----------------------------------------------------------------------------
(* Three kinds of callers. *)

DestroyTreeStep == DestroyTreeCall \/ DestroyTreeReturn

\* Callers that obey no discipline at all.
AnyNext ==
    \/ \E o \in Objects : \/ New(o) \/ RefGet(o) \/ RefPut(o)
                          \/ RemoveFromParent(o) \/ Lookup(o) \/ DestroyTree(o)
    \/ \E p, c \in Objects : AppendChild(p, c) \/ LookupAll(p, c)
    \/ DestroyTreeStep

AnySpec == Init /\ [][AnyNext]_vars

\* Media sessions: trees torn down with x_object_destroy_tree and _RMOV
\* (session_api.c).  The creator's reference of a linked object is left to
\* the tear-down, which is called on subtrees that lost no object before; any
\* other reference is dropped by the one who took it.
PutOwned(o) ==
    /\ heap.held[o] >= (IF heap.parent[o] = NULL THEN 1 ELSE 2)
    /\ RefPut(o)

RemoveLinked(o) == heap.parent[o] # NULL /\ RemoveFromParent(o)

DestroyIntact(o) == Intact(heap, o) /\ DestroyTree(o)

SessionNext ==
    \/ \E o \in Objects : \/ New(o) \/ RefGet(o) \/ PutOwned(o)
                          \/ RemoveLinked(o) \/ Lookup(o) \/ DestroyIntact(o)
    \/ \E p, c \in Objects : AppendChild(p, c) \/ LookupAll(p, c)
    \/ DestroyTreeStep

\* Stanza objects: built by the parser, never _RMOVed; a handler that is done
\* with a child calls _REFPUT on it while it is still linked, first for the
\* creator's reference and, for a later stanza, for the tree's (presence.c,
\* bind.c, iq.c).
PutStanza(o) ==
    /\ \/ heap.held[o] >= 1
       \/ heap.parent[o] # NULL /\ Children(heap, o) = {}
    /\ RefPut(o)

StanzaNext ==
    \/ \E o \in Objects : New(o) \/ RefGet(o) \/ PutStanza(o) \/ Lookup(o)
    \/ \E p, c \in Objects : AppendChild(p, c) \/ LookupAll(p, c)

-----------------------------------------------------------------------------
(* Properties. *)

Linked(h, o) == IF h.parent[o] = NULL THEN 0 ELSE 1

\* h.rc[o] is own[o] plus one while o is linked below a parent, plus one for
\* each child, plus those leaked by children destroyed while linked.
BalancedAs(h, own) ==
    \A o \in Alive(h) :
        h.rc[o] = own[o] + Linked(h, o) + Cardinality(Children(h, o)) + h.leak[o]

\* Whatever callers do, the counter of every object that is still allocated is
\* exactly the references owned by code plus those of the tree: append,
\* remove, put and destroy_tree never lose or invent a reference.
RefBalance == BalancedAs(heap, heap.held)

\* Whatever callers do, child_count is the number of objects whose parent
\* pointer leads here, although it is kept by three different functions.
Counted(h) ==
    \A p \in Alive(h) : h.child_count[p] = Cardinality(Children(h, p))

CountExact == Counted(heap)

\* Whatever callers do, only a live object that was once linked has a parent
\* pointer, and it leads neither to itself nor to memory that was never
\* allocated: destroying and removing both clear it.
Placed(h) ==
    \A o \in Objects :
        /\ h.parent[o] # NULL => /\ h.st[o] = "inserted"
                                 /\ h.parent[o] # o
                                 /\ h.st[h.parent[o]] # "unused"
        /\ h.st[o] = "unused" => h.leak[o] = 0 /\ h.child_count[o] = 0

\* Under the discipline of the session code no object is freed while code
\* holds a reference to it, while it is linked, or while an object that is
\* still allocated points to it as its parent.
NoFreeWhileInUse ==
    \A o \in Objects :
        heap.st[o] = "freed" => /\ heap.held[o] = 0
                                /\ heap.parent[o] = NULL
                                /\ Children(heap, o) = {}

\* As long as nobody uses _RMOV, walking sons and sibling from an object meets
\* exactly its children, each of them allocated.
ListExact == \A p \in Alive(heap) : OnList(heap, p) = Children(heap, p)

\* No name is a proper prefix of another one.  EQN takes a prefix for the name
\* itself, and one next chain may then hold several names: destroying the first
\* child of such a chain makes later ones unreachable or leaves a pointer to it.
NamesApart ==
    \A x, y \in Objects : <<Name[x], Name[y]>> \in EQN => Name[x] = Name[y]

\* As long as nobody uses _RMOV, the next chain that starts at the first child
\* found under a name holds exactly the children of that name: a loop with
\* x_object_get_next misses none of them and meets no other.
NextComplete ==
    \A p \in Alive(heap) : \A c \in Children(heap, p) :
        Reach(heap.next, GetChild(heap, p, Name[c]))
            = {d \in Children(heap, p) : Name[d] = Name[c]}

\* As long as nobody uses _RMOV, no operation reaches a freed node.
NoDanglingAccess == ~heap.uaf

=============================================================================
