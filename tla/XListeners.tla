----------------------------- MODULE XListeners ------------------------------
(***************************************************************************)
(* The two lists through which an object of xwlib/x_obj.c reaches others:  *)
(* its listeners, which are sent messages (x_object_sendmsg_multicast),    *)
(* and its followers, which are written data (x_object_writev_out,         *)
(* x_object_write_out).  Both lists hold a reference of each entry.        *)
(*                                                                         *)
(* A multicast and a write call out while they walk: a listener changes    *)
(* the list from its callback, a follower that keeps failing is dropped    *)
(* from the list by the walk itself.  A walk is one step per entry.        *)
(*                                                                         *)
(* A callback that takes the entry it was called through off the list      *)
(* leaves the walk with a cell that is freed.  jingle_msg_recv does this,  *)
(* as the only listener of a session.  stale stands for it; what the walk  *)
(* reads next is up to the allocator, so the model stops there.  It stops  *)
(* as well when the drops have put the last reference of the object.       *)
(*                                                                         *)
(* Applications add followers from their own threads while a device is     *)
(* writing (a settings window shows the camera): AddFollower runs at any   *)
(* time.  Nothing in the repository deletes a follower during a write.     *)
(***************************************************************************)
EXTENDS Integers, Sequences, SequencesExt, FiniteSets

CONSTANTS Listening,   \* objects that are subscribed
          Following,   \* objects that are added as followers
          Handler,     \* the write_handler of the object, {} for none
          Limit,       \* DEFAULT_IOLIFECOUNT
          Penalty,     \* what a failed write costs
          MaxLife,     \* bound of io_life_count, which stays there
          MinLife,     \* bound of -io_life_count
          MaxFollows,  \* bound of the follower list and the followers lost
          Owners       \* references of the object itself that others hold

Objects == Listening \cup Following

ASSUME ListAssumption ==
    /\ IsFiniteSet(Objects) /\ Handler \subseteq Following
    /\ Limit \in Nat /\ Penalty \in Nat \ {0}
    /\ MaxLife \in Nat /\ MinLife \in Nat /\ MaxFollows \in Nat
    /\ Owners \in Nat \ {0} /\ Limit <= MinLife

VARIABLES listeners,  \* the listener list, first entry first
          vector,     \* writeout_vector, first entry first
          refs,       \* references of each object the lists took and not yet put
          self,       \* references of the object the lists belong to
          life,       \* io_life_count of each object
          cur,        \* the listener a multicast is at, in a set
          stale,      \* its cell was freed
          got,        \* listeners the multicast has reached, one for each time
          stays,      \* listeners before the multicast and at all times since
          pos,        \* the follower a write is at, 0 for no write
          late,       \* followers added between the write's prev and its p
          counts,     \* the write is x_object_writev_out
          due,        \* how many times the write has to reach each follower
          written,    \* objects the write has reached, one for each time
          lost        \* followers that left the list and kept their reference

lists == <<listeners, vector, refs, self>>
multicast == <<cur, stale, got, stays>>
write == <<pos, late, counts, due, written>>
vars == <<lists, life, multicast, write, lost>>

Entries(s) == {s[i] : i \in DOMAIN s}
Times(s, o) == Cardinality({i \in DOMAIN s : s[i] = o})
NoneDue == [o \in Following |-> 0]

\* Lists hold objects, and walks are at an entry of them.
TypeOK ==
    /\ listeners \in Seq(Listening) /\ vector \in Seq(Following)
    /\ refs \in [Objects -> Nat] /\ self \in 0 .. Owners
    /\ life \in [Following -> -MinLife .. MaxLife]
    /\ cur \subseteq Listening /\ Cardinality(cur) <= 1
    /\ cur # {} /\ ~stale => cur \subseteq Entries(listeners)
    /\ stale \in BOOLEAN
    /\ got \in Seq(Listening)
    /\ stays \subseteq Entries(listeners)
    /\ pos \in 0 .. Len(vector) + 1 /\ late \in 0 .. Len(vector)
    /\ pos > 0 => late < pos
    /\ counts \in BOOLEAN
    /\ due \in [Following -> Nat] /\ written \in Seq(Following)
    /\ lost \in Seq(Following)

\* x_object_listeners_init
Init ==
    /\ listeners = <<>> /\ vector = <<>>
    /\ refs = [o \in Objects |-> 0] /\ self = Owners
    /\ life = [o \in Following |-> 0]
    /\ cur = {} /\ stale = FALSE /\ got = <<>> /\ stays = {}
    /\ pos = 0 /\ late = 0 /\ counts = FALSE
    /\ due = NoneDue /\ written = <<>> /\ lost = <<>>

\* _REFGET and _REFPUT of an entry
Get(o) == refs' = [refs EXCEPT ![o] = @ + 1]
Put(o) == refs' = [refs EXCEPT ![o] = @ - 1]

-----------------------------------------------------------------------------
(* Listeners. *)

\* Mutation: the search for the listener is left out.
SubscribeTwice(o) ==
    /\ ~stale
    /\ Len(listeners) <= Cardinality(Listening)
    /\ Get(o)
    /\ listeners' = <<o>> \o listeners
    /\ UNCHANGED <<vector, self, life, multicast, write, lost>>

\* x_object_subscribe, also from a callback; nothing changes for a listener
Subscribe(o) ==
    /\ ~stale
    /\ o \notin Entries(listeners)
    /\ Get(o)
    /\ listeners' = <<o>> \o listeners
    /\ UNCHANGED <<vector, self, life, multicast, write, lost>>

\* x_object_unsubscribe, also from a callback
Unsubscribe(o) ==
    /\ ~stale
    /\ o \in Entries(listeners)
    /\ Put(o)
    /\ listeners' = RemoveFirst(listeners, o)
    /\ stale' = (o \in cur)
    /\ stays' = stays \ {o}
    /\ UNCHANGED <<vector, self, life, cur, got, write, lost>>

\* x_object_reset_subscription
ResetSubscription ==
    /\ cur = {}
    /\ listeners # <<>>
    /\ refs' = [o \in Objects |-> refs[o] - Times(listeners, o)]
    /\ listeners' = <<>>
    /\ UNCHANGED <<vector, self, life, multicast, write, lost>>

From(i) == IF i \in DOMAIN listeners THEN {listeners[i]} ELSE {}

\* x_object_sendmsg_multicast: the callback of the first listener is called.
Multicast ==
    /\ cur = {}
    /\ listeners # <<>>
    /\ cur' = From(1)
    /\ got' = <<listeners[1]>>
    /\ stays' = Entries(listeners)
    /\ UNCHANGED <<lists, life, stale, write, lost>>

\* The callback returns and p->next is called, if there is one.
MulticastNext ==
    /\ cur # {} /\ ~stale
    /\ \E i \in DOMAIN listeners :
         /\ listeners[i] \in cur
         /\ cur' = From(i + 1)
         /\ got' = IF cur' = {} THEN <<>> ELSE Append(got, listeners[i + 1])
    /\ stays' = IF cur' = {} THEN {} ELSE stays
    /\ UNCHANGED <<lists, life, stale, write, lost>>

-----------------------------------------------------------------------------
(* Followers. *)

\* x_object_add_follower.  The search is made in the list of listeners: an
\* object that listens is never added, one that follows is added again.
AddFollower(o) ==
    /\ Len(vector \o lost) < MaxFollows
    /\ o \notin Entries(listeners)
    /\ Get(o)
    /\ vector' = <<o>> \o vector
    /\ pos' = IF pos = 0 THEN 0 ELSE pos + 1
    /\ late' = IF pos = late + 1 THEN late + 1 ELSE late
    /\ UNCHANGED <<listeners, self, life, multicast, counts, due, written, lost>>

\* x_object_del_follower: the first cell of the follower
DelFollower(o) ==
    /\ pos = 0
    /\ o \in Entries(vector)
    /\ Put(o)
    /\ vector' = RemoveFirst(vector, o)
    /\ UNCHANGED <<listeners, self, life, multicast, write, lost>>

\* x_object_writev_out (vectored) and x_object_write_out: the write handler
\* first, then the walk.
WriteOut(vectored) ==
    /\ pos = 0
    /\ vector # <<>>
    /\ counts' = vectored
    /\ pos' = 1 /\ late' = 0
    /\ due' = [o \in Following |-> IF o \in Handler THEN 0 ELSE Times(vector, o)]
    /\ written' = SetToSeq(Handler)
    /\ UNCHANGED <<lists, life, multicast, lost>>

\* The entry stays in the list and becomes prev.
Advance ==
    /\ pos' = pos + 1
    /\ late' = 0

\* A cell of the write handler is passed over.
SkipHandler ==
    /\ pos \in DOMAIN vector
    /\ vector[pos] \in Handler
    /\ Advance
    /\ UNCHANGED <<lists, life, multicast, counts, due, written, lost>>

\* A write that did well; x_object_write_out takes a failure for one.
WriteKeeps ==
    /\ pos \in DOMAIN vector
    /\ vector[pos] \notin Handler
    /\ written' = Append(written, vector[pos])
    /\ life' = [life EXCEPT ![vector[pos]] = IF @ < MaxLife THEN @ + 1 ELSE @]
    /\ Advance
    /\ UNCHANGED <<lists, multicast, counts, due, lost>>

\* A failed write of a follower that may fail again
WriteFails ==
    /\ pos \in DOMAIN vector /\ counts
    /\ vector[pos] \notin Handler
    /\ life[vector[pos]] - Penalty >= -Limit
    /\ written' = Append(written, vector[pos])
    /\ life' = [life EXCEPT ![vector[pos]] = @ - Penalty]
    /\ Advance
    /\ UNCHANGED <<lists, multicast, counts, due, lost>>

\* What a drop does: prev->next = p->next takes p off the list, and with it
\* the followers added between prev and p since.  A reference of the writing
\* object is put as well, which x_object_add_follower did not keep.
Unlink ==
    /\ vector' = SubSeq(vector, 1, pos - late - 1) \o SubSeq(vector, pos + 1, Len(vector))
    /\ lost' = lost \o SubSeq(vector, pos - late, pos - 1)
    /\ Put(vector[pos])
    /\ self' = self - 1

\* Mutation: the walk takes p->next of the dropped cell, and prev moves.
WriteDropsSkips ==
    /\ pos \in DOMAIN vector /\ counts
    /\ vector[pos] \notin Handler
    /\ life[vector[pos]] - Penalty \in -MinLife .. -(Limit + 1)
    /\ written' = Append(written, vector[pos])
    /\ life' = [life EXCEPT ![vector[pos]] = @ - Penalty]
    /\ Unlink
    /\ pos' = pos + 1 - late
    /\ late' = 0
    /\ UNCHANGED <<listeners, multicast, counts, due>>

\* Mutation: a follower is unlinked and its reference is not put.
WriteDropsKeepsRef ==
    /\ pos \in DOMAIN vector /\ counts
    /\ vector[pos] \notin Handler
    /\ life[vector[pos]] - Penalty \in -MinLife .. -(Limit + 1)
    /\ written' = Append(written, vector[pos])
    /\ life' = [life EXCEPT ![vector[pos]] = @ - Penalty]
    /\ vector' = RemoveAt(vector, pos)
    /\ UNCHANGED pos
    /\ late' = 0
    /\ UNCHANGED <<listeners, refs, self, multicast, counts, due, lost>>

\* A failed write of a follower that has failed too often: it is dropped and
\* the walk goes on from prev.
WriteDrops ==
    /\ pos \in DOMAIN vector /\ counts
    /\ vector[pos] \notin Handler
    /\ life[vector[pos]] - Penalty \in -MinLife .. -(Limit + 1)
    /\ written' = Append(written, vector[pos])
    /\ life' = [life EXCEPT ![vector[pos]] = @ - Penalty]
    /\ Unlink
    /\ pos' = pos - late
    /\ late' = 0
    /\ UNCHANGED <<listeners, multicast, counts, due>>

\* The walk is at its end.
WriteReturns ==
    /\ pos > Len(vector)
    /\ pos' = 0 /\ late' = 0 /\ counts' = FALSE
    /\ due' = NoneDue /\ written' = <<>>
    /\ UNCHANGED <<lists, life, multicast, lost>>

-----------------------------------------------------------------------------
Next ==
    /\ self > 0
    /\ \/ \E o \in Listening : Subscribe(o) \/ Unsubscribe(o)
       \/ ResetSubscription
       \/ Multicast \/ MulticastNext
       \/ \E o \in Following : AddFollower(o) \/ DelFollower(o)
       \/ \E vectored \in BOOLEAN : WriteOut(vectored)
       \/ SkipHandler \/ WriteKeeps \/ WriteFails \/ WriteDrops \/ WriteReturns

Spec == Init /\ [][Next]_vars

-----------------------------------------------------------------------------
(* Properties. *)

\* The lists hold one reference for each of their cells, through subscriptions
\* from callbacks, drops in the middle of a walk and double followers: no entry
\* can be freed while it is listed, and none is kept for longer, except for the
\* followers a drop takes off the list with another.
CellsExact ==
    \A o \in Objects :
        refs[o] = Times(listeners, o) + Times(vector, o) + Times(lost, o)

\* A message reaches no listener twice, and when the multicast ends it has
\* reached every one that was there all the time, whatever callbacks subscribed
\* or took off the list meanwhile.
MulticastExact ==
    [][/\ \A o \in Listening : Times(got', o) <= 1
       /\ cur # {} /\ cur' = {} => stays \subseteq Entries(got)]_vars

\* When a write is over, the write handler was written once, and every follower
\* that was there once for each of its cells, also those after a follower that
\* was dropped and those that other threads put new ones before.
WriteExact ==
    pos > Len(vector) =>
        \A o \in Following :
            Times(written, o) = IF o \in Handler THEN 1 ELSE due[o]

=============================================================================
