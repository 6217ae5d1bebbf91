# Verification of xwbot

xwbot (Gobee) is an XMPP client with audio and video calls, written in C. This
directory holds TLA+ models of its core, TLC configurations that check them on
small instances, and TLAPS proofs. Paths are relative to `src/xmppbot/`
unless they start with `src/`.

## 1. The system

Everything in the program is an object in one tree: the bus, every XMPP stanza
while it is parsed and handled, sessions, channels and candidates. A class gives
an object callbacks (match, append, assign, exit, remove, tx, rx), and the
callbacks are where the program does its work.

| part | state | operations | talks to |
|---|---|---|---|
| object tree, `xwlib/x_obj.c` | per node: parent, sons, sibling, next, child_count, reference counter | new, ref_get/ref_put, append_child, remove_from_parent (`_RMOV`), destroy, destroy_tree, lookups | every other part |
| listeners, followers, watchers, `xwlib/x_obj.c` | lists of subscribed objects, fault counters of followers | subscribe, unsubscribe, multicast, add/del follower, io_update | sessions, jingle, media |
| classes and path listeners, `xwlib/x_objfactory.c` | registry of classes, listeners by path | register, match, notify | object tree |
| parser and serializer, `x_parser.c` | context, phase, three string registers, attribute list, return stack | one character; reset; serialize a tree | bus |
| bus, `x_bus.c` | connection, transport (plain or TLS), current object of the parser | connect (`__x_bus_hotstart`), read, dispatch open/text/close, `x_bus_reset_stream`, write | parser, stanza classes, server |
| negotiation, `plugins/core/{stream,features,tls,sasl}.c`, `plugins/auth_plain`, `plugins/bind` | stream objects, one message slot of `features`, `$bind_state` | callbacks of each element | bus, server |
| stanzas, `plugins/core/{iq,presence,message}.c` | contact objects, keepalive timer | callbacks of each stanza | bus, jingle |
| jingle, `plugins/jingle/xep_0166.c` | `regs.state` and flags `regs.cr0` of a call | session-initiate, transport-info, session-accept, session-terminate, in both directions | sessions, bus |
| sessions, `plugins/sessions_api/{session_api,sessions}.c` | session objects, a worker thread each | open, start, close, relay of announcements | jingle, ICE |
| ICE, `plugins/sessions_api/ice_ctl.c` | local and remote candidates, pairs, a thread | gather, check, nominate, stop | sessions, network |
| VP8 over RTP, `plugins/video/codec/xvpx` | counters of the sender; buffer, position and fault counter of the decoder | split a frame, pack and parse a descriptor, reassemble, decode | ICE, codec |
| media streams, RTP, STUN, file transfer, shell, devices, user interfaces | see section 8 | | |

The bus and the stanza classes run on the bus thread. A user interface places
calls and hangs up from a thread of its own. Each session has a worker thread
and each transport an ICE thread. There are hardly any locks: flags, reference
counters and lists are shared as they are.

What is hard here: trees that are torn down while somebody holds or walks part
of them; two threads that start, answer and close the same call; messages of
the peer that cross a hang-up; connections that break in the middle of the
negotiation and are made again on top of the old objects; checks and packets
that UDP loses, repeats and reorders; lists that change while they are walked; and
a parser that keeps its place in registers shared by all elements. `PROJECT.json` lists these
hazards at the line where each one bites.

What makes each part correct: the tree's counters are exact and its lists
complete, and nothing in use is freed; the parser delivers what the serializer
wrote, and anything else leaves it in a state it can handle or stops it in an opening tag; the bus takes turns with the server and gets
the user online; jingle's two sides agree on the call, lose no candidate and end
with no thread left; ICE finds one address and keeps to it; a frame that
arrives is the frame that was sent; and every listener and follower is reached once.

## 2. Modules

| module | models | state and actions |
|---|---|---|
| `XObject` | `x_obj.c` | `heap`: one function per field of a node; C functions are operators from heaps to heaps; one action per public operation. `x_object_destroy_tree` is recursive: its activations are the variable `stack`, one action per call and per return, so that the model needs no recursion |
| `XCallers` | its callers | which of three kinds of callers the tree has, and what it guarantees each |
| `XParser` | `x_parser.c`, `x_string.c`, `setattr` | `p`: the fields of `struct x_push_parser`; one operator per context and phase; the action `Putc` is one character, handed on by `ret_to_tag` where the code does so |
| `XSerializer` | `__x_parser_object_serialize` | one action per `case` of its loop |
| `XWire` | both ends of a stream | composes `XSerializer` and `XParser` through `wire` |
| `XBus` | `x_bus.c` and the negotiation classes | stream objects of the bus, the cursor `path`, requests `out` and parser events `wire`; one action per element that opens or closes; the server's actions are an environment |
| `Jingle` | `xep_0166.c`, `session_api.c`, `sessions.c`, part of `ice_ctl.c` | both sides of a call; `pc[e][t]` splits `x_session_start` and `x_session_close` where another thread can see them half done |
| `Login` | | what a login promises: the stages a connection goes through, and that TLS comes first where it is offered. Abstract; `XBus` implements it |
| `Call` | | what a call promises its two users: phases of each side and who has left. Abstract; `Jingle` implements it |
| `IceCtl` | `ice_ctl.c` | candidates, the array `slots` of pairs and its `top`, the chosen address, the thread and its run bit; steps of the bus thread, the ICE thread, a media thread and the removal |
| `Vp8Rtp` | `x_vpx_plugin.c`, `x_vp8.c` | the sender's loop, packets on their way, the decoder's buffer |
| `XListeners` | listener and follower lists of `x_obj.c` | the two lists, the references they hold, a multicast and a write in progress |
| `XObjectProofs`, `XParserProofs`, `XBusProofs`, `IceCtlProofs`, `Vp8RtpProofs`, `XListenersProofs`, `JingleProofs` | | the inductive invariants and the theorems of section 6 |
| `ListFacts` | | lemmas about lists and numbers that several proofs need: a part of a list, a list around one of its places, the least element of a set of numbers |
| `MCXObject`, `MCXWire`, `MCXBus`, `MCJingle`, `MCIceCtl`, `MCXListeners` | | values of the constants for the runs |

Operators whose comment starts with "Mutation" are wrong variants of the
definition that follows them. Nothing refers to them; putting one in the place
of its original shows which property notices.

### XObject: three kinds of callers

The tree code trusts its callers, and what it guarantees depends on them:

- *any* (`AnyNext`): no discipline at all. The counters stay exact.
- *session* (`SessionNext`): trees torn down with `x_object_destroy_tree` and
  `_RMOV`, as `session_api.c` does; the creator's reference of a linked object
  is left to the tear-down. Nothing that is in use is freed.
- *stanza* (`StanzaNext`): what the parser and the stanza classes do; `_RMOV` is
  never used, and a handler calls `_REFPUT` on linked children. The lists are
  exact; so are the `next` chains, and no freed node is reached, as long as no
  name is a prefix of another (`NamesApart`). `EQN` takes a prefix for the name,
  and the chains of two such names get mixed (section 5).

`XCallers` chooses the kind in its initial state. The walks of the code read every node up to
the one they look for (`Until`, `SameNamed`), and `Touch` records whether one of these was freed.

`held` and `leak` are bookkeeping that the code does not store: references that
program code owns, and references nobody can give back any more because a child
was destroyed while it was linked (`x_object_destroy_no_cb` does not release the
parent). Once an access has reached a freed node (`uaf`) nothing more happens.

### XParser: what is abstracted

A character is a representative of a class the contexts tell apart: letters
(with `_`, `:` and bytes above 127), digits, `-` and `.`, white space, quotes
and markup. `x_string_clear` writes no terminator, so a cleared register keeps
its text until the next character; the model keeps the text and a flag. An
unexpected character in a tag name reaches `BUG()`, which ends the model's
parser with status `BUG`: any input may lead there (`<a=` does), nothing that the serializer
writes does (`StructureKept`). `exit(-1)` would be status `exit`, and is never reached. The callbacks of a
closing tag may reset the parser (`x_bus_reset_stream` from `sasl_exit` and
`tls_exit`), which is an alternative of `Putc`. The serializer's output is
handed to the network piece by piece rather than as one string; as nothing else
is written to the stream meanwhile, this only adds interleavings.

### XBus: server and reconnection

The server is not part of the repository. It is modelled from what the code in
`src/` expects of it: it offers features after each stream header in either
order, answers each request, may refuse a login, a TLS request or a bind, and
drops the connection when a handshake fails. One parser event is one step: all
of it runs on the bus thread.

`__x_bus_hotstart` runs again when the event loop reports something that is
neither readable nor writable (`x_bus.c:441`) and when a program commits the bus
again, as the Qt client does in an endless loop
(`src/apps/qt/GobeeQt/gobeewrap.cpp:298`). End of file alone does not trigger it.
The model lets a lost connection be made again at any later time; an attempt to
connect that fails changes nothing. Name resolution and the parsing of the user's
jid are left out.

### Jingle: threads

Each side has the threads `ui` and `bus`, a session worker and an ICE thread.
`regs.cr0` is read, changed and written back without a lock; where two threads
can meet, the load and the store are separate steps. The callee answers in three
steps, at the end of "session-activate" and of transport-info: it tests the flags and sends
session-accept (`Answer`), and only then loads and stores `cr0` with `RUNNING`
(`AnswerLoad`, `StoreAnswer`; `xep_0166.c:940-942` and `:1264-1266`). The caller can
handle the answer in between, so it may consider a call running that the callee does not
yet. `fault[e]` collects what C
leaves undefined (a handler using a session whose sons are being destroyed, `torn`, or one that
`x_session_close` has finished with, `late`; a second
`pthread_join`, a join of a thread that was never created, a list cell freed
under a walk); a side with a fault stops, because anything may follow.
A session has one channel; media descriptions, payload lists, credentials and
the `result` replies are left out.

### Login and Call: what the user sees

`Login` has one stage per connection (down, up, authenticated, bound, online),
whether the connection is encrypted, and whether TLS has to come first.
`XBus!Stage` computes the stage from the model's state; `LogsInInOrder` says that
every step of `XBus` is a step of `Login` or changes nothing a user sees. `Call` has
a phase per side (idle, ringing, answering, talking, ending, over) and the users who have hung up;
`Jingle!Phase` computes the phase from the session, the flags and the steps of a
close. `MakesACall` is the refinement: the caller talks only to a callee that has
picked up (and may still be answering), a side leaves only because a user hangs up or the other side has left, and a
call that is over stays over. The abstract modules have no messages and no threads.

### IceCtl: threads and the network

`*ice->c_pairs_top++ = pair` is executed by the bus thread (with a lock) and by the
ICE thread (the lock is commented out). It is one step that loads the top and two
that store, in either order, because C gives the two stores no order that another
thread can rely on. All walks stop at the first empty slot. The peer is another
instance of the program, of which only one thing matters: from which port it
answers a check. `is_rtp = ~(flags & 0x1)` is never zero, so it answers from the data port
whichever port was asked. A check or its answer may be lost, and an answer may come
any number of times and in any order.

Two windows in the code are excepted by the premises of the liveness properties and
listed as hazards: the run bit is set after the thread was created, so the thread can leave at
once or, when a removal comes in between, never be told to stop; and two
pushes that meet can drop a pair.

### Vp8Rtp: bytes

A byte is its frame and its place in it, so that "decoded as it was encoded" can
be said without contents. Where the descriptor announces a picture id that was not
written, the decoder skips bytes of the frame up to one whose top bit is clear:
any number of them, as their values are not modelled. The decoder has been initialised
(`xVPX_INITIALIZED`, tested at `x_vpx_plugin.c:392` before a frame is handed to the codec):
before that, frames are put together all the same and none is decoded.

### XListeners: what stops the model

Two things C leaves undefined end a behaviour: the walk of a multicast stands on a
cell that its own listener freed (`stale`), and drops have put the last
reference of the writing object (`self`), because `x_object_io_update` puts a reference of it
that `x_object_add_follower` has not kept.

## 3. Runs

| run | instance | shows |
|---|---|---|
| `obj` | 4 objects, 3 of one name and one of another; at most 2 references held by code; all three kinds of callers; 595 000 states | `TypeOK`, `RefBalance`, `CountExact` for any caller; `SessionKeepsUsed`; `StanzaListExact`, `StanzaNextComplete`, `StanzaNoDangling` |
| `obj_destroy_tree` | 3 objects, one with a name the others are a prefix of; session callers | violation of `NoDanglingAccess`: finding 1 |
| `wire` | every tree of up to 3 objects, 2 names, 3 attribute lists (none; two values; a value, an empty one and a value), with and without text; any 4 characters behind nothing, behind `<a ` and behind `<a b='`; 917 000 states | `TypeOK`, `Disciplined`, `StructureKept`, `AttributesKept`, `DeliveredAll` |
| `wire_attrs` | the same shapes, one name | violation of `AttributesExact`: finding 2 |
| `bus` | up to 5 refused logins, one connection that breaks anywhere and is made again, TLS offered first, last or not at all, three sets of mechanisms; 907 000 states | `TypeOK`, `TakesTurns`, `PresenceOnce`, `TlsBeforeAuth`, `LoginCompletes`, `LogsInInOrder` (refinement of `Login`) |
| `bus_restart` | 2 connections to one server | violation of `RestartLogsIn`: finding 3 |
| `jingle` | both users may hang up, thread creation may fail on both, the callee learns an address; 482 000 states | `TypeOK`, `RunningAgreement`, `NoCandidateLost`, `TerminateIsOurs`, `NoOrphanThread`, `CallIsAnswered`, `HangUpReaches`, `MakesACall` (refinement of `Call`) |
| `jingle_release` | the caller may hang up, both sides learn an address | violation of `ClosedIsReleased`: finding 4 |
| `ice` | a peer with two data ports and a control port, two candidates announced, one address learned, one payload type; 184 000 states | `TypeOK`, `MediaToDataPort`, `PairsFit`, `NothingLeft`, `ChoiceKept`, `Connects`, `RemoveReturns` |
| `vp8` | MTU 4, frames of 2, 3, 5 and 8 bytes, 3 frames, 3 packets on their way, picture ids modulo 3 | `PacketsFit`, `CopyInBounds`, `CompleteIsExact` |
| `vp8_descriptor` | the same with 2 frames | violation of `DescriptorIsRead`: finding 5 |
| `listeners` | 3 listeners of which one follows as well, 3 followers of which one is the write handler, up to 3 cells of followers, a follower may fail once; 3 650 000 states | `TypeOK`, `CellsExact`, `WriteExact`, `MulticastExact` |

Why the bounds are enough. Four objects give a parent with three children, so
that a first, a middle and a last child exist, and a chain of four for the
recursion of `x_object_destroy_tree`; two held references distinguish an owner
from a borrower. Three objects in a document give every branch of the
serializer's walk: child, sibling, return over one and over two levels. Two values in one tag, of
different lengths and with an empty one between two others, let the registers of one attribute reach the next. The three
beginnings bring the parser into each context, and four characters are more
than the longest way from there to any other (`Disciplined` is proved for every
input anyway). Five refusals are more than the references the first stream can
hold. One call between two sides with one host and one learned address each lets
each message cross each other one. Two remote candidates and one learned address make both
threads push at the same time, with the control port before or behind the data port, and
two data ports give two addresses to choose from. Frames of 2 and 3 bytes fit one packet with and without a picture id, those of
5 and 8 bytes take two and three; 5 is also `(MTU - 2) + (MTU - 1)`. Three followers are
enough for a drop at the head, in the middle and at the end, and for two in one
walk; three listeners for one on either side of the one being called.

Symmetry is used for the objects of one name in `MCXObject`: `Name` is invariant
under these permutations, and no liveness is checked there. The same holds for the two
listeners of `MCXListeners` that do not follow; `MulticastExact` is a property of steps.

`CHECK_DEADLOCK FALSE` stands in every configuration because each of these
systems may stop: a heap whose objects are all freed or that met undefined
behaviour, a document that has been read, a login that is done or was refused, a
call that was closed, a transport that was removed, frames that were all sent, lists whose
owner was freed. What must happen before is said by `DeliveredAll`,
`LoginCompletes`, `CallIsAnswered`, `HangUpReaches`, `Connects` and `RemoveReturns`.

## 4. Fairness

Weak fairness of the steps of a thread that is not blocked and, for the lossy network
of ICE, strong fairness of what is tried again and again; nothing else:

- `XWire`: the sender's loop and the reader's loop run.
- `XBus`: the event loop handles what has arrived, a connection that is off is
  made, and the server answers. Connections need not break and no login need be
  accepted; the liveness properties except the refusals the protocol has.
- `Jingle`: one condition for each of the two threads of a side that start, answer and close
  (`ThreadStep`: whatever the thread does next; a thread that waits in a join is not enabled), one for the end of
  the worker and one for the announcement of a candidate that was found. Nobody has to
  call or to hang up, and no STUN server has to answer. The code has no timeouts
  on calls, so none are assumed.
- `IceCtl`: the three threads run. The event loop's timer fires again and again, so `Periodic` is
  strongly fair; a check that is sent again and again is answered some time, so
  `OnAnswer` of a reachable address is. No address has to be learned, no
  media to be written, and nobody has to remove the transport.
- `Vp8Rtp` and `XListeners` have safety properties only.

## 5. Findings

1. `x_obj.c:1865`: `x_object_destroy_tree` of an object with two children. `_RMOV`
   of the first child leaves the parent's `sons` at it; the child is freed; `_RMOV`
   of the second child walks over it. The shortest trace needs less: one child,
   `_RMOV`, the last `_REFPUT`, and a lookup below the parent.
2. `x_parser.c:149`: the attribute list is cleared by the white space behind a tag
   name and not by the end of a tag, so an element without attributes gets those of
   the element before; the expected output of the parser's test says otherwise.
3. `x_bus.c:679`: `x_bus_reset_stream` drops one reference of the first stream. On a
   second connection the old stream, its features and their `bind` are found
   again; `$bind_state` is `BIND_SENT`, and no resource is asked for.
4. `session_api.c:114`: a closed session stays the first son of its holder, so a
   transport-info that is handled after `x_session_close` has returned finds it and goes
   through its sons, from which everything was removed. In the trace the caller hangs up,
   closes, and then handles the transport-info of the callee. (A message that is
   handled while the session is torn down is another fault, `torn`, and is not meant.)
5. `x_vp8.c:121`: the picture id 0 is announced in the descriptor and not written;
   the decoder takes bytes of the frame for it. The counter reaches 0 with the
   first frame and again every 128 packets.

Met while modelling, without a run of their own: an unexpected character in an opening tag, as in
`<a=`, reaches `BUG()`, a write to a fixed address (`x_parser.c:184`), whoever sends it; a callee that is hanging up can
answer without having told an address, because its jingle object no longer hears of the activation
(`RunningAgreement` excepts it); a lookup by tag name returns a
child whose name is a prefix of the one asked for (`x_utils.h:113`), and chains of two such names get
mixed: of children `cx`, `c`, `cx` the last is no longer reached by `next` when the first is destroyed, and of
`c`, `cx`, `c` the `next` of `cx` leads to freed memory when both `c` are (the attempt to prove
`StanzaNextComplete` for all names showed it, and TLC confirmed both); hanging up before the
peer's first transport-info joins a thread that was never created
(`ice_ctl.c:1155`); payload type 127 is one past the end of `media_owner_cache`
(`ice_ctl.c:60`); a video frame of exactly `(MTU - 2) + (MTU - 1)` bytes ends with a packet
marked as a middle one and is not decoded (`x_vpx_plugin.c:198`); dropping a follower
puts a reference of the writer that nobody took (`x_obj.c:2173`); `x_object_add_follower`
looks for the follower in the list of listeners (`x_obj.c:2021`).

## 6. Proofs

TLAPS proves, for every value of the constants that satisfies the named
assumptions, each of these as `Spec => []P` (`ChoiceKept` and `MulticastExact` are
properties of steps, `LogsInInOrder` and `MakesACall` are refinements):

| module | assumptions | properties proved |
|---|---|---|
| `XObjectProofs` | `ObjectsAssumption`: finitely many objects and a null pointer that is none of them; `EQNAssumption`: a name compares equal to itself | `TypeOK`, `RefBalance`, `CountExact`, for `AnySpec`: callers without discipline; `SessionKeepsUsed`, `StanzaListExact`, `StanzaNextComplete`, `StanzaNoDangling`, for `CallerSpec` |
| `XParserProofs` | `AlphabetAssumption`: the classes of characters are disjoint | `TypeOK`, `Disciplined`, for inputs of any length |
| `XBusProofs` | `ServerAssumption`: a server offers a list of starttls and mechanisms, in any order and number, and knows no mechanism but PLAIN and DIGEST-MD5 | `TypeOK`, `TakesTurns`, `PresenceOnce`, `TlsBeforeAuth`, `LogsInInOrder` |
| `IceCtlProofs` | `PeerAssumption`: a control port answers from its data port, a data port from itself; `BoundAssumption`: finitely many addresses to learn | `TypeOK`, `PairsFit`, `MediaToDataPort`, `NothingLeft`, `ChoiceKept` |
| `Vp8RtpProofs` | `MtuAssumption`: an MTU above 2, so that a packet has room for a byte behind its descriptor; `BoundAssumption`: frames are not empty | `PacketsFit`, `CopyInBounds`, `CompleteIsExact` |
| `XListenersProofs` | `ListAssumption`: finitely many objects, a writer that somebody owns, and a follower's counter can go down to the limit at which it is dropped | `TypeOK`, `CellsExact`, `WriteExact`, `MulticastExact` |
| `JingleProofs` | `CandAssumption`: every side has a host candidate, and host and reflexive candidates differ; `SideAssumption` | `TypeOK`, `RunningAgreement`, `NoCandidateLost`, `TerminateIsOurs`, `NoOrphanThread`, `MakesACall` |

In each module `IInv` is the inductive invariant: `InitInv` and one lemma per action
show that it is kept, `Invariance` is `Spec => []IInv`, and the properties follow from
it. TLC checked each `IInv` before it was proved.

**The object tree.** `IInv` says that the heap is `Settled` and that the
activations of `x_object_destroy_tree` form a chain in which each waits for the
next one. `Settled` is `Good(h, h.held)`; `Good(h, own)` says that the fields are
typed, that `child_count` is exact, that only a live node that was once linked has
a parent pointer, which leads neither to itself nor to memory that was never
allocated (`Placed`), and that the reference counters are balanced for given
numbers `own` of references owned by code.
The parameter is needed because the counters are not balanced against `held`
inside an operation: `x_object_append_child` and `_RMOV` take and give references in
several calls. Each C function has one lemma that says how it moves
`own` (`RefIncGood`, `RefDecGood`, `InsertGood`, `RemoveGood`, `DestroyGood`), and
the lemma of an action composes them. `Placed` is needed because a new
node starts with counters of zero, which is only right when nothing points at it
yet. Cardinalities of the sets of children come from `FiniteSetTheorems`.

What depends on the kind of caller follows from `CInv`, which adds one conjunct to `IInv` for each
disciplined kind. For stanza callers it is `Sound`: there is an assignment `pos` of numbers to objects,
the order of insertion, such that `sons` is the child with the least number, `sibling` leads
to the child with the next one (`InOrder`), and `next` does so among the children of one name (`Ordered`). An
insertion extends `pos` at its end and a destruction keeps it, so no induction along the chain is
needed: a walk that missed a child would have a first one it missed, in the order of `pos`. `Reach` is
the least closed set, so that a closed set of the right nodes bounds it from above.
For session callers the conjunct is `Kept` and `InTeardown`. `Kept` says that code still owns the creator's
reference of every linked object (`Owned`), so that the link's reference and the creator's, which a
tear-down gives back together, are both there, and that neither `parent` nor `sibling` has a cycle.
Lists are not exact here, since `_RMOV` leaves `sons` alone; a tear-down is safe because the nodes
it has yet to come to are untouched: `Teardown(h, s, U)` names them `U`, says that the rest of the
list of every activation in `s` lies in `U` and below the activation's own node, that lists of nodes
in `U` are exact, and that no node has two activations. A call takes its node out of
`U`; a return unlinks and drops a node outside `U`, which disturbs no pointer of a node in `U`.

**The parser.** `Disciplined` says, per context, which phases it can be in, whether
values are copied and what is on the stack, so that `exit()` is never reached and no context is popped that was not
pushed, and that `BUG()` is met only in an opening tag (`StopsAtTag`); it does not say that `BUG()` is
never met, which is false. It is inductive together with
`TypeOK`: `Good(q)` is both, as a predicate of one parser record. There is one
lemma per phase, one per context that splits on the phase, and one that a reset
inside the callback of a closing tag leaves a good parser; the step theorem
composes the context a character is handed to with the one that hands it on.

**The bus.** What a server sends is read one event at a time, so most states are in the middle of an
answer, and the invariant has to say which rests of answers can be on the wire at which place
of the cursor. It does so with small automata: `At` gives the place of the cursor for each state,
`OfferMoves`, `AnswerMoves`, `BindMoves` and `SessionMoves` the events that lead from one state to the next, and
`Trail(M, q, w, z)` says that the events `w` lead from `q` to `z`. `Phase` is then one of six: a header was written
(`Calling`), starttls or auth was (`Asking`), features before login are read (`Offered`), the answer to
starttls or auth is (`Answered`), features after login are (`Binding`), or a resource has been asked for
(`Session`). A phase also says what is in the message slot of `features`, and, while the connection
is plain although TLS was asked for (`Plain`), that the slot is empty until starttls takes it and that
no auth follows. `TakesTurns` needs the ends of the automata: the bus writes a request of the negotiation
where it reads the end of the features or of an answer, and from the state reached there no move leads on, so the wire is
empty. `PresenceOnce` needs `Sound`: only the bind of an iq gets a jid, the one of the features never does, so
only the first can reach `BIND_OK`, and it does so when it announces the user. `Tree` says that the
parser works in the first stream below the bus and that the ones behind it are as they were made, so that a
stream put by `x_bus_reset_stream` gives way to a fresh one (`TreeReset`). A broken connection leaves its phase as it is, so a reconnection starts
from a rest of any phase.
What a server sends is built with `FlattenSeq` over its features and `SetToSeq` over its mechanisms;
`FlattenFunction` and `TrailFlatten` show what a trail of such a list is from a least place where it
goes wrong. There is one lemma per phase for the events the bus reads (`OfferedStep`, `AnsweredStep`, `BindingStep`, `SessionStep`)
and one per action of the server. The refinement maps `Hotstart` to `Connect`; `Lose`, a failed
TLS handshake and a server that takes a second header for an error to `Break`; the closing `proceed` to `Secure`, the server's acceptance of a login to `Authenticate`, its binding of a resource
to `Bind` and the presence that the closing bind sends to `Announce`; all else changes nothing in `Login`. TLC checked
this `IInv` on servers with five lists of features, two rejected logins and two reconnections, 3 040 000 states.

**ICE.** `PairsFit` bounds `top`, which two threads move without a common lock and
which can go backwards when a load and a store of the two cross. `PushesCounted`
therefore bounds the slot that each half-done push has loaded as well as `top`, by `Loads`: the
number of times `c_pairs_top++` may have been executed, once per remote
candidate and once per remote candidate and learned address; while an
address is being inserted only the remotes it is past count. `MediaToDataPort` needs `DataPortsOnly`:
not only the chosen address but every pair that succeeded, the pair about to be
chosen and the last answer are data ports, and a push never stores a pair that
has succeeded. `NothingLeft` needs `RefsExact`, which says what the references are
before the removal, not only after it.

**VP8.** `PacketsFit` is about packets on their way; `PacketInv` adds that a packet is a part of
its frame and carries the marks of its place, and `SenderInv` where the
sending loop stands. The loop judges the second packet by the room the first one had,
because `elapsed` is computed before the header shrinks; `Standing` says so, and
`SplitsExactly` is the one size for which this goes wrong (section 5). `DecoderInv` says that the
part of a frame that came in order is exactly what the buffer holds and that `curpos` is its
end, unless the decoder has failed more often than it tolerates; with `PacketInv` this gives `CompleteIsExact`, and a
frame after lost, repeated or reordered packets starts it anew.

**Listeners.** References are compared with numbers of cells, `Times(s, o)`; one lemma
per operation on a list (`TimesConcat`, `TimesAppend`, `TimesRemove`, `TimesUnlink`) says how they change.
`WriteInv` says that what was written and what is behind the walk make up what is due,
also when a drop shifts the rest of the vector. `MulticastInv` needs that the list has no duplicates and that the
walk stands at some place of it: nobody behind that place was reached, and
everybody who was there all the time was reached or is behind it.

**Jingle.** `SideInv(e)` is about the threads of one side: which thread starts the session and
that it is active from then on (`StartInv`), which may close it and why (`CloseInv`: the user interface
only after its user hung up, the bus only after a session-terminate has set `STOPPED`, and never at `mark`),
that what the transport has is sent or being announced (`CandInv`), and what a copy of `cr0` may
differ in from `cr0` (`FlagInv`: unless the user is hanging up, only in `REMOTE_CANDIDATE`, so that a
thread that stores its copy undoes nothing; and a callee that is answering has an address of the caller). `LinkInv` is about both sides and the two
streams: session-initiate is the first message (`QuietInv`); before the callee has answered (`HasAnswered`: it considers the call running, is between
send and store, or is hanging up) nothing on the
caller's side or on its way says so (`AnswerInv`); no session-accept comes before a transport-info
that names an address (`AddressInv`, which is why the host candidates have to be
there); and session-terminate is only on its way from a side that hung up (`TerminateInv`).
The lemmas `SilentKept`, `SendKept` and `TakeKept` show once and for all that a step that sends nothing, sends or takes a
message keeps `LinkInv`, given what the step may change (`LocalStep`); the lemma of an
action only shows that it is such a step. The refinement maps `PlaceCall` to `Place`, `OnInitiate` to `Ring`, `Answer` to `PickUp` where it sends
session-accept, `StoreAnswer` to `Talk`, `StoreAccept` to `Connected`, `OnTerminate` to `Follow` and `CloseUnlink` to
`Finish`; all other steps change nothing in `Call`. Needed for it are `AnswerInv` (`Connected`), `TerminateInv` (`Follow`) and the
part of `FlagInv` about stale copies, without which a store could take `RUNNING` or `STOPPED` back.

Facts about all lists of a kind are proved without induction over data: a list
that first goes wrong somewhere has a least such place (`LeastExists`), and lists are taken
apart at a place (`Part`, `Around`, `PartSplit`).

Only model-checked:

- the liveness properties `DeliveredAll`, `LoginCompletes`, `CallIsAnswered`, `HangUpReaches`, `Connects` and
  `RemoveReturns`: reasoning with fairness and `ENABLED` is outside the reach of the prover;
- `StructureKept` and `AttributesKept` of `XWire`, whose reference definition is recursive;
- `RestartLogsIn` fails (section 5), so `TlsBeforeAuth` and the order of TLS in `LogsInInOrder` are stated and proved
  for the first connection only, and for lists of features that start with starttls: where mechanisms come first,
  the code sends the password in the clear;
- everything the `violation` runs show.

## 7. Plan

Every safety property of the modelled components is proved but two. What could be proved next with a prover that
has induction: the round trip of `XWire` (`StructureKept`, `AttributesKept`), whose reference definition is
recursive. `StanzaNextComplete` could be stated for all names once `EQN` compared whole ones.

Later models, each small: presence of contacts, message routing and the keepalive
timer; class matching and path listeners (`x_objfactory.c`); the media
descriptions of jingle with several channels per session.

## 8. Not modelled, and why

Most of the repository's lines are not the program's own: libev, OpenSSL headers,
libtheora, libvpx and other libraries are kept in it, some of them twice. They
are left out as a whole.

- DIGEST-MD5: `sasl.c` compiles its use out. File transfer and `xiapi` are commented out
  of `plugins/CMakeLists.txt`, `rtp.c` is in no build file, and nothing uses `x_queue.c`.
- Class registry and path listeners (`x_objfactory.c`): filled by the
  plugins' constructors when they are loaded and only read afterwards; `x_path_listener_remove` has no caller.
- Watchers of objects: handed to libev, without state of their own.
- The Google variant of jingle and of ICE, and the older ICE code: copies with the same control.
- STUN: encoding of messages; `IceCtl` has what the transport does with them.
- Media streams and payload tables of a session: objects that hand on what they are given.
- Service discovery, forms, public API: answers without state.
- The in-band shell, audio and video devices, codecs: input and output.
- User interfaces: only who calls (`main.c`) and who hangs up
  (`gobeewrap.cpp`) is taken from them.
- Vendored libraries (libev, OpenSSL and others) and generated files.
- Character entities: neither the parser nor the serializer knows them, so the
  texts of `XWire` contain no markup. An empty attribute value is read as what the
  register held before; `AttributesKept` therefore speaks of values that are not
  empty.
