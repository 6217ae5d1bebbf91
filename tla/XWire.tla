-------------------------------- MODULE XWire --------------------------------
(***************************************************************************)
(* Two ends of a stream: one serializes an object tree (XSerializer), the  *)
(* other parses what arrives (XParser).  The network keeps the order and   *)
(* splits the characters anywhere.                                         *)
(*                                                                         *)
(* Names, keys, values and contents are free of markup: neither end knows  *)
(* character entities.  In place of a tree the sender may write anything   *)
(* at all: a start from Starts and then up to MaxNoise characters.         *)
(***************************************************************************)
EXTENDS XParser, XSerializer

CONSTANTS Trees,     \* object trees
          Starts,    \* beginnings of other inputs
          MaxNoise   \* number of characters behind such a beginning

VARIABLE noise       \* characters the sender may still write

all == <<vars, serializer, noise>>

WireInit ==
    /\ Init
    /\ cur = 1
    /\ \/ tree \in Trees /\ state = "OPEN" /\ wire = <<>> /\ noise = 0
       \/ tree = <<>> /\ state = "STOP" /\ wire \in Starts /\ noise = MaxNoise

\* The sender's loop.
Send == Serialize /\ UNCHANGED <<vars, noise>>

\* A sender that is no serializer.
Babble ==
    /\ noise > 0 /\ wire = <<>> /\ p.status = "ok"
    /\ \E c \in Char : wire' = <<c>>
    /\ noise' = noise - 1
    /\ UNCHANGED <<vars, tree, cur, state>>

\* The loop of __x_bus_on_signal_data.
Receive ==
    /\ wire # <<>>
    /\ Putc(Head(wire))
    /\ wire' = Tail(wire)
    /\ UNCHANGED <<tree, cur, state, noise>>

WireNext == Send \/ Babble \/ Receive

WireSpec == WireInit /\ [][WireNext]_all /\ WF_all(Send) /\ WF_all(Receive)

-----------------------------------------------------------------------------
(* Properties. *)

RECURSIVE Expected(_), ExpectedFrom(_)

\* What an object is to look like to the callbacks, without its attributes:
\* its children come before its text, as the serializer writes them.
Expected(o) ==
    <<[op |-> "open", name |-> tree[o].name]>>
    \o ExpectedFrom(Sons(o))
    \o [i \in DOMAIN tree[o].content |-> [op |-> "text", c |-> tree[o].content[i]]]
    \o <<[op |-> "close", name |-> tree[o].name]>>

ExpectedFrom(o) == IF o = 0 THEN <<>> ELSE Expected(o) \o ExpectedFrom(Sibling(o))

Shape(calls) ==
    [i \in DOMAIN calls |->
        IF calls[i].op = "open" THEN [op |-> "open", name |-> calls[i].name] ELSE calls[i]]

\* At every moment the callbacks have seen a prefix of what the sender's tree
\* looks like: same names, same nesting, text inside its own object.  Nothing
\* that the serializer writes leads the parser to BUG() or exit().
StructureKept == tree # <<>> => p.status = "ok" /\ IsPrefix(Shape(out), Expected(1))

\* The serializer's walk ends, and what it wrote arrives completely.
DeliveredAll == <>(tree # <<>> => state = "STOP" /\ Shape(out) = Expected(1))

Opens == SelectSeq(out, LAMBDA call : call.op = "open")

\* Every attribute with a value is delivered with the object it belongs to,
\* whatever was left in the registers by earlier ones.
AttributesKept ==
    tree # <<>> =>
        \A i \in DOMAIN Opens : \A j \in DOMAIN tree[i].attrs :
            LET a == tree[i].attrs[j] IN a[2] # <<>> => a \in Opens[i].attrs

\* The vectors of the parser test show an object without attributes behind one
\* with attributes: an object gets no attribute that is not its own.
AttributesExact ==
    tree # <<>> =>
        \A i \in DOMAIN Opens : Opens[i].attrs = ToSet(tree[i].attrs)

=============================================================================
