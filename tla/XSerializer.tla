----------------------------- MODULE XSerializer -----------------------------
(***************************************************************************)
(* __x_parser_object_serialize (x_parser.c): an object tree is written as  *)
(* a sequence of characters by a walk that keeps a current object and a    *)
(* state, without recursion.  One step is one round of its loop.           *)
(***************************************************************************)
EXTENDS Naturals, Sequences, SequencesExt

VARIABLES tree,    \* the objects, numbered in document order; 1 is the root
          cur,     \* the current object
          state,   \* STATE_OPEN, STATE_CLOSE or STATE_STOP
          wire     \* characters written and not yet read

serializer == <<tree, cur, state, wire>>

Nodes == DOMAIN tree

\* x_object_get_parent, the sons pointer and x_object_get_sibling; 0 is NULL.
Parent(o) == tree[o].parent
FirstOf(S) == IF S = {} THEN 0 ELSE CHOOSE x \in S : \A y \in S : x <= y
Sons(o) == FirstOf({c \in Nodes : Parent(c) = o})
Sibling(o) == FirstOf({c \in Nodes : Parent(c) = Parent(o) /\ c > o})

Attribute(a) == <<" ">> \o a[1] \o <<"=", "'">> \o a[2] \o <<"'">>

Opening(o) ==
    <<"<">> \o tree[o].name
    \o FlattenSeq([i \in DOMAIN tree[o].attrs |-> Attribute(tree[o].attrs[i])])

Closing(o) == tree[o].content \o <<"<", "/">> \o tree[o].name \o <<">">>

\* case STATE_OPEN
SerializeOpen ==
    /\ state = "OPEN"
    /\ LET empty == Sons(cur) = 0 /\ tree[cur].content = <<>>
       IN  /\ wire' = wire \o Opening(cur) \o (IF empty THEN <<"/", ">">> ELSE <<">">>)
           /\ CASE Sons(cur) # 0 -> cur' = Sons(cur) /\ UNCHANGED state
                [] Sons(cur) = 0 /\ ~empty -> state' = "CLOSE" /\ UNCHANGED cur
                [] empty /\ cur = 1 -> state' = "STOP" /\ UNCHANGED cur
                [] empty /\ cur # 1 /\ Sibling(cur) # 0 ->
                      cur' = Sibling(cur) /\ UNCHANGED state
                [] OTHER -> state' = "CLOSE" /\ cur' = Parent(cur)
    /\ UNCHANGED tree

\* Mutation: the walk goes up although there is a sibling.
SerializeCloseSkips ==
    /\ state = "CLOSE"
    /\ wire' = wire \o Closing(cur)
    /\ IF cur = 1 THEN state' = "STOP" /\ UNCHANGED cur
       ELSE cur' = Parent(cur) /\ UNCHANGED state
    /\ UNCHANGED tree

\* Mutation: the walk stops at the last sibling.
SerializeCloseStops ==
    /\ state = "CLOSE"
    /\ wire' = wire \o Closing(cur)
    /\ IF cur # 1 /\ Sibling(cur) # 0 THEN cur' = Sibling(cur) /\ state' = "OPEN"
       ELSE state' = "STOP" /\ UNCHANGED cur
    /\ UNCHANGED tree

\* case STATE_CLOSE
SerializeClose ==
    /\ state = "CLOSE"
    /\ wire' = wire \o Closing(cur)
    /\ CASE cur = 1 -> state' = "STOP" /\ UNCHANGED cur
         [] cur # 1 /\ Sibling(cur) # 0 -> cur' = Sibling(cur) /\ state' = "OPEN"
         [] OTHER -> cur' = Parent(cur) /\ UNCHANGED state
    /\ UNCHANGED tree

Serialize == SerializeOpen \/ SerializeClose

=============================================================================
