------------------------------ MODULE XCallers -------------------------------
(***************************************************************************)
(* The object tree under its three kinds of callers: which kind is fixed   *)
(* in the initial state, and what the tree guarantees depends on it.       *)
(***************************************************************************)
EXTENDS XObject

CONSTANT Callers     \* the kinds of callers there are

VARIABLE caller

CallerInit == Init /\ caller \in Callers

CallerNext ==
    /\ \/ caller = "any" /\ AnyNext
       \/ caller = "session" /\ SessionNext
       \/ caller = "stanza" /\ StanzaNext
    /\ UNCHANGED caller

CallerSpec == CallerInit /\ [][CallerNext]_<<vars, caller>>

\* Callers that tear trees down the way the session code does never see an
\* object freed that is in use: x_object_destroy_tree and _RMOV only drop the
\* references of the links they cut and of the creator.
SessionKeepsUsed == caller = "session" => NoFreeWhileInUse

\* For callers that never use _RMOV the sons and sibling pointers lead to
\* exactly the children: x_object_destroy_no_cb repairs what it unlinks.
StanzaListExact == caller = "stanza" => ListExact

\* For callers that never use _RMOV, and names none of which is a prefix of
\* another, the next chain of a name is exact, whatever was inserted and
\* destroyed in between.
StanzaNextComplete == caller = "stanza" /\ NamesApart => NextComplete

\* Callers that never use _RMOV, with such names, reach no freed node, neither by
\* siblings nor by next.
StanzaNoDangling == caller = "stanza" /\ NamesApart => NoDanglingAccess

=============================================================================
