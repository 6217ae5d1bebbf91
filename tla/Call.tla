-------------------------------- MODULE Call ---------------------------------
(***************************************************************************)
(* What a call promises its two users, without messages and threads: it    *)
(* rings at the callee after the caller placed it, the caller talks only   *)
(* to a callee that has picked up, and a side leaves the call only because *)
(* its own user hangs up or because the other side has left; a call that   *)
(* is over stays over.                                                     *)
(***************************************************************************)
CONSTANT HangsUp   \* sides whose user can hang up

VARIABLES phase,   \* how far each side is in the call
          left     \* sides whose user has hung up

vars == <<phase, left>>

End == {"caller", "callee"}
Other(e) == CHOOSE o \in End : o # e
Phases == {"idle", "ringing", "answering", "talking", "ending", "over"}

TypeOK ==
    /\ phase \in [End -> Phases]
    /\ left \in SUBSET HangsUp

Init ==
    /\ phase = [e \in End |-> "idle"]
    /\ left = {}

Moves(e, from, to) ==
    /\ phase[e] \in from
    /\ phase' = [phase EXCEPT ![e] = to]

Place == Moves("caller", {"idle"}, "ringing") /\ UNCHANGED left

Ring ==
    /\ phase["caller"] # "idle"
    /\ Moves("callee", {"idle"}, "ringing")
    /\ UNCHANGED left

\* The callee says that it answers, and talks.
PickUp == Moves("callee", {"ringing"}, "answering") /\ UNCHANGED left

Talk == Moves("callee", {"answering"}, "talking") /\ UNCHANGED left

\* The caller may hear of it before the callee talks.
Connected ==
    /\ phase["callee"] \notin {"idle", "ringing"}
    /\ Moves("caller", {"ringing"}, "talking")
    /\ UNCHANGED left

HangUp(e) ==
    /\ e \in HangsUp \ left
    /\ phase[e] \in {"ringing", "answering", "talking", "ending"}
    /\ phase' = [phase EXCEPT ![e] = "ending"]
    /\ left' = left \cup {e}

\* The other side has left, and one of the users wanted to.
Follow(e) ==
    /\ phase[Other(e)] \in {"ending", "over"}
    /\ left # {}
    /\ Moves(e, {"ringing", "answering", "talking"}, "ending")
    /\ UNCHANGED left

Finish(e) == Moves(e, {"ending"}, "over") /\ UNCHANGED left

Next ==
    \/ Place \/ Ring \/ PickUp \/ Talk \/ Connected
    \/ \E e \in End : HangUp(e) \/ Follow(e) \/ Finish(e)

Spec == Init /\ [][Next]_vars

=============================================================================
