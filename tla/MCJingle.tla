------------------------------ MODULE MCJingle -------------------------------
(* A call between two hosts with one network interface each. *)
EXTENDS Jingle

MCCand == {"h1", "h2", "r1", "r2"}
MCHost == [e \in End |-> IF e = "caller" THEN {"h1"} ELSE {"h2"}]

\* Both sides can learn an address from STUN.
MCReflexive == [e \in End |-> IF e = "caller" THEN {"r1"} ELSE {"r2"}]

\* Only the callee can.
MCReflexiveCallee == [e \in End |-> IF e = "caller" THEN {} ELSE {"r2"}]

=============================================================================
