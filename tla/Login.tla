-------------------------------- MODULE Login --------------------------------
(***************************************************************************)
(* What logging in promises, without streams, features and stanzas: a      *)
(* connection is authenticated once, under TLS if its server asks for that *)
(* before anything else, then gets a resource, and only then shows the     *)
(* user; nothing of it outlives the connection.                            *)
(***************************************************************************)
EXTENDS Naturals

VARIABLES stage,     \* how far the connection has come
          secured,   \* it is encrypted
          tlsFirst   \* its server asks for TLS before anything else

vars == <<stage, secured, tlsFirst>>

Stages == {"down", "up", "authenticated", "bound", "online"}

TypeOK ==
    /\ stage \in Stages
    /\ secured \in BOOLEAN
    /\ tlsFirst \in BOOLEAN

Init ==
    /\ stage = "down"
    /\ secured = FALSE
    /\ tlsFirst \in BOOLEAN

Connect ==
    /\ stage = "down"
    /\ stage' = "up"
    /\ secured' = FALSE
    /\ tlsFirst' \in BOOLEAN

Secure ==
    /\ stage = "up" /\ ~secured
    /\ secured' = TRUE
    /\ UNCHANGED <<stage, tlsFirst>>

Authenticate ==
    /\ stage = "up"
    /\ tlsFirst => secured
    /\ stage' = "authenticated"
    /\ UNCHANGED <<secured, tlsFirst>>

Bind ==
    /\ stage = "authenticated"
    /\ stage' = "bound"
    /\ UNCHANGED <<secured, tlsFirst>>

Announce ==
    /\ stage = "bound"
    /\ stage' = "online"
    /\ UNCHANGED <<secured, tlsFirst>>

Break ==
    /\ stage # "down"
    /\ stage' = "down"
    /\ secured' = FALSE
    /\ UNCHANGED tlsFirst

Next == Connect \/ Secure \/ Authenticate \/ Bind \/ Announce \/ Break

Spec == Init /\ [][Next]_vars

=============================================================================
