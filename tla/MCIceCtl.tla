------------------------------ MODULE MCIceCtl -------------------------------
(***************************************************************************)
(* A peer with two network interfaces: the data ports d1 and d2, and the   *)
(* control port c of the first one.                                        *)
(***************************************************************************)
EXTENDS IceCtl

CONSTANTS c, d1, d2, s, p0

MCDataPort == [r \in Remote |-> IF r = d2 THEN d2 ELSE d1]

=============================================================================
