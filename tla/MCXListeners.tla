---------------------------- MODULE MCXListeners -----------------------------
(***************************************************************************)
(* An instance of XListeners: three listeners, of which c also follows,    *)
(* and a write handler e that is a follower as well.                       *)
(***************************************************************************)
EXTENDS XListeners

CONSTANTS a, b, c, d, e

\* a and b only listen and are alike.
Symmetry == Permutations({a, b})
=============================================================================
