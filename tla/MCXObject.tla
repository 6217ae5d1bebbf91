------------------------------ MODULE MCXObject ------------------------------
(***************************************************************************)
(* Small instances of XCallers: up to four objects and two names.          *)
(***************************************************************************)
EXTENDS XCallers, TLC

CONSTANTS o1, o2, o3, o4

\* "c" is a prefix of "cx".
MCEQN == {<<"c", "c">>, <<"d", "d">>, <<"cx", "cx">>, <<"c", "cx">>}

MCName3 == o1 :> "c" @@ o2 :> "c" @@ o3 :> "cx"

MCName4 == o1 :> "c" @@ o2 :> "c" @@ o3 :> "c" @@ o4 :> "d"

Sym3 == Permutations({o1, o2})

Sym4 == Permutations({o1, o2, o3})

=============================================================================
