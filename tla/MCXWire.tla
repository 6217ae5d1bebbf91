------------------------------- MODULE MCXWire -------------------------------
(***************************************************************************)
(* Trees of up to three objects with names of one and two letters and      *)
(* text; tags with a shorter value behind a longer one, and with an empty  *)
(* value between two others; inputs of any four characters behind the      *)
(* beginnings of a document, of a tag and of a value.                      *)
(***************************************************************************)
EXTENDS XWire

MCAlpha == {"a", "b"}

Shapes == {<<0>>, <<0, 1>>, <<0, 1, 1>>, <<0, 1, 2>>}
Names == {<<"a">>, <<"a", "b">>}
Lists == {<<>>,
          <<<<<<"a">>, <<"a", "b">>>>, <<<<"b">>, <<"b">>>>>>,
          <<<<<<"a">>, <<"a", "b">>>>, <<<<"b">>, <<>>>>, <<<<"a", "b">>, <<"b">>>>>>}
Contents == {<<>>, <<"b">>}

Labelled(parents, names, lists, texts) ==
    [o \in DOMAIN parents |-> [parent |-> parents[o], name |-> names[o],
                               attrs |-> lists[o], content |-> texts[o]]]

MCTrees ==
    UNION {{Labelled(s, n, l, c) :
               n \in [DOMAIN s -> Names], l \in [DOMAIN s -> Lists],
               c \in [DOMAIN s -> Contents]} : s \in Shapes}

\* Trees without empty values.
MCPlainTrees ==
    UNION {{Labelled(s, [o \in DOMAIN s |-> <<"a">>], l, [o \in DOMAIN s |-> <<>>]) :
               l \in [DOMAIN s -> {<<>>, <<<<<<"a">>, <<"b">>>>>>}]} : s \in Shapes}

MCStarts == {<<>>, <<"<", "a", " ">>, <<"<", "a", " ", "b", "=", "'">>}

=============================================================================
