---------------------------- MODULE MCLogSearch -----------------------------
(***************************************************************************)
(* Two keys, one of which begins the other; contents with a word in        *)
(* capitals, one repeated, one that begins another.                        *)
(***************************************************************************)
EXTENDS LogSearch

MCLower(c) == IF c = "A" THEN "a" ELSE c

ka == <<"k">>
kb == <<"k", "l">>
MCContents == {[key |-> ka, words |-> <<<<"A">>, <<"b">>, <<"a">>, <<"b">>>>],
               [key |-> kb, words |-> <<<<"b">>, <<"a", "b">>>>]}
MCAskedKeys == {ka, kb}
MCAskedWords ==
    {[words |-> <<<<"a">>, <<"b">>>>, padded |-> TRUE],
     [words |-> <<<<"b">>, <<"a", "b">>>>, padded |-> TRUE],
     [words |-> <<<<"A">>, <<"b">>>>, padded |-> TRUE],
     [words |-> <<<<"b">>>>, padded |-> FALSE],
     [words |-> <<<<"a">>>>, padded |-> TRUE],
     [words |-> <<>>, padded |-> TRUE]}
=============================================================================
