----------------------------- MODULE Ascending ------------------------------
(* The members of a finite set of numbers, each once, the smallest first.  *)
EXTENDS Naturals, FiniteSets

Ascending(S) ==
    CHOOSE list \in [1 .. Cardinality(S) -> S] :
        \A i, j \in 1 .. Cardinality(S) : i < j => list[i] < list[j]
=============================================================================
