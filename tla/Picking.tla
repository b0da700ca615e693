-------------------------------- MODULE Picking --------------------------------
(* Python's [x for x in s if ...]: the elements of s at the positions kept,   *)
(* in their order.  A function of the set of positions, so that lemmas can    *)
(* quantify over what a comprehension keeps.                                  *)
EXTENDS Integers, FiniteSets

\* The j-th least of the positions kept.
Position(kept, j) == CHOOSE i \in kept : Cardinality({k \in kept : k <= i}) = j

Picked(s, kept) == [j \in 1 .. Cardinality(kept) |-> s[Position(kept, j)]]
===============================================================================
