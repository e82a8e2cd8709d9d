----------------------------- MODULE Positions ------------------------------
(***************************************************************************)
(* What a filter leaves of a sequence (retain, filter): the elements at    *)
(* some positions, in the order they had.                                  *)
(***************************************************************************)
EXTENDS Integers, FiniteSets

\* The elements of s at the positions of a set, in their order.
Picked(s, I) ==
    [k \in 1 .. Cardinality(I) |-> s[CHOOSE i \in I : Cardinality({j \in I : j < i}) + 1 = k]]
=============================================================================
