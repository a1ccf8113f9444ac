------------------------------- MODULE Positions -------------------------------
(***************************************************************************)
(* The elements of a sequence at a set of places, in the sequence's order: *)
(* what a filtering loop keeps.  The order is by rank and not by a sort,   *)
(* which is a form the proofs can look into.                               *)
(***************************************************************************)
EXTENDS Integers, Sequences, FiniteSets

\* The members of a finite set of integers, smallest first.
InOrder(S) ==
    [n \in 1 .. Cardinality(S) |-> CHOOSE i \in S : Cardinality({j \in S : j <= i}) = n]

At(s, places) == LET order == InOrder(places) IN [n \in DOMAIN order |-> s[order[n]]]
=============================================================================
