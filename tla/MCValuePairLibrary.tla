-------------------------- MODULE MCValuePairLibrary --------------------------
(***************************************************************************)
(* ValuePairLibrary for TLC: two runs and a request are interchangeable    *)
(* only within their kind.                                                 *)
(***************************************************************************)
EXTENDS ValuePairLibrary, FiniteSets, TLC

Symmetry == Permutations(Runs)

\* One run at most is discarded, and users delete at most one row beside that.
MCOneDiscard ==
  /\ Cardinality(deleting \union swept) <= 1
  /\ deleting \union swept # {} => Cardinality(erased) <= 1

==============================================================================
