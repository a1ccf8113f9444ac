--------------------------- MODULE MCReconService ---------------------------
(* A small instance of ReconService; threads and run ids are alike.        *)
EXTENDS ReconService, TLC

Alike == Permutations(Threads) \union Permutations(Runs)
=============================================================================
