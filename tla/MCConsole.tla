----------------------------- MODULE MCConsole -----------------------------
(***************************************************************************)
(* Console for the model checker: dispatchers are alike, and so are        *)
(* providers, whose order is all in rank.                                  *)
(***************************************************************************)
EXTENDS Console, TLC

Symmetry == Permutations(Dispatchers) \cup Permutations(Providers)
=============================================================================
