---------------------------- MODULE MCMemoryStore ----------------------------
(***************************************************************************)
(* A small instance of MemoryStore, in which the providers may change      *)
(* places.                                                                 *)
(***************************************************************************)
EXTENDS MemoryStore, TLC

Symmetry == Permutations(Providers)
=============================================================================
