------------------------------ MODULE MCDispatch ------------------------------
(***************************************************************************)
(* Small instances of Dispatch.  Requests, providers and quotes are        *)
(* interchangeable, so the safety runs identify their permutations.        *)
(***************************************************************************)
EXTENDS Dispatch, TLC

Symmetry == Permutations(Providers) \cup Permutations(Quotes) \cup Permutations(Threads)
=============================================================================
