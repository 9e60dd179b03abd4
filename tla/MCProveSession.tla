---------------------------- MODULE MCProveSession ----------------------------
(* ProveSession with callers and calls that are interchangeable.           *)
EXTENDS ProveSession, TLC

Symmetry == Permutations(Callers) \cup Permutations(Calls)
===============================================================================
