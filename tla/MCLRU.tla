------------------------------- MODULE MCLRU -------------------------------
(* Model-checking instance of LRU. *)
EXTENDS LRU, TLC

Symmetry == Permutations(CacheKeys) \cup Permutations(Bodies)
=============================================================================
