---------------------------- MODULE MCBaseCache ----------------------------
(* Instances of BaseCache for TLC. *)
EXTENDS BaseCache, TLC

Symmetry == Permutations(Threads) \cup Permutations(Keys)
=============================================================================
