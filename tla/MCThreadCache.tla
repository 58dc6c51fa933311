---------------------------- MODULE MCThreadCache ----------------------------
(* TLC instances of ThreadCache. *)
EXTENDS ThreadCache, TLC

Symmetry == Permutations(Threads) \union Permutations(Blocks)
=============================================================================
