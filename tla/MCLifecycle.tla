----------------------------- MODULE MCLifecycle -----------------------------
(* TLC instances of Lifecycle. *)
EXTENDS Lifecycle, TLC

(* A cache of two for the first bucket, or for both. *)
CacheOptions == {<<2>>, <<2, 2>>}

Symmetry == Permutations(Threads) \union Permutations(Allocators)
=============================================================================
