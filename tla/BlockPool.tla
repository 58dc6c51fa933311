------------------------------ MODULE BlockPool ------------------------------
(***************************************************************************)
(* What one bucket of smmalloc promises its callers: an atomic pool of     *)
(* equal blocks.  A block is free, allocated to a caller, or being         *)
(* released by exactly one thread; allocation takes a free block at one    *)
(* instant, and a release makes all its blocks free at one instant.        *)
(* PoolBucket.tla, the lock-free list, is shown to implement this.         *)
(***************************************************************************)
CONSTANTS
  Threads,    \* the threads that call the pool
  Blocks      \* the blocks the pool was created with

VARIABLES
  free,       \* the blocks an allocation may return
  allocated,  \* the blocks the callers hold
  releasing   \* per thread, the blocks its call of FreeInterval gives back

vars == <<free, allocated, releasing>>

Init ==
  /\ free = Blocks
  /\ allocated = {}
  /\ releasing = [t \in Threads |-> {}]

(* Alloc returns a free block, which is then nobody else's. *)
Alloc(b) ==
  /\ b \in free
  /\ free' = free \ {b}
  /\ allocated' = allocated \union {b}
  /\ UNCHANGED releasing

(* The caller gives up blocks it holds ... *)
FreeBegin(t, B) ==
  /\ releasing[t] = {}
  /\ B # {}
  /\ B \subseteq allocated
  /\ allocated' = allocated \ B
  /\ releasing' = [releasing EXCEPT ![t] = B]
  /\ UNCHANGED free

(* ... and all of them become free together. *)
FreeEnd(t) ==
  /\ releasing[t] # {}
  /\ free' = free \union releasing[t]
  /\ releasing' = [releasing EXCEPT ![t] = {}]
  /\ UNCHANGED allocated

Next ==
  \/ \E b \in Blocks : Alloc(b)
  \/ \E t \in Threads : \E B \in SUBSET Blocks : FreeBegin(t, B)
  \/ \E t \in Threads : FreeEnd(t)

Spec == Init /\ [][Next]_vars
=============================================================================
