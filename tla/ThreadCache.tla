------------------------------ MODULE ThreadCache ------------------------------
(***************************************************************************)
(* internal::TlsPoolBucket (SmMalloc/smmalloc.h, smmalloc.cpp): what each  *)
(* thread caches of one bucket, in front of the pool that all share.  A    *)
(* cache has two stacks, L0 inside the thread-local record and L1 in an    *)
(* array of its own; Free() fills them and, when both are full, gives half *)
(* of L1 back to the pool in one FreeInterval().  A thread may also use    *)
(* the bucket without a cache.                                             *)
(*                                                                         *)
(* The pool is the atomic one of BlockPool.tla, and that is an assumption: *)
(* the list of PoolBucket.tla keeps BlockPool's promise for single blocks  *)
(* and, in PoolBucket_ChainAba.cfg, breaks it for the chains that a flush  *)
(* and the destruction of a cache push while another thread pops.  What is *)
(* shown here is what the caches add to, or could spoil in, a pool that    *)
(* keeps it.                                                               *)
(*                                                                         *)
(* What a thread does to its own cache nobody else sees, so an action is   *)
(* one access to the pool with the thread-local work next to it.           *)
(* allocated, the pool's view, are all the blocks outside the pool:        *)
(* cached, or with the program.                                            *)
(***************************************************************************)
EXTENDS Integers, Sequences, SequencesExt

CONSTANTS
  Threads,
  Blocks,
  L0Size,      \* SMM_MAX_CACHE_ITEMS_COUNT
  CacheSizes   \* the cache sizes a thread may ask for, L0 not counted

(* Init() asserts that the size is at least two. *)
ASSUME CacheConstants ==
  /\ L0Size \in Nat \ {0}
  /\ CacheSizes \subseteq Nat \ {0, 1}

VARIABLES
  free, allocated, releasing,  \* the pool
  held,              \* the blocks the program has, and may free
  pc,                \* what each thread is doing
  maxElementsCount,  \* per thread; 0: no cache
  L0,                \* per thread, storageL0 up to numElementsL0
  L1,                \* per thread, pStorageL1 up to numElementsL1
  num,               \* per thread, the elements Init() wants to warm up with
  root,              \* per thread, the blocks warmed up so far, the last first
  freed              \* per thread, the block whose Free() waits for room in L1, if any

pool == <<free, allocated, releasing>>
cache == <<maxElementsCount, L0, L1>>
warming == <<num, root>>
vars == <<free, allocated, releasing, held, pc, maxElementsCount, L0, L1, num, root, freed>>

Pool == INSTANCE BlockPool

Init ==
  /\ Pool!Init
  /\ held = {}
  /\ pc = [t \in Threads |-> "idle"]
  /\ maxElementsCount = [t \in Threads |-> 0]
  /\ L0 = [t \in Threads |-> <<>>]
  /\ L1 = [t \in Threads |-> <<>>]
  /\ num = [t \in Threads |-> 0]
  /\ root = [t \in Threads |-> <<>>]
  /\ freed = [t \in Threads |-> <<>>]
-----------------------------------------------------------------------------
(* AllocFromCache(): from L0, and when it is empty from L1. *)
AllocL0(t) ==
  /\ pc[t] = "idle"
  /\ L0[t] # <<>>
  /\ held' = held \union {Last(L0[t])}
  /\ L0' = [L0 EXCEPT ![t] = Front(@)]
  /\ UNCHANGED <<pool, pc, maxElementsCount, L1, warming, freed>>

AllocL1(t) ==
  /\ pc[t] = "idle"
  /\ L0[t] = <<>>
  /\ L1[t] # <<>>
  /\ held' = held \union {Last(L1[t])}
  /\ L1' = [L1 EXCEPT ![t] = Front(@)]
  /\ UNCHANGED <<pool, pc, maxElementsCount, L0, warming, freed>>

(* Allocate(): a request for smaller blocks, whose buckets are empty, comes *)
(* to this pool, past whatever the thread has cached of it.                 *)
AllocOverflow(t, b) ==
  /\ pc[t] = "idle"
  /\ Pool!Alloc(b)
  /\ held' = held \union {b}
  /\ UNCHANGED <<pc, cache, warming, freed>>

(* Allocate(): the cache is empty, the pool is asked.  An empty pool is the *)
(* affair of other buckets, and changes nothing here.                       *)
AllocPool(t, b) ==
  /\ L0[t] = <<>>
  /\ L1[t] = <<>>
  /\ AllocOverflow(t, b)
-----------------------------------------------------------------------------
(* Free() without a cache: FreeInterval(p, p). *)
FreePool(t, b) ==
  /\ pc[t] = "idle"
  /\ b \in held
  /\ maxElementsCount[t] = 0
  /\ Pool!FreeBegin(t, {b})
  /\ held' = held \ {b}
  /\ pc' = [pc EXCEPT ![t] = "free"]
  /\ UNCHANGED <<cache, warming, freed>>

FreePoolEnd(t) ==
  /\ pc[t] = "free"
  /\ Pool!FreeEnd(t)
  /\ pc' = [pc EXCEPT ![t] = "idle"]
  /\ UNCHANGED <<held, cache, warming, freed>>

(* ReleaseToCache(): to L0 while it has room ... *)
FreeL0(t, b) ==
  /\ pc[t] = "idle"
  /\ b \in held
  /\ maxElementsCount[t] > 0
  /\ Len(L0[t]) < L0Size
  /\ held' = held \ {b}
  /\ L0' = [L0 EXCEPT ![t] = Append(@, b)]
  /\ UNCHANGED <<pool, pc, maxElementsCount, L1, warming, freed>>

(* ... then to L1 while it has room ... *)
FreeL1(t, b) ==
  /\ pc[t] = "idle"
  /\ b \in held
  /\ maxElementsCount[t] > 0
  /\ Len(L0[t]) = L0Size
  /\ Len(L1[t]) < maxElementsCount[t]
  /\ held' = held \ {b}
  /\ L1' = [L1 EXCEPT ![t] = Append(@, b)]
  /\ UNCHANGED <<pool, pc, maxElementsCount, L0, warming, freed>>

(* Mutants: nothing is returned, a quarter is. *)
FlushCountNone(s) == 0
FlushCountQuarter(s) == (Len(s) + 3) \div 4

(* halfOfElements *)
FlushCount(s) == Len(s) \div 2

(* Mutant: the elements at the bottom are returned, those at the top leave  *)
(* the cache.                                                               *)
ReturnedFromBottom(s, count) == {s[i] : i \in 1..count}

(* ReturnL1CacheToMaster(): the count elements at the top of L1 ... *)
Returned(s, count) == {s[i] : i \in (Len(s) - count + 1)..Len(s)}

(* ... and what stays.  numElementsL1 is lowered after FreeInterval(); only *)
(* the thread itself could tell.                                            *)
Kept(s, count) == SubSeq(s, 1, Len(s) - count)

(* ... and when both are full half of L1 goes back to the pool first. *)
FreeFlush(t, b) ==
  /\ pc[t] = "idle"
  /\ b \in held
  /\ maxElementsCount[t] > 0
  /\ Len(L0[t]) = L0Size
  /\ Len(L1[t]) >= maxElementsCount[t]
  /\ LET count == FlushCount(L1[t])
     IN  /\ IF count = 0
            THEN UNCHANGED pool
            ELSE Pool!FreeBegin(t, Returned(L1[t], count))
         /\ L1' = [L1 EXCEPT ![t] = Kept(@, count)]
  /\ held' = held \ {b}
  /\ freed' = [freed EXCEPT ![t] = <<b>>]
  /\ pc' = [pc EXCEPT ![t] = "flush"]
  /\ UNCHANGED <<maxElementsCount, L0, warming>>

FreeFlushEnd(t) ==
  /\ pc[t] = "flush"
  /\ IF releasing[t] = {} THEN UNCHANGED pool ELSE Pool!FreeEnd(t)
  /\ L1' = [L1 EXCEPT ![t] = @ \o freed[t]]
  /\ freed' = [freed EXCEPT ![t] = <<>>]
  /\ pc' = [pc EXCEPT ![t] = "idle"]
  /\ UNCHANGED <<held, maxElementsCount, L0, warming>>
-----------------------------------------------------------------------------
(* The elements Init() tries to have: none, half or all of the cache. *)
WarmupCounts(max) == {0, max \div 2, max}

(* CreateThreadCache(): TlsPoolBucket::Init() for a thread without a cache. *)
CreateThreadCache(t, max) ==
  /\ pc[t] = "idle"
  /\ maxElementsCount[t] = 0
  /\ maxElementsCount' = [maxElementsCount EXCEPT ![t] = max]
  /\ num' \in {[num EXCEPT ![t] = n] : n \in WarmupCounts(max)}
  /\ pc' = [pc EXCEPT ![t] = "warmup"]
  /\ UNCHANGED <<pool, held, L0, L1, root, freed>>

(* Init(): one more block from the pool, chained in front of the others. *)
WarmupAlloc(t, b) ==
  /\ pc[t] = "warmup"
  /\ Len(root[t]) < num[t]
  /\ Pool!Alloc(b)
  /\ root' = [root EXCEPT ![t] = <<b>> \o @]
  /\ UNCHANGED <<held, pc, cache, num, freed>>

(* Init(): enough, or the pool is empty and the block that Allocate() found *)
(* elsewhere has been given back: the chain is moved to L1, past L0.        *)
WarmupEnd(t) ==
  /\ pc[t] = "warmup"
  /\ Len(root[t]) = num[t] \/ free = {}
  /\ L1' = [L1 EXCEPT ![t] = @ \o root[t]]
  /\ root' = [root EXCEPT ![t] = <<>>]
  /\ pc' = [pc EXCEPT ![t] = "warm"]
  /\ UNCHANGED <<pool, held, maxElementsCount, L0, num, freed>>

(* Init() has passed its last assertion and returns. *)
WarmupReturn(t) ==
  /\ pc[t] = "warm"
  /\ num' = [num EXCEPT ![t] = 0]
  /\ pc' = [pc EXCEPT ![t] = "idle"]
  /\ UNCHANGED <<pool, held, cache, root, freed>>

(* Mutant: L0 is forgotten. *)
CachedL1(t) == Range(L1[t])

(* Destroy() moves L0 behind L1, so that one interval holds it all. *)
Cached(t) == Range(L0[t]) \union Range(L1[t])

(* DestroyThreadCache(): all that is cached goes back in one interval. *)
DestroyThreadCache(t) ==
  /\ pc[t] = "idle"
  /\ maxElementsCount[t] > 0
  /\ IF Cached(t) = {} THEN UNCHANGED pool ELSE Pool!FreeBegin(t, Cached(t))
  /\ L0' = [L0 EXCEPT ![t] = <<>>]
  /\ L1' = [L1 EXCEPT ![t] = <<>>]
  /\ pc' = [pc EXCEPT ![t] = "destroy"]
  /\ UNCHANGED <<held, maxElementsCount, warming, freed>>

DestroyEnd(t) ==
  /\ pc[t] = "destroy"
  /\ IF releasing[t] = {} THEN UNCHANGED pool ELSE Pool!FreeEnd(t)
  /\ maxElementsCount' = [maxElementsCount EXCEPT ![t] = 0]
  /\ pc' = [pc EXCEPT ![t] = "idle"]
  /\ UNCHANGED <<held, L0, L1, warming, freed>>
-----------------------------------------------------------------------------
(* The steps of a call that has begun. *)
Step(t) ==
  \/ FreePoolEnd(t)
  \/ FreeFlushEnd(t)
  \/ \E b \in Blocks : WarmupAlloc(t, b)
  \/ WarmupEnd(t)
  \/ WarmupReturn(t)
  \/ DestroyEnd(t)

Call(t) ==
  \/ AllocL0(t)
  \/ AllocL1(t)
  \/ \E b \in Blocks : AllocPool(t, b)
  \/ \E b \in Blocks : AllocOverflow(t, b)
  \/ \E b \in Blocks : FreePool(t, b)
  \/ \E b \in Blocks : FreeL0(t, b)
  \/ \E b \in Blocks : FreeL1(t, b)
  \/ \E b \in Blocks : FreeFlush(t, b)
  \/ \E max \in CacheSizes : CreateThreadCache(t, max)
  \/ DestroyThreadCache(t)

Next == \E t \in Threads : Call(t) \/ Step(t)

Spec == Init /\ [][Next]_vars
-----------------------------------------------------------------------------
TypeOK ==
  /\ free \subseteq Blocks
  /\ allocated \subseteq Blocks
  /\ releasing \in [Threads -> SUBSET Blocks]
  /\ held \subseteq Blocks
  /\ pc \in [Threads -> {"idle", "free", "flush", "warmup", "warm", "destroy"}]
  /\ maxElementsCount \in [Threads -> CacheSizes \union {0}]
  /\ L0 \in [Threads -> Seq(Blocks)]
  /\ L1 \in [Threads -> Seq(Blocks)]
  /\ num \in [Threads -> Nat]
  /\ root \in [Threads -> Seq(Blocks)]
  /\ freed \in [Threads -> Seq(Blocks)]

(* What thread t has of the bucket besides what the program holds. *)
Owned(t) == L0[t] \o L1[t] \o root[t] \o freed[t]

(* Each block outside the pool is in one place: with the program, or once   *)
(* in the cache of one thread.  The next Alloc() of no thread returns a     *)
(* block that the program holds, and no flush pushes one twice.             *)
OneOwner ==
  /\ \A t \in Threads : \A i, j \in DOMAIN Owned(t) : Owned(t)[i] = Owned(t)[j] => i = j
  /\ \A t \in Threads : Range(Owned(t)) \intersect held = {}
  /\ \A t, u \in Threads : t # u => Range(Owned(t)) \intersect Range(Owned(u)) = {}
  /\ allocated = held \union UNION {Range(Owned(t)) : t \in Threads}

(* The stacks stay in their arrays: L0 in storageL0, L1 below the limit set *)
(* by CreateThreadCache(), so that, as the comment in Destroy() says, "we   *)
(* always has free space for L0 cache inside L1".                           *)
CacheFits ==
  \A t \in Threads :
    /\ Len(L0[t]) <= L0Size
    /\ Len(L1[t]) + Len(root[t]) + Len(freed[t]) <= maxElementsCount[t]

(* The comment in ReleaseToCache(): half of the cache goes back so that not *)
(* every Free() on a full cache is an operation on the pool.  With room for *)
(* four or more, a Free() that flushes leaves room for half of them less    *)
(* the one it stores.                                                       *)
FlushMakesRoom ==
  [][\A t \in Threads :
       pc[t] = "flush" /\ pc'[t] = "idle"
         => maxElementsCount[t] - Len(L1'[t]) >= maxElementsCount[t] \div 2 - 1]_vars

(* The last assertion of Init(): the cache holds what was asked for. *)
WarmedUp ==
  \A t \in Threads : pc[t] = "warm" => Len(L0[t]) + Len(L1[t]) = num[t]

(* When all threads have destroyed their caches and the program has freed   *)
(* everything, every block is allocatable again.                            *)
AllBack ==
  (\A t \in Threads : pc[t] = "idle" /\ maxElementsCount[t] = 0) /\ held = {} => free = Blocks
=============================================================================
