------------------------------ MODULE Allocator ------------------------------
(***************************************************************************)
(* Allocator::Allocate, Free, Realloc and GetUsableSize (smmalloc.h) over  *)
(* GenericAllocator (smmalloc_generic.cpp), with the statistics: requests  *)
(* go to the caller's cache, then to the pool of their bucket and of a few *)
(* larger ones, then to malloc; Realloc moves blocks between the two.      *)
(*                                                                         *)
(* A pool is the atomic one of BlockPool.tla, whose promise the list keeps *)
(* for single blocks (PoolRefinement in PoolBucketProofs.tla) and a racing *)
(* chain may break (PoolBucket_ChainAba.cfg); a cache is a set of blocks   *)
(* (its stacks are in ThreadCache.tla).  An action is one access to what   *)
(* the threads share, a pool, malloc or a counter, with the thread's own   *)
(* work around it; only a miss is counted with the look at the empty pool. *)
(***************************************************************************)
EXTENDS Partitioning, Integers, FiniteSets

CONSTANTS
  Threads,
  Caching,       \* the threads that have created caches
  CacheSize,     \* blocks of one bucket that a cache holds
  Scheme,        \* the partitioning compiled in
  bucketsCount,
  Elements,      \* blocks in every bucket
  GenericCount,  \* blocks that malloc can give out
  MaxOverflow,   \* buckets that one request may try: 4 in the code
  Sizes,         \* the bytesCount values the program asks for
  Alignments,    \* the alignments it asks for
  MaxCalls       \* bound: calls in one behaviour

ASSUME AllocatorConstants ==
  /\ IsFiniteSet(Threads)
  /\ Caching \subseteq Threads
  /\ Scheme \in {"linear", "pl", "float"}
  /\ {CacheSize, bucketsCount, Elements, MaxOverflow} \subseteq Nat \ {0}
  /\ GenericCount \in Nat
  /\ Sizes \subseteq Nat
  /\ Alignments \subseteq {1, 2, 4, 8, 16, 32, 64, 128, 256, 512, 1024, 2048, 4096}
  /\ "garbage" \notin Threads
  /\ MaxCalls \in Nat

VARIABLES
  free,         \* the blocks in the pools
  cached,       \* per thread, the blocks in its caches
  unused,       \* the generic blocks that malloc has not given out
  header,       \* per generic block, its Header and the address behind it
  mem,          \* per block, whose data is in it and how many bytes of that
  live,         \* the pointers the program has, each with what it may expect of it
  pc, op,       \* per thread, the call in progress
  globalStats, bucketStats,
  calls         \* history: calls so far

stats == <<globalStats, bucketStats>>
places == <<free, cached, unused, header>>
vars == <<free, cached, unused, header, mem, live, pc, op, globalStats, bucketStats, calls>>
-----------------------------------------------------------------------------
(* A pointer is a block of a bucket, a generic block, or one that must not  *)
(* be read: nullptr, and the alignment that stands for a block of no bytes. *)
Buckets == 0..(bucketsCount - 1)
PoolBlocks == [bucket : Buckets, n : 0..(Elements - 1)]
GenericBlocks == [bucket : {-1}, n : 0..(GenericCount - 1)]
Unreadable(v) == [bucket |-> -2, n |-> v]
Null == Unreadable(0)
IsReadable(p) == p.bucket # -2

(* FindBucket(p) < bucketsCount; that addresses tell is shown in PoolLayout. *)
InPool(p) == p.bucket >= 0

ElementSize(i) == GetBucketSizeInBytesByIndex(Scheme, i)
Lesser(a, b) == IF a < b THEN a ELSE b

(* What free() and a link in a free block leave of the contents. *)
Garbage == [data |-> "garbage", len |-> 0]

(* GenericAllocator::Alloc(): malloc is asked for room to move the block up *)
(* to its alignment and to put the header in front of it.                   *)
HeaderSize == 16
GenericAlignment(a) == IF a < 4 THEN 4 ELSE a
GenericOffset(a) == GenericAlignment(a) - 1 + HeaderSize

GenericAddress(p, a) ==
  ((p + GenericOffset(a)) \div GenericAlignment(a)) * GenericAlignment(a)

(* Where malloc puts its blocks: somewhere aligned to 16. *)
MallocAddress(g) == 16 + 48 * g.n

(* GetUsableSize() *)
UsableSize(p) ==
  IF ~IsReadable(p) THEN 0
  ELSE IF InPool(p) THEN ElementSize(p.bucket)
  ELSE header[p].size

NoOp == [old |-> Null, was |-> <<>>, new |-> Null, bytes |-> 0, align |-> 1,
         data |-> Garbage.data, index |-> 0, max |-> 0, isValidBucket |-> FALSE,
         fromCache |-> FALSE, grow |-> FALSE]

Init ==
  /\ free = PoolBlocks
  /\ cached = [t \in Threads |-> {}]
  /\ unused = GenericBlocks
  /\ header = [g \in GenericBlocks |-> [size |-> 0, user |-> 0, end |-> 0]]
  /\ mem = [p \in PoolBlocks \union GenericBlocks |-> Garbage]
  /\ live = <<>>
  /\ pc = [t \in Threads |-> "idle"]
  /\ op = [t \in Threads |-> NoOp]
  /\ globalStats = [attempts |-> 0, served |-> 0, routed |-> 0, bySize |-> 0, saturation |-> 0]
  /\ bucketStats = [i \in Buckets |-> [cacheHit |-> 0, hit |-> 0, miss |-> 0, free |-> 0]]
  /\ calls = 0
-----------------------------------------------------------------------------
(* live with one pointer more. *)
With(p, entry) == [q \in DOMAIN live \union {p} |-> IF q = p THEN entry ELSE live[q]]

(* The program has p and no call on it is in progress. *)
Held(p) == p \in DOMAIN live /\ \A t \in Threads : op[t].old # p

(* What the program may expect of a new block, which the caller fills with  *)
(* data of its own, and of a reallocated one, of which it keeps what fits;  *)
(* align is the alignment that the block was placed for, asked the one that *)
(* the program has asked for last.                                          *)
Filled(o) == [bytes |-> o.bytes, align |-> o.align, asked |-> o.align,
              data |-> o.data, len |-> o.bytes]
Moved(o) == [bytes |-> o.bytes, align |-> o.align, asked |-> o.align,
             data |-> o.was.data, len |-> Lesser(o.was.len, o.bytes)]

Idle(t) ==
  /\ pc' = [pc EXCEPT ![t] = "idle"]
  /\ op' = [op EXCEPT ![t] = NoOp]

(* An allocation for operation o has ended with pointer r: for the program, *)
(* or for Realloc(), which checks it on one path and not on the other: a    *)
(* failed move out of the generic allocator copies to nullptr.              *)
Deliver(t, o, r) ==
  \/ /\ o.old = Null
     /\ Idle(t)
     /\ IF r = Null
        THEN UNCHANGED <<mem, live>>
        ELSE /\ live' = With(r, Filled(o))
             /\ mem' = [mem EXCEPT ![r] = [data |-> o.data, len |-> o.bytes]]
  \/ /\ o.old # Null
     /\ r # Null
     /\ pc' = [pc EXCEPT ![t] = "move"]
     /\ op' = [op EXCEPT ![t] = [o EXCEPT !.new = r]]
     /\ UNCHANGED <<mem, live>>
  \/ /\ o.old # Null
     /\ r = Null
     /\ InPool(o.old) \/ o.grow
     /\ Idle(t)
     /\ UNCHANGED <<mem, live>>
  \/ /\ o.old # Null
     /\ r = Null
     /\ ~InPool(o.old)
     /\ ~o.grow
     /\ pc' = [pc EXCEPT ![t] = "crashed"]
     /\ UNCHANGED <<mem, live, op>>

Bucket(bytes, a) == GetBucketIndexBySize(Scheme, Align(bytes, a))

(* Mutant: the number of buckets is forgotten. *)
MaxBucketIndexUncapped(i) == i + MaxOverflow

MaxBucketIndex(i) == Lesser(bucketsCount, i + MaxOverflow)

(* The operation an Allocate() of bytes > 0 works on; old is the block that *)
(* Realloc() replaces, if any.                                              *)
Request(t, old, bytes, a) ==
  LET i == Bucket(bytes, a)
  IN  [old |-> old, was |-> IF old = Null THEN <<>> ELSE live[old], new |-> Null,
       bytes |-> bytes, align |-> a, data |-> t,
       index |-> i, max |-> MaxBucketIndex(i), isValidBucket |-> i < bucketsCount,
       fromCache |-> FALSE, grow |-> FALSE]

(* Block b is found for operation o, and is still to be counted. *)
Found(t, o, b, fromCache) ==
  /\ pc' = [pc EXCEPT ![t] = "served"]
  /\ op' = [op EXCEPT ![t] = [o EXCEPT !.new = b, !.fromCache = fromCache]]
  /\ UNCHANGED <<mem, live>>

(* Allocate(): counted, and served from the caller's cache if it can be. *)
AllocateFromCache(t, o) ==
  /\ \E b \in cached[t] :
       /\ b.bucket = o.index
       /\ cached' = [cached EXCEPT ![t] = @ \ {b}]
       /\ Found(t, o, b, TRUE)
  /\ globalStats' = [globalStats EXCEPT !.attempts = @ + 1]
  /\ UNCHANGED <<free, unused, header, bucketStats>>

AllocateFromPools(t, o) ==
  /\ \A b \in cached[t] : b.bucket # o.index
  /\ pc' = [pc EXCEPT ![t] = "buckets"]
  /\ op' = [op EXCEPT ![t] = o]
  /\ globalStats' = [globalStats EXCEPT !.attempts = @ + 1]
  /\ UNCHANGED <<places, mem, live, bucketStats>>

Allocate(t, o) == AllocateFromCache(t, o) \/ AllocateFromPools(t, o)

(* A new call. *)
Call(t) ==
  /\ pc[t] = "idle"
  /\ calls < MaxCalls
  /\ calls' = calls + 1

(* Mutant: the call is counted before the zero size is looked at. *)
AllocZeroCounted(t, a) ==
  /\ Call(t)
  /\ 0 \in Sizes
  /\ live' = With(Unreadable(a), Filled([NoOp EXCEPT !.align = a]))
  /\ globalStats' = [globalStats EXCEPT !.attempts = @ + 1]
  /\ UNCHANGED <<places, mem, pc, op, bucketStats>>

(* Alloc() of no bytes: the alignment as a pointer. *)
AllocZero(t, a) ==
  /\ Call(t)
  /\ 0 \in Sizes
  /\ live' = With(Unreadable(a), Filled([NoOp EXCEPT !.align = a]))
  /\ UNCHANGED <<places, mem, pc, op, stats>>

(* Alloc(), and Realloc() of a pointer that is not readable. *)
Alloc(t, bytes, a) ==
  /\ Call(t)
  /\ bytes > 0
  /\ Allocate(t, Request(t, Null, bytes, a))
-----------------------------------------------------------------------------
(* Mutant: any larger bucket will do. *)
NextBucketUnaligned(i, a) == i + 1

(* The next bucket whose blocks have the alignment.  It may lie beyond the  *)
(* last one; the sizes grow so that one of 256 steps is aligned to 4096.    *)
NextBucket(i, a) ==
  CHOOSE j \in (i + 1)..(i + 256) :
    /\ IsAligned(ElementSize(j), a)
    /\ \A k \in (i + 1)..(j - 1) : ~IsAligned(ElementSize(k), a)

(* Allocate(): buckets[bucketIndex].Alloc() has a block ... *)
BucketHit(t) ==
  /\ pc[t] = "buckets"
  /\ op[t].index < op[t].max
  /\ \E b \in free :
       /\ b.bucket = op[t].index
       /\ free' = free \ {b}
       /\ Found(t, op[t], b, FALSE)
  /\ UNCHANGED <<cached, unused, header, stats, calls>>

(* ... or has none, and the next one is tried. *)
BucketMiss(t) ==
  /\ pc[t] = "buckets"
  /\ op[t].index < op[t].max
  /\ \A b \in free : b.bucket # op[t].index
  /\ op' = [op EXCEPT ![t].index = NextBucket(@, op[t].align)]
  /\ bucketStats' = [bucketStats EXCEPT ![op[t].index].miss = @ + 1]
  /\ UNCHANGED <<places, mem, live, pc, globalStats, calls>>

(* GenericAllocator::Alloc() for o: a block of malloc's with its header, or *)
(* nullptr: malloc may fail whenever it is asked.                           *)
GenericAlloc(t, o) ==
  \/ \E g \in unused :
       /\ unused' = unused \ {g}
       /\ header' = [header EXCEPT ![g] =
            [size |-> o.bytes,
             user |-> GenericAddress(MallocAddress(g), o.align),
             end  |-> MallocAddress(g) + o.bytes + GenericOffset(o.align)]]
       /\ Deliver(t, o, g)
  \/ /\ Deliver(t, o, Null)
     /\ UNCHANGED <<unused, header>>

(* Allocate(): no bucket could serve the request; the reason is counted ... *)
Route(t) ==
  /\ pc[t] = "buckets"
  /\ op[t].index >= op[t].max
  /\ globalStats' = IF op[t].isValidBucket
                    THEN [globalStats EXCEPT !.saturation = @ + 1]
                    ELSE [globalStats EXCEPT !.bySize = @ + 1]
  /\ pc' = [pc EXCEPT ![t] = "routed"]
  /\ UNCHANGED <<places, mem, live, op, bucketStats, calls>>

(* ... then the request ... *)
CountRouted(t) ==
  /\ pc[t] = "routed"
  /\ globalStats' = [globalStats EXCEPT !.routed = @ + 1]
  /\ pc' = [pc EXCEPT ![t] = "generic"]
  /\ UNCHANGED <<places, mem, live, op, bucketStats, calls>>

(* ... which goes to malloc. *)
Fallback(t) ==
  /\ pc[t] = "generic"
  /\ GenericAlloc(t, op[t])
  /\ UNCHANGED <<free, cached, stats, calls>>

(* Allocate() has found a block: the request is counted as served ... *)
CountServed(t) ==
  /\ pc[t] = "served"
  /\ globalStats' = [globalStats EXCEPT !.served = @ + 1]
  /\ pc' = [pc EXCEPT ![t] = "hit"]
  /\ UNCHANGED <<places, mem, live, op, bucketStats, calls>>

(* Mutant: the hits of caches are not counted for their bucket. *)
CountHitOfPools(t) ==
  /\ pc[t] = "hit"
  /\ bucketStats' = IF op[t].fromCache THEN bucketStats
                    ELSE [bucketStats EXCEPT ![op[t].index].hit = @ + 1]
  /\ Deliver(t, op[t], op[t].new)
  /\ UNCHANGED <<places, globalStats, calls>>

(* ... and for the bucket, then the block is returned. *)
CountHit(t) ==
  /\ pc[t] = "hit"
  /\ bucketStats' = IF op[t].fromCache
                    THEN [bucketStats EXCEPT ![op[t].index].cacheHit = @ + 1]
                    ELSE [bucketStats EXCEPT ![op[t].index].hit = @ + 1]
  /\ Deliver(t, op[t], op[t].new)
  /\ UNCHANGED <<places, globalStats, calls>>
-----------------------------------------------------------------------------
(* Free() of a pointer that is not readable: nothing to do. *)
FreeUnreadable(t, p) ==
  /\ Call(t)
  /\ Held(p)
  /\ ~IsReadable(p)
  /\ live' = [q \in DOMAIN live \ {p} |-> live[q]]
  /\ UNCHANGED <<places, mem, pc, op, stats>>

(* Free() counts a block of a bucket before it releases it. *)
CountFree(p) ==
  bucketStats' = IF InPool(p) THEN [bucketStats EXCEPT ![p.bucket].free = @ + 1] ELSE bucketStats

(* Free() of a block, also by Realloc() to no bytes. *)
Free(t, p) ==
  /\ Call(t)
  /\ Held(p)
  /\ IsReadable(p)
  /\ pc' = [pc EXCEPT ![t] = "release"]
  /\ op' = [op EXCEPT ![t] = [NoOp EXCEPT !.old = p]]
  /\ CountFree(p)
  /\ UNCHANGED <<places, mem, live, globalStats>>

(* The block is no longer the program's, the call ends; if it is a          *)
(* Realloc() that moved, the program gets the new block.                    *)
Released(t) ==
  /\ live' = [q \in (DOMAIN live \ {op[t].old}) \union ({op[t].new} \ {Null}) |->
                IF q = op[t].new THEN Moved(op[t]) ELSE live[q]]
  /\ mem' = [mem EXCEPT ![op[t].old] = Garbage]
  /\ Idle(t)
  /\ UNCHANGED <<stats, calls>>

(* ReleaseToCache(): the block goes to the caller's cache; when that is     *)
(* full, some of what is in it goes back to the pool first.                 *)
ReleaseToCache(t) ==
  /\ pc[t] = "release"
  /\ InPool(op[t].old)
  /\ t \in Caching
  /\ LET same == {b \in cached[t] : b.bucket = op[t].old.bucket}
     IN  \E S \in SUBSET same :
           /\ S = {} <=> Cardinality(same) < CacheSize
           /\ free' = free \union S
           /\ cached' = [cached EXCEPT ![t] = (@ \ S) \union {op[t].old}]
  /\ Released(t)
  /\ UNCHANGED <<unused, header>>

(* FreeInterval(p, p) *)
ReleaseToPool(t) ==
  /\ pc[t] = "release"
  /\ InPool(op[t].old)
  /\ t \notin Caching
  /\ free' = free \union {op[t].old}
  /\ Released(t)
  /\ UNCHANGED <<cached, unused, header>>

(* GenericAllocator::Free() *)
ReleaseToMalloc(t) ==
  /\ pc[t] = "release"
  /\ ~InPool(op[t].old)
  /\ unused' = unused \union {op[t].old}
  /\ Released(t)
  /\ UNCHANGED <<free, cached, header>>
-----------------------------------------------------------------------------
(* Realloc(): the block is large enough. *)
Fits(p, bytes) == bytes <= ElementSize(p.bucket)

(* Realloc(): ... and is kept, whatever the alignment that is asked for. *)
ReallocReuse(t, p, bytes, a) ==
  /\ Call(t)
  /\ Held(p)
  /\ InPool(p)
  /\ bytes > 0
  /\ Fits(p, bytes)
  /\ live' = [live EXCEPT ![p].bytes = bytes, ![p].asked = a, ![p].len = Lesser(@, bytes)]
  /\ UNCHANGED <<places, mem, pc, op, stats>>

(* Realloc(): a larger block for one of a bucket, or a block from a bucket, *)
(* if there is one for the size, for a generic one.                         *)
ReallocMove(t, p, bytes, a) ==
  /\ Call(t)
  /\ Held(p)
  /\ IsReadable(p)
  /\ bytes > 0
  /\ IF InPool(p) THEN ~Fits(p, bytes) ELSE Bucket(bytes, a) < bucketsCount
  /\ Allocate(t, Request(t, p, bytes, a))

(* GenericAllocator::Realloc() *)
ReallocGeneric(t, p, bytes, a) ==
  /\ Call(t)
  /\ Held(p)
  /\ IsReadable(p)
  /\ ~InPool(p)
  /\ bytes > 0
  /\ Bucket(bytes, a) >= bucketsCount
  /\ GenericAlloc(t, [Request(t, p, bytes, a) EXCEPT !.grow = TRUE])
  /\ UNCHANGED <<free, cached, stats>>

(* Mutants: the old size is copied whatever the new one is; what is copied  *)
(* is short of the header.                                                  *)
CopyCountOld(o) == UsableSize(o.old)
CopyCountShort(o) ==
  IF InPool(o.old) THEN ElementSize(o.old.bucket)
  ELSE Lesser(header[o.old].size - HeaderSize, o.bytes)

(* The bytes that memmove() copies. *)
CopyCount(o) ==
  IF InPool(o.old) THEN ElementSize(o.old.bucket)
  ELSE Lesser(header[o.old].size, o.bytes)

(* Mutant: the old block is forgotten. *)
MoveNoFree(t) ==
  /\ pc[t] = "move"
  /\ mem' = [mem EXCEPT ![op[t].new] =
       [mem[op[t].old] EXCEPT !.len = Lesser(@, CopyCount(op[t]))]]
  /\ live' = [q \in (DOMAIN live \ {op[t].old}) \union {op[t].new} |->
                IF q = op[t].new THEN Moved(op[t]) ELSE live[q]]
  /\ Idle(t)
  /\ UNCHANGED <<places, stats, calls>>

(* Realloc(): the contents go to the new block, then the old one is freed:  *)
(* by Free() if it is of a bucket, by GenericAllocator::Free() if not.      *)
Move(t) ==
  /\ pc[t] = "move"
  /\ mem' = [mem EXCEPT ![op[t].new] =
       [mem[op[t].old] EXCEPT !.len = Lesser(@, CopyCount(op[t]))]]
  /\ pc' = [pc EXCEPT ![t] = "release"]
  /\ CountFree(op[t].old)
  /\ UNCHANGED <<places, live, op, globalStats, calls>>
-----------------------------------------------------------------------------
Step(t) ==
  \/ BucketHit(t)
  \/ BucketMiss(t)
  \/ CountServed(t)
  \/ CountHit(t)
  \/ Route(t)
  \/ CountRouted(t)
  \/ Fallback(t)
  \/ Move(t)
  \/ ReleaseToCache(t)
  \/ ReleaseToPool(t)
  \/ ReleaseToMalloc(t)

Start(t) ==
  \/ \E a \in Alignments : AllocZero(t, a)
  \/ \E bytes \in Sizes, a \in Alignments : Alloc(t, bytes, a)
  \/ \E p \in DOMAIN live : FreeUnreadable(t, p)
  \/ \E p \in DOMAIN live : Free(t, p)
  \/ \E p \in DOMAIN live, bytes \in Sizes, a \in Alignments : ReallocReuse(t, p, bytes, a)
  \/ \E p \in DOMAIN live, bytes \in Sizes, a \in Alignments : ReallocMove(t, p, bytes, a)
  \/ \E p \in DOMAIN live, bytes \in Sizes, a \in Alignments : ReallocGeneric(t, p, bytes, a)

(* A crash ends the process. *)
Crashed == \E t \in Threads : pc[t] = "crashed"

Next == ~Crashed /\ \E t \in Threads : Start(t) \/ Step(t)

Spec == Init /\ [][Next]_vars
-----------------------------------------------------------------------------
TypeOK ==
  /\ free \subseteq PoolBlocks
  /\ cached \in [Threads -> SUBSET PoolBlocks]
  /\ unused \subseteq GenericBlocks
  /\ DOMAIN live \subseteq PoolBlocks \union GenericBlocks \union {Unreadable(a) : a \in Alignments}
  /\ pc \in [Threads -> {"idle", "buckets", "served", "hit", "routed", "generic",
                         "move", "release", "crashed"}]
  /\ \A t \in Threads : op[t].max \in 0..bucketsCount
  /\ calls \in 0..MaxCalls

(* The new block of a call in progress is nobody else's yet. *)
InHands == {op[t].new : t \in Threads} \ {Null}
Readable == {p \in DOMAIN live : IsReadable(p)}

(* No block is lost or in two places, whatever Realloc() moves where and    *)
(* whichever of its steps fails: each is in a pool, in one cache, left with *)
(* malloc, the program's, or the new block of one call.                     *)
BlocksAccounted ==
  /\ PoolBlocks \union GenericBlocks =
       free \union unused \union Readable \union InHands \union UNION {cached[t] : t \in Threads}
  /\ (free \union unused) \intersect (Readable \union InHands) = {}
  /\ Readable \intersect InHands = {}
  /\ \A t \in Threads : cached[t] \intersect (free \union Readable \union InHands) = {}
  /\ \A t, u \in Threads : t # u =>
       /\ cached[t] \intersect cached[u] = {}
       /\ op[t].new = op[u].new => op[t].new = Null

(* Realloc() preserves contents, which no other call touches: a block the   *)
(* program has holds what the program wrote, up to the smallest size it has *)
(* had since.                                                               *)
ContentsKept ==
  \A p \in Readable : mem[p].data = live[p].data /\ mem[p].len >= live[p].len

(* The memmove() of Realloc() stays inside both blocks. *)
MovesFit ==
  \A t \in Threads : pc[t] = "move" =>
    CopyCount(op[t]) <= UsableSize(op[t].old) /\ CopyCount(op[t]) <= UsableSize(op[t].new)

(* Address of a block; buckets start at multiples of kMaxValidAlignment. *)
Address(p) == IF InPool(p) THEN p.n * ElementSize(p.bucket) ELSE header[p].user

(* _sm_msize() is enough for what was asked, and the block has the          *)
(* alignment that was asked of the Alloc() or Realloc() that placed it, not *)
(* of a Realloc() that kept it, also after overflow into a larger bucket;   *)
(* header and block fit into what malloc gave.                              *)
BlocksServe ==
  \A p \in Readable :
    /\ UsableSize(p) >= live[p].bytes
    /\ IsAligned(Address(p), live[p].align)
    /\ ~InPool(p) => /\ header[p].user - HeaderSize >= MallocAddress(p)
                     /\ header[p].user + header[p].size <= header[p].end

(* EXPECT_TRUE(IsAligned(p4, 64)) after _sm_realloc(heap, p4, .., 64) in    *)
(* smmalloc_test01.cpp: a block has the alignment that the program has      *)
(* asked for last, by malloc or by realloc.                                 *)
AlignedAsAsked == \A p \in Readable : IsAligned(Address(p), live[p].asked)

At(stages) == {t \in Threads : pc[t] \in stages}

(* The blocks whose hit is counted and whose free is not. *)
Counted ==
  (Readable \ {op[t].old : t \in At({"release"})})
    \union ({op[t].new : t \in At({"move", "release"})} \ {Null})

(* Nothing is counted twice or never, though each counter is added to on    *)
(* its own, between other threads' steps: the counters differ by no more    *)
(* than the calls that are between two additions.  Every attempt is served, *)
(* routed or under way; every routed one has one of the two reasons; a      *)
(* bucket's hits less its frees are the blocks the program has of it.       *)
StatsAddUp ==
  /\ globalStats.attempts = globalStats.served + globalStats.routed
                              + Cardinality(At({"buckets", "served", "routed"}))
  /\ globalStats.bySize + globalStats.saturation =
       globalStats.routed + Cardinality(At({"routed"}))
  /\ \A i \in Buckets :
       bucketStats[i].hit + bucketStats[i].cacheHit - bucketStats[i].free =
         Cardinality({p \in Counted : p.bucket = i})

(* What the buckets before bucket i have served, from caches and pools. *)
HitsBelow[i \in 0..bucketsCount] ==
  IF i = 0 THEN 0 ELSE HitsBelow[i - 1] + bucketStats[i - 1].hit + bucketStats[i - 1].cacheHit

(* The global counter of served requests is the sum over the buckets, from  *)
(* caches and from pools, whichever bucket a request overflowed into, but   *)
(* for the calls that have added to the one and not yet to the other.       *)
HitsAddUp ==
  globalStats.served = HitsBelow[bucketsCount] + Cardinality(At({"hit"}))

(* The comment in Realloc(): "On failure, returns a null pointer.  The      *)
(* original pointer ptr remains valid".                                     *)
FailureReturns == ~Crashed
=============================================================================
