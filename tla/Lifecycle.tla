------------------------------ MODULE Lifecycle ------------------------------
(***************************************************************************)
(* The C interface (smmalloc.h) and the lifetime of what lies behind it:   *)
(* _sm_allocator_create and _destroy, _sm_allocator_thread_cache_create    *)
(* and _destroy, _sm_malloc and _sm_free, for several allocators, threads  *)
(* and buckets.  The caches are thread_local and not the allocator's       *)
(* (smmalloc_tls.cpp): GetTlsBucket(i) is the same record whichever        *)
(* allocator asks for it.                                                  *)
(*                                                                         *)
(* A pool is assumed to keep the promise of BlockPool.tla, as the list     *)
(* does for single blocks but not for racing chains, and a cache is a set  *)
(* of blocks (its stacks are in ThreadCache.tla).  An action is one access *)
(* to a pool with the thread's own work around it; a request that misses   *)
(* in its bucket may be served by any that it tries next, since the bucket *)
(* may have blocks again by then.  What the program keeps to of its own    *)
(* accord and no check in the code enforces is in the operators May...     *)
(***************************************************************************)
EXTENDS Integers, Sequences, FiniteSets

CONSTANTS
  Threads,
  Allocators,      \* the allocators the program creates, each once
  bucketsCount,
  MaxBucketCount,  \* SMM_MAX_BUCKET_COUNT: the caches a thread has room for
  BucketUnits,     \* bucketSizeInBytes, in units of the smallest block
  MaxOverflow,     \* buckets that one request may try: 4 in the code
  Options,         \* the cache configurations: the size of the cache of each bucket
  GenericCount,    \* blocks malloc gives to requests that no bucket serves
  MaxHeld,         \* bound: blocks the program has at a time
  OneAllocator     \* whether a thread with caches keeps to the allocator they are of

ASSUME LifecycleConstants ==
  /\ {bucketsCount, MaxBucketCount, BucketUnits, MaxOverflow} \subseteq Nat \ {0}
  /\ bucketsCount <= MaxBucketCount
  /\ \A o \in Options : Len(o) \in 1..bucketsCount /\ \A k \in DOMAIN o : o[k] \in Nat \ {0, 1}
  /\ {GenericCount, MaxHeld} \subseteq Nat
  /\ OneAllocator \in BOOLEAN
  /\ "malloc" \notin Allocators /\ <<>> \notin Allocators

VARIABLES
  state,  \* per allocator: new, alive or destroyed
  heap,   \* the memory that allocators have of malloc for themselves
  free,   \* the blocks in the pools
  tls,    \* per thread, tlsCacheBuckets
  held,   \* the blocks the program has, each with the allocator it was asked of
  owner,  \* per thread, the allocator the program created its caches of, if any
  call    \* per thread, the call in progress

vars == <<state, heap, free, tls, held, owner, call>>
-----------------------------------------------------------------------------
(* A block is <<allocator, bucket, number>>.  Bucket i has blocks of i + 1  *)
(* units; those of malloc are in no allocator's buffer.                     *)
Buckets == 0..(bucketsCount - 1)
PoolBlocks(a) == UNION {{<<a, i, n>> : n \in 1..(BucketUnits \div (i + 1))} : i \in Buckets}
GenericBlocks == {<<"malloc", 0, n>> : n \in 1..GenericCount}

(* FindBucket(p) < bucketsCount; that addresses tell is shown in PoolLayout. *)
Mine(a, b) == b[1] = a

(* TlsPoolBucket: a thread_local record begins as zeroes.  stack is the     *)
(* memory of pStorageL1, pBucket the allocator and the bucket pointed to.   *)
None == <<>>
Zero == [pBucket |-> None, max |-> 0, stack |-> None, cached |-> {}]
NoCall == [op |-> "idle", a |-> None, options |-> <<>>, i |-> 0,
           num |-> 0, chain |-> {}, other |-> {}]

Init ==
  /\ state = [a \in Allocators |-> "new"]
  /\ heap = {}
  /\ free = {}
  /\ tls = [t \in Threads |-> [i \in 0..(MaxBucketCount - 1) |-> Zero]]
  /\ held = {}
  /\ owner = [t \in Threads |-> None]
  /\ call = [t \in Threads |-> NoCall]
-----------------------------------------------------------------------------
(* _sm_allocator_create(): memory for the Allocator, and in Init() for its  *)
(* buffer; every block of every bucket is free.                             *)
AllocatorCreate(a) ==
  /\ state[a] = "new"
  /\ state' = [state EXCEPT ![a] = "alive"]
  /\ heap' = heap \union {<<"allocator", a>>, <<"buffer", a>>}
  /\ free' = free \union PoolBlocks(a)
  /\ UNCHANGED <<tls, held, owner, call>>

(* The tests: all blocks freed, all caches of it destroyed, no call left. *)
MayDestroy(a) ==
  /\ \A h \in held : h[2] # a
  /\ \A t \in Threads : call[t].a # a /\ owner[t] # a

(* _sm_allocator_destroy(): the destructor frees the buffer, with it go the *)
(* blocks; then the memory of the Allocator.                                *)
AllocatorDestroy(a) ==
  /\ state[a] = "alive"
  /\ MayDestroy(a)
  /\ state' = [state EXCEPT ![a] = "destroyed"]
  /\ heap' = heap \ {<<"buffer", a>>, <<"allocator", a>>}
  /\ free' = free \ PoolBlocks(a)
  /\ UNCHANGED <<tls, held, owner, call>>
-----------------------------------------------------------------------------
(* A thread calls an allocator that is alive and, if OneAllocator, none     *)
(* other than the one its caches are of.                                    *)
MayCall(t, a) ==
  /\ call[t].op = "idle"
  /\ state[a] = "alive"
  /\ OneAllocator => owner[t] \in {None, a}

(* The buckets of a that a request for bucket i tries have this to offer. *)
Offered(a, i) ==
  {b \in free : Mine(a, b) /\ b[2] >= i /\ b[2] < i + MaxOverflow}

(* Allocate(): a block of the thread's cache ... *)
MallocCached(t, a, i, b) ==
  /\ MayCall(t, a)
  /\ Cardinality(held) < MaxHeld
  /\ b \in tls[t][i].cached
  /\ tls' = [tls EXCEPT ![t][i].cached = @ \ {b}]
  /\ held' = held \union {<<b, a>>}
  /\ UNCHANGED <<state, heap, free, owner, call>>

(* ... or of a pool ... *)
MallocPool(t, a, i, b) ==
  /\ MayCall(t, a)
  /\ Cardinality(held) < MaxHeld
  /\ tls[t][i].cached = {}
  /\ b \in Offered(a, i)
  /\ free' = free \ {b}
  /\ held' = held \union {<<b, a>>}
  /\ UNCHANGED <<state, heap, tls, owner, call>>

(* ... or of malloc. *)
MallocGeneric(t, a, i, b) ==
  /\ MayCall(t, a)
  /\ Cardinality(held) < MaxHeld
  /\ tls[t][i].cached = {}
  /\ \A h \in held : h[1] # b
  /\ held' = held \union {<<b, a>>}
  /\ UNCHANGED <<state, heap, free, tls, owner, call>>

(* ReleaseToCache(): what a cache gives back first, half of it when full. *)
Flushed(c) ==
  IF Cardinality(c.cached) < c.max
  THEN {{}}
  ELSE {S \in SUBSET c.cached : Cardinality(S) = Cardinality(c.cached) \div 2}

(* Allocator::Free() of a block of its buffer, b: to the cache of thread t, *)
(* or without one to the pool.                                              *)
ToCache(t, b) ==
  /\ tls[t][b[2]].max > 0
  /\ \E S \in Flushed(tls[t][b[2]]) :
       /\ tls' = [tls EXCEPT ![t][b[2]].cached = (@ \ S) \union {b}]
       /\ free' = free \union S

ToPool(t, b) ==
  /\ tls[t][b[2]].max = 0
  /\ free' = free \union {b}
  /\ UNCHANGED tls

(* _sm_free(): the program gives a block back to the allocator it asked.    *)
Free(t, a, b) ==
  /\ MayCall(t, a)
  /\ <<b, a>> \in held
  /\ Mine(a, b)
  /\ ToCache(t, b) \/ ToPool(t, b)
  /\ held' = held \ {<<b, a>>}
  /\ UNCHANGED <<state, heap, owner, call>>

FreeGeneric(t, a, b) ==
  /\ MayCall(t, a)
  /\ <<b, a>> \in held
  /\ ~Mine(a, b)
  /\ held' = held \ {<<b, a>>}
  /\ UNCHANGED <<state, heap, free, tls, owner, call>>
-----------------------------------------------------------------------------
(* _sm_allocator_thread_cache_create(), by a thread that has none. *)
CacheCreate(t, a, options) ==
  /\ MayCall(t, a)
  /\ owner[t] = None
  /\ owner' = [owner EXCEPT ![t] = a]
  /\ call' = [call EXCEPT ![t] = [NoCall EXCEPT !.op = "create", !.a = a, !.options = options]]
  /\ UNCHANGED <<state, heap, free, tls, held>>

(* CreateThreadCache(): one bucket more, or the end of the options. *)
CacheNext(t) ==
  LET c == call[t]
  IN  call' = [call EXCEPT ![t] =
        IF c.i + 1 < Len(c.options)
        THEN [NoCall EXCEPT !.op = "create", !.a = c.a, !.options = c.options, !.i = c.i + 1]
        ELSE NoCall]

(* The elements to warm up with: none, half or all of the cache. *)
WarmupCounts(max) == {0, max \div 2, max}

(* CreateThreadCache(): the stack, and Init() with its record. *)
CacheInit(t) ==
  LET c == call[t]
      max == c.options[c.i + 1]
      stack == <<"stack", c.a, t, c.i>>
  IN  /\ c.op = "create"
      /\ heap' = heap \union {stack}
      /\ tls' = [tls EXCEPT ![t][c.i] =
                   [pBucket |-> <<c.a, c.i>>, max |-> max, stack |-> stack, cached |-> {}]]
      /\ \E n \in WarmupCounts(max) :
           call' = [call EXCEPT ![t].op = "warmup", ![t].num = n]
      /\ UNCHANGED <<state, free, held, owner>>

(* Mutant: a block of any bucket will do. *)
FromAnyBucket(c, b) == TRUE

(* Init(): the block is of the bucket that the cache is for. *)
FromBucket(c, b) == b[2] = c.i

(* Init(): Allocate<false>() serves from the bucket, or from another one. *)
WarmupAlloc(t, b) ==
  LET c == call[t]
  IN  /\ c.op = "warmup"
      /\ Cardinality(c.chain) < c.num
      /\ b \in Offered(c.a, c.i)
      /\ free' = free \ {b}
      /\ call' = [call EXCEPT ![t] = IF FromBucket(c, b)
                                     THEN [c EXCEPT !.chain = @ \union {b}]
                                     ELSE [c EXCEPT !.op = "other", !.other = {b}]]
      /\ UNCHANGED <<state, heap, tls, held, owner>>

(* Init(): Allocate<false>() came to malloc; its block, if it had one, is   *)
(* given back, and the loop ends.                                           *)
WarmupMiss(t) ==
  /\ call[t].op = "warmup"
  /\ Cardinality(call[t].chain) < call[t].num
  /\ call' = [call EXCEPT ![t].op = "chained"]
  /\ UNCHANGED <<state, heap, free, tls, held, owner>>

(* Mutant: the block of another bucket is dropped. *)
WarmupGiveBackDropped(t, b) ==
  /\ call[t].op = "other"
  /\ b \in call[t].other
  /\ call' = [call EXCEPT ![t].op = "chained", ![t].other = {}]
  /\ UNCHANGED <<state, heap, free, tls, held, owner>>

(* Init(): a block of another bucket is given back, and the loop ends.  It  *)
(* is of a larger bucket, whose cache is created after this one: Free()     *)
(* finds none (RecordsZeroed).                                              *)
WarmupGiveBack(t, b) ==
  /\ call[t].op = "other"
  /\ b \in call[t].other
  /\ ToPool(t, b)
  /\ call' = [call EXCEPT ![t].op = "chained", ![t].other = {}]
  /\ UNCHANGED <<state, heap, held, owner>>

(* Init(): the blocks go to the cache. *)
WarmupEnd(t) ==
  LET c == call[t]
  IN  /\ c.op = "chained" \/ (c.op = "warmup" /\ Cardinality(c.chain) = c.num)
      /\ tls' = [tls EXCEPT ![t][c.i].cached = c.chain]
      /\ CacheNext(t)
      /\ UNCHANGED <<state, heap, free, held, owner>>
-----------------------------------------------------------------------------
(* _sm_allocator_thread_cache_destroy() *)
CacheDestroy(t, a) ==
  /\ MayCall(t, a)
  /\ owner[t] # None
  /\ owner' = [owner EXCEPT ![t] = None]
  /\ call' = [call EXCEPT ![t] = [NoCall EXCEPT !.op = "destroy", !.a = a]]
  /\ UNCHANGED <<state, heap, free, tls, held>>

(* Mutant: the counts are not reset. *)
ClearedKeepsCount(c) == [Zero EXCEPT !.cached = c.cached]

(* Destroy(): what it leaves of the record ... *)
Cleared(c) == Zero

(* Mutant: the pointer is returned after it is reset. *)
ReturnedReset(c) == Cleared(c).stack

(* ... and the stack it returns, to be freed. *)
ReturnedStack(c) == c.stack

(* Mutant: the last record is not reached. *)
MoreRecordsOneEarly(i) == i + 2 < MaxBucketCount

(* DestroyThreadCache() goes through all the records there are. *)
MoreRecords(i) == i + 1 < MaxBucketCount

(* DestroyThreadCache(): the next record, in use or not.  Destroy() returns *)
(* what is cached to pBucket and clears the record, then the stack is freed. *)
BucketDestroy(t) ==
  LET i == call[t].i
      c == tls[t][i]
  IN  /\ call[t].op = "destroy"
      /\ free' = free \union c.cached
      /\ heap' = heap \ {ReturnedStack(c)}
      /\ tls' = [tls EXCEPT ![t][i] = Cleared(c)]
      /\ call' = [call EXCEPT ![t] = IF MoreRecords(i) THEN [@ EXCEPT !.i = i + 1] ELSE NoCall]
      /\ UNCHANGED <<state, held, owner>>
-----------------------------------------------------------------------------
Blocks == UNION {PoolBlocks(a) : a \in Allocators}

Use(t, a) ==
  \/ \E i \in Buckets, b \in Blocks : MallocCached(t, a, i, b)
  \/ \E i \in Buckets, b \in Blocks : MallocPool(t, a, i, b)
  \/ \E i \in Buckets, b \in GenericBlocks : MallocGeneric(t, a, i, b)
  \/ \E b \in Blocks : Free(t, a, b)
  \/ \E b \in Blocks \union GenericBlocks : FreeGeneric(t, a, b)
  \/ \E o \in Options : CacheCreate(t, a, o)
  \/ CacheDestroy(t, a)

Step(t) ==
  \/ CacheInit(t)
  \/ \E b \in Blocks : WarmupAlloc(t, b)
  \/ WarmupMiss(t)
  \/ \E b \in Blocks : WarmupGiveBack(t, b)
  \/ WarmupEnd(t)
  \/ BucketDestroy(t)

Next ==
  \/ \E a \in Allocators : AllocatorCreate(a) \/ AllocatorDestroy(a)
  \/ \E t \in Threads : Step(t) \/ \E a \in Allocators : Use(t, a)

Spec == Init /\ [][Next]_vars
-----------------------------------------------------------------------------
(* The assertions that Init() begins with, "assume thread_local variable    *)
(* always initialized with zeroes": also for the second cache of a thread,  *)
(* after one of another allocator with other buckets.  And a warm-up that   *)
(* gives a block back finds no cache for it yet.                            *)
RecordsZeroed ==
  \A t \in Threads :
    /\ call[t].op = "create" =>
         \A i \in call[t].i..(MaxBucketCount - 1) : tls[t][i] = Zero
    /\ \A b \in call[t].other : tls[t][b[2]] = Zero

(* The assertion in ReleaseToCache(), "p >= _self->pBucketData && p <       *)
(* _self->pBucket->pBufferEnd": a block lies in the bucket that its cache   *)
(* points to, so that its offset leads back to it.                          *)
CachedWhereFound ==
  \A t \in Threads : \A i \in 0..(MaxBucketCount - 1) : \A b \in tls[t][i].cached :
    tls[t][i].pBucket = <<b[1], b[2]>>

(* _sm_malloc() of an allocator returns no block of another one's buffer,   *)
(* which _sm_free() would take for a block of malloc.                       *)
FromAllocatorAsked == \A h \in held : h[1][1] \in {h[2], "malloc"}

(* No thread can reach a pool or a stack that is no longer there: what the  *)
(* caches point to lives as long as they do.                                *)
NothingDangles ==
  \A t \in Threads : \A i \in 0..(MaxBucketCount - 1) :
    tls[t][i].pBucket # None =>
      /\ state[tls[t][i].pBucket[1]] = "alive"
      /\ tls[t][i].stack \in heap

(* When the program has destroyed its allocators nothing of theirs is left  *)
(* in malloc's hands: no buffer, and no stack of any cache.                 *)
NothingLeaks == (\A a \in Allocators : state[a] # "alive") => heap = {}

(* Once nobody has blocks, caches or calls of an allocator, every block of  *)
(* each of its buckets is in its pool again.                                *)
BlocksReturn ==
  \A a \in Allocators : state[a] = "alive" /\ MayDestroy(a) => PoolBlocks(a) \subseteq free
=============================================================================
