--------------------------- MODULE LifecycleProofs ---------------------------
(***************************************************************************)
(* Allocators, threads and caches come and go in any number and order: as  *)
(* long as a thread with caches keeps to the allocator they are of, no     *)
(* cache mixes buckets or outlives its allocator, nothing leaks, and every *)
(* block finds its way back.  Pools keep the promise of BlockPool.tla, as  *)
(* Lifecycle.tla assumes.                                                  *)
(***************************************************************************)
EXTENDS Lifecycle, TLAPS

Records == 0..(MaxBucketCount - 1)

(* The allocator that thread t's records are of: the one it created them of, *)
(* until DestroyThreadCache() has gone through them all.                     *)
Owner(t) == IF owner[t] # None THEN owner[t] ELSE call[t].a

Stack(a, t, i) == <<"stack", a, t, i>>

(* A record in use: all of it is about bucket i of allocator a. *)
IsCache(a, t, i, r) ==
  /\ r.pBucket = <<a, i>>
  /\ r.max \in Nat \ {0}
  /\ r.stack = Stack(a, t, i)
  /\ \A b \in r.cached : b \in PoolBlocks(a) /\ b[2] = i

Warming == {"warmup", "other", "chained"}
Creating == {"create"} \union Warming

RecordType ==
  [pBucket : {None} \union (Allocators \X Records),
   max : Nat,
   stack : {None} \union {Stack(a, t, i) : a \in Allocators, t \in Threads, i \in Records},
   cached : SUBSET Blocks]

CallType ==
  [op : {"idle", "destroy"} \union Creating,
   a : Allocators \union {None},
   options : Options \union {<<>>},
   i : Records,
   num : Nat,
   chain : SUBSET Blocks,
   other : SUBSET Blocks]

LifecycleTyped ==
  /\ state \in [Allocators -> {"new", "alive", "destroyed"}]
  /\ owner \in [Threads -> Allocators \union {None}]
  /\ tls \in [Threads -> [Records -> RecordType]]
  /\ call \in [Threads -> CallType]

(* What a call in progress has, and which allocator it is for. *)
CallOK(t) ==
  /\ owner[t] # None => call[t].op # "destroy" /\ (call[t].op # "idle" => call[t].a = owner[t])
  /\ owner[t] = None => call[t].op \in {"idle", "destroy"}
  /\ call[t].op = "idle" <=> call[t].a = None
  /\ call[t].op \in Creating => call[t].options \in Options /\ call[t].i < Len(call[t].options)
  /\ call[t].op # "other" => call[t].other = {}
  /\ call[t].op \notin Warming => call[t].chain = {}
  /\ \A b \in call[t].chain : b \in PoolBlocks(call[t].a) /\ b[2] = call[t].i
  /\ call[t].op = "other" =>
       \E b \in PoolBlocks(call[t].a) : b[2] > call[t].i /\ call[t].other = {b}

(* The records of a thread, and how far a call has got with them. *)
RecordsOK(t) ==
  /\ \A i \in Records :
       tls[t][i] = Zero \/ (Owner(t) # None /\ IsCache(Owner(t), t, i, tls[t][i]))
  /\ call[t].op = "create" => \A i \in Records : i >= call[t].i => tls[t][i] = Zero
  /\ call[t].op \in Warming =>
       /\ \A i \in Records : i > call[t].i => tls[t][i] = Zero
       /\ IsCache(call[t].a, t, call[t].i, tls[t][call[t].i])
       /\ tls[t][call[t].i].cached = {}
  /\ call[t].op = "destroy" => \A i \in Records : i < call[t].i => tls[t][i] = Zero

OwnersAlive == \A t \in Threads : Owner(t) # None => state[Owner(t)] = "alive"

(* The memory of malloc: of allocators that are alive, and of records in use. *)
HeapOK ==
  /\ \A t \in Threads, i \in Records : tls[t][i] # Zero => tls[t][i].stack \in heap
  /\ \A x \in heap :
       \/ \E a \in Allocators : state[a] = "alive" /\ x \in {<<"allocator", a>>, <<"buffer", a>>}
       \/ \E t \in Threads, i \in Records : tls[t][i] # Zero /\ x = tls[t][i].stack

HeldOK ==
  \A h \in held :
    /\ h = <<h[1], h[2]>>
    /\ h[2] \in Allocators
    /\ h[1] \in PoolBlocks(h[2]) \union GenericBlocks

(* Where a block can be. *)
Somewhere(b) ==
  \/ b \in free
  \/ \E h \in held : h[1] = b
  \/ \E t \in Threads : b \in call[t].chain \/ b \in call[t].other
  \/ \E t \in Threads, i \in Records : b \in tls[t][i].cached

NoneLost ==
  \A a \in Allocators : state[a] = "alive" => \A b \in PoolBlocks(a) : Somewhere(b)

LifecycleInv ==
  /\ LifecycleTyped
  /\ \A t \in Threads : CallOK(t) /\ RecordsOK(t)
  /\ OwnersAlive
  /\ HeapOK
  /\ HeldOK
  /\ NoneLost
-----------------------------------------------------------------------------
(* Blocks tell whose they are. *)
LEMMA BlockShape ==
  ASSUME NEW a, NEW b \in PoolBlocks(a)
  PROVE  b[1] = a /\ b[2] \in Buckets /\ b[2] \in Records
<1>1. PICK i \in Buckets : \E n \in 1..(BucketUnits \div (i + 1)) : b = <<a, i, n>>
  BY DEF PoolBlocks
<1>2. b[1] = a /\ b[2] = i
  BY <1>1
<1>3. Buckets \subseteq Records
  BY LifecycleConstants DEF Buckets, Records
<1>4. QED
  BY <1>2, <1>3

LEMMA BlockOwner ==
  ASSUME NEW b \in Blocks
  PROVE  b[1] \in Allocators /\ b \in PoolBlocks(b[1])
<1>1. PICK a \in Allocators : b \in PoolBlocks(a)
  BY DEF Blocks
<1>2. QED
  BY <1>1, BlockShape

LEMMA PoolBlocksAreBlocks == \A a \in Allocators : PoolBlocks(a) \subseteq Blocks
BY DEF Blocks

LEMMA GenericShape == \A g \in GenericBlocks : g[1] = "malloc"
BY DEF GenericBlocks

(* The names of things in the heap and in records. *)
LEMMA Names ==
  /\ None \notin Allocators
  /\ \A a, i : <<a, i>> # None
  /\ \A a, t, i, x : Stack(a, t, i) # <<"allocator", x>> /\ Stack(a, t, i) # <<"buffer", x>>
  /\ \A a, t, i : Stack(a, t, i) # None
  /\ \A a, t, i, b, u, j : Stack(a, t, i) = Stack(b, u, j) => t = u /\ i = j
<1>1. None \notin Allocators
  BY LifecycleConstants DEF None
<1>2. \A a, i : <<a, i>> # None
  BY DEF None
<1>3. \A a, t, i, x : Stack(a, t, i)[1] = "stack" /\ <<"allocator", x>>[1] = "allocator" /\ <<"buffer", x>>[1] = "buffer"
  BY DEF Stack
<1>4. \A a, t, i : Stack(a, t, i) # None
  BY DEF Stack, None
<1>5. \A a, t, i, b, u, j : Stack(a, t, i) = Stack(b, u, j) => t = u /\ i = j
  BY DEF Stack
<1>6. QED
  BY <1>1, <1>2, <1>3, <1>4, <1>5

(* Options are no longer than the buckets there are. *)
LEMMA OptionsFit ==
  ASSUME NEW o \in Options
  PROVE  /\ Len(o) \in 1..bucketsCount /\ 0 \in Records
         /\ \A i \in Records : i < Len(o) => o[i + 1] \in Nat \ {0, 1}
         /\ \A i \in Records : i + 1 < Len(o) => i + 1 \in Records
<1>1. /\ Len(o) \in 1..bucketsCount /\ \A k \in DOMAIN o : o[k] \in Nat \ {0, 1}
      /\ bucketsCount \in Nat /\ MaxBucketCount \in Nat /\ bucketsCount <= MaxBucketCount
  BY LifecycleConstants
<1>2. QED
  BY <1>1 DEF Records

LEMMA ZeroTyped == Zero \in RecordType /\ NoCall \in CallType /\ 0 \in Records
<1>1. 0 \in Records
  BY LifecycleConstants DEF Records
<1>2. QED
  BY <1>1 DEF Zero, NoCall, RecordType, CallType, None

LEMMA LifecycleInit == Init => LifecycleInv
<1> SUFFICES ASSUME Init PROVE LifecycleInv
  OBVIOUS
<1>1. /\ state = [a \in Allocators |-> "new"] /\ heap = {} /\ held = {}
      /\ tls = [t \in Threads |-> [i \in Records |-> Zero]]
      /\ owner = [t \in Threads |-> None] /\ call = [t \in Threads |-> NoCall]
  BY DEF Init, Records
<1>2. LifecycleTyped
  BY <1>1, ZeroTyped DEF LifecycleTyped
<1>3. \A t \in Threads : CallOK(t) /\ RecordsOK(t) /\ Owner(t) = None
  BY <1>1 DEF CallOK, RecordsOK, Owner, NoCall, Warming, Creating
<1>4. HeapOK /\ HeldOK /\ NoneLost
  BY <1>1 DEF HeapOK, HeldOK, NoneLost
<1>5. QED
  BY <1>2, <1>3, <1>4 DEF LifecycleInv, OwnersAlive
-----------------------------------------------------------------------------
(* A step of thread t leaves the records and calls of the others alone: what *)
(* there is to show is about t, the heap, and where the blocks are.          *)
LEMMA ThreadMoves ==
  ASSUME LifecycleInv, NEW t \in Threads, state' = state,
         tls' = [tls EXCEPT ![t] = tls'[t]], tls'[t] \in [Records -> RecordType],
         call' = [call EXCEPT ![t] = call'[t]], call'[t] \in CallType,
         owner' = [owner EXCEPT ![t] = owner'[t]], owner'[t] \in Allocators \union {None},
         CallOK(t)', RecordsOK(t)', Owner(t)' # None => state[Owner(t)'] = "alive",
         HeapOK', HeldOK', NoneLost'
  PROVE  LifecycleInv'
<1>1. LifecycleTyped'
  BY DEF LifecycleInv, LifecycleTyped
<1>2. ASSUME NEW u \in Threads, u # t
      PROVE  tls'[u] = tls[u] /\ call'[u] = call[u] /\ owner'[u] = owner[u]
  BY <1>2 DEF LifecycleInv, LifecycleTyped
<1>3. ASSUME NEW u \in Threads, u # t
      PROVE  CallOK(u)' /\ RecordsOK(u)' /\ Owner(u)' = Owner(u)
  <2>1. CallOK(u) /\ RecordsOK(u)
    BY DEF LifecycleInv
  <2>2. Owner(u)' = Owner(u)
    BY <1>2, <1>3 DEF Owner
  <2>3. CallOK(u)'
    BY <1>2, <1>3, <2>1 DEF CallOK
  <2>4. RecordsOK(u)'
    BY <1>2, <1>3, <2>1, <2>2 DEF RecordsOK
  <2>5. QED
    BY <2>2, <2>3, <2>4
<1>4. OwnersAlive'
  BY <1>3 DEF LifecycleInv, OwnersAlive
<1>5. QED
  BY <1>1, <1>3, <1>4 DEF LifecycleInv

(* A thread outside a call: its records are of the allocator it may call. *)
LEMMA CallerOwns ==
  ASSUME LifecycleInv, OneAllocator, NEW t \in Threads, NEW a \in Allocators, MayCall(t, a)
  PROVE  /\ call[t].op = "idle" /\ call[t].a = None /\ Owner(t) = owner[t]
         /\ owner[t] \in {None, a} /\ state[a] = "alive"
         /\ call[t].chain = {} /\ call[t].other = {}
         /\ \A i \in Records : tls[t][i] # Zero => owner[t] = a /\ IsCache(a, t, i, tls[t][i])
<1>1. /\ call[t].op = "idle" /\ owner[t] \in {None, a} /\ state[a] = "alive"
      /\ CallOK(t) /\ RecordsOK(t)
  BY DEF MayCall, LifecycleInv
<1>2. call[t].a = None /\ Owner(t) = owner[t] /\ call[t].chain = {} /\ call[t].other = {}
  BY <1>1 DEF CallOK, Owner, Warming
<1>3. QED
  BY <1>1, <1>2 DEF RecordsOK

(* Record i of thread t has S cached from now on. *)
Refill(t, i, S) == tls' = [tls EXCEPT ![t][i].cached = S]

(* A record in use that caches other blocks of its bucket. *)
LEMMA RecordRefilled ==
  ASSUME LifecycleInv, NEW t \in Threads, NEW i \in Records, NEW a \in Allocators,
         IsCache(a, t, i, tls[t][i]),
         NEW S, \A b \in S : b \in PoolBlocks(a) /\ b[2] = i,
         Refill(t, i, S), heap' = heap, state' = state
  PROVE  /\ tls' = [tls EXCEPT ![t] = tls'[t]] /\ tls'[t] \in [Records -> RecordType]
         /\ \A j \in Records : j # i => tls'[t][j] = tls[t][j]
         /\ IsCache(a, t, i, tls'[t][i]) /\ tls'[t][i].cached = S
         /\ HeapOK'
<1> DEFINE r == [tls[t][i] EXCEPT !.cached = S]
<1>1. /\ tls \in [Threads -> [Records -> RecordType]] /\ tls[t] \in [Records -> RecordType]
      /\ tls[t][i] \in RecordType
  BY DEF LifecycleInv, LifecycleTyped
<1>2. tls' = [tls EXCEPT ![t] = [tls[t] EXCEPT ![i] = r]]
  BY <1>1 DEF Refill
<1>3. tls'[t] = [tls[t] EXCEPT ![i] = r]
  BY <1>1, <1>2
<1>4. S \in SUBSET Blocks
  BY PoolBlocksAreBlocks
<1>5. r \in RecordType
  BY <1>1, <1>4 DEF RecordType
<1>6. r.pBucket = tls[t][i].pBucket /\ r.max = tls[t][i].max /\ r.stack = tls[t][i].stack /\ r.cached = S
  BY <1>1 DEF RecordType
<1>7. tls'[t][i] = r /\ \A j \in Records : j # i => tls'[t][j] = tls[t][j]
  BY <1>1, <1>3
<1>8. r # Zero /\ tls[t][i] # Zero
  BY <1>6, Names DEF IsCache, Zero
<1>9. \A u \in Threads, j \in Records :
        /\ tls'[u][j] = Zero <=> tls[u][j] = Zero
        /\ tls'[u][j].stack = tls[u][j].stack
  BY <1>1, <1>2, <1>6, <1>7, <1>8
<1>10. HeapOK'
  BY <1>9 DEF LifecycleInv, HeapOK
<1>11. IsCache(a, t, i, r)
  BY <1>6 DEF IsCache
<1>12. QED
  BY <1>1, <1>2, <1>3, <1>5, <1>6, <1>7, <1>10, <1>11
-----------------------------------------------------------------------------
(* No allocator comes or goes, and blocks only change places. *)
LEMMA StillSomewhere ==
  ASSUME LifecycleInv, state' = state, \A b \in Blocks : Somewhere(b) => Somewhere(b)'
  PROVE  NoneLost'
BY PoolBlocksAreBlocks DEF LifecycleInv, NoneLost

(* Steps that change nothing but the pools and the blocks the program has. *)
LEMMA BlocksMove ==
  ASSUME LifecycleInv, UNCHANGED <<state, heap, tls, owner, call>>, HeldOK', NoneLost'
  PROVE  LifecycleInv'
<1>1. state' = state /\ heap' = heap /\ tls' = tls /\ owner' = owner /\ call' = call
  OBVIOUS
<1>2. LifecycleTyped' /\ HeapOK'
  BY <1>1 DEF LifecycleInv, LifecycleTyped, HeapOK
<1>3. \A t \in Threads : Owner(t)' = Owner(t)
  BY <1>1 DEF Owner
<1>4. OwnersAlive'
  BY <1>1, <1>3 DEF LifecycleInv, OwnersAlive
<1>5. ASSUME NEW t \in Threads PROVE CallOK(t)' /\ RecordsOK(t)'
  BY <1>1, <1>3 DEF LifecycleInv, CallOK, RecordsOK
<1>6. QED
  BY <1>2, <1>4, <1>5 DEF LifecycleInv

(* A thread outside a call takes blocks from its cache or adds some. *)
LEMMA CacheMoves ==
  ASSUME LifecycleInv, OneAllocator, NEW t \in Threads, NEW a \in Allocators, MayCall(t, a),
         NEW i \in Records, tls[t][i] # Zero,
         NEW S, \A b \in S : b \in PoolBlocks(a) /\ b[2] = i,
         Refill(t, i, S),
         UNCHANGED <<state, heap, owner, call>>, HeldOK', NoneLost'
  PROVE  LifecycleInv'
<1>1. /\ call[t].op = "idle" /\ Owner(t) = owner[t] /\ owner[t] = a
      /\ IsCache(a, t, i, tls[t][i])
  BY CallerOwns
<1>2. state' = state /\ heap' = heap /\ owner' = owner /\ call' = call
  OBVIOUS
<1>3. /\ tls' = [tls EXCEPT ![t] = tls'[t]] /\ tls'[t] \in [Records -> RecordType]
      /\ \A j \in Records : j # i => tls'[t][j] = tls[t][j]
      /\ IsCache(a, t, i, tls'[t][i]) /\ HeapOK'
  BY <1>1, <1>2, RecordRefilled
<1>4. CallOK(t) /\ RecordsOK(t) /\ owner \in [Threads -> Allocators \union {None}]
      /\ call \in [Threads -> CallType] /\ OwnersAlive
  BY DEF LifecycleInv, LifecycleTyped
<1>5. CallOK(t)'
  BY <1>2, <1>4 DEF CallOK
<1>6. Owner(t)' = a /\ a # None
  BY <1>1, <1>2, Names DEF Owner
<1>7. RecordsOK(t)'
  BY <1>1, <1>2, <1>3, <1>4, <1>6 DEF RecordsOK, Warming
<1>8. state[Owner(t)'] = "alive"
  BY <1>1, <1>4, <1>6 DEF OwnersAlive
<1>9. QED
  BY <1>2, <1>3, <1>4, <1>5, <1>7, <1>8, ThreadMoves

LEMMA MallocCachedKeeps ==
  ASSUME LifecycleInv, OneAllocator, NEW t \in Threads, NEW a \in Allocators,
         NEW i \in Buckets, NEW b \in Blocks, MallocCached(t, a, i, b)
  PROVE  LifecycleInv'
<1>1. /\ MayCall(t, a) /\ b \in tls[t][i].cached /\ held' = held \union {<<b, a>>}
      /\ Refill(t, i, tls[t][i].cached \ {b})
      /\ UNCHANGED <<state, heap, free, owner, call>>
  BY DEF MallocCached, Refill
<1>2. i \in Records
  BY LifecycleConstants DEF Buckets, Records
<1>3. tls[t][i] # Zero
  BY <1>1 DEF Zero
<1>4. IsCache(a, t, i, tls[t][i]) /\ b \in PoolBlocks(a)
  BY <1>1, <1>2, <1>3, CallerOwns DEF IsCache
<1>5. HeldOK'
  BY <1>1, <1>4 DEF LifecycleInv, HeldOK
<1>6. tls'[t][i].cached = tls[t][i].cached \ {b} /\ \A u \in Threads, j \in Records :
        (u # t \/ j # i) => tls'[u][j] = tls[u][j]
  BY <1>1, <1>2 DEF LifecycleInv, LifecycleTyped, RecordType, Refill
<1>7. \A x \in Blocks : Somewhere(x) => Somewhere(x)'
  <2> SUFFICES ASSUME NEW x \in Blocks, Somewhere(x) PROVE Somewhere(x)'
    OBVIOUS
  <2>1. CASE x = b
    <3>1. <<b, a>> \in held' /\ <<b, a>>[1] = x
      BY <1>1, <2>1
    <3>2. QED
      BY <3>1 DEF Somewhere
  <2>2. CASE x # b
    BY <1>1, <1>6, <2>2 DEF Somewhere
  <2>3. QED
    BY <2>1, <2>2
<1>8. NoneLost'
  BY <1>1, <1>7, StillSomewhere
<1>9. \A x \in tls[t][i].cached \ {b} : x \in PoolBlocks(a) /\ x[2] = i
  BY <1>4 DEF IsCache
<1>10. QED
  BY <1>1, <1>2, <1>3, <1>5, <1>8, <1>9, CacheMoves

LEMMA MallocPoolKeeps ==
  ASSUME LifecycleInv, NEW t \in Threads, NEW a \in Allocators,
         NEW i \in Buckets, NEW b \in Blocks, MallocPool(t, a, i, b)
  PROVE  LifecycleInv'
<1>1. /\ b \in free /\ b[1] = a /\ free' = free \ {b} /\ held' = held \union {<<b, a>>}
      /\ UNCHANGED <<state, heap, tls, owner, call>>
  BY DEF MallocPool, Offered, Mine
<1>2. HeldOK'
  BY <1>1, BlockOwner DEF LifecycleInv, HeldOK
<1>3. <<b, a>> \in held' /\ <<b, a>>[1] = b
  BY <1>1
<1>4. \A x \in Blocks : Somewhere(x) => Somewhere(x)'
  BY <1>1, <1>3 DEF Somewhere
<1>5. QED
  BY <1>1, <1>2, <1>4, StillSomewhere, BlocksMove

LEMMA MallocGenericKeeps ==
  ASSUME LifecycleInv, NEW t \in Threads, NEW a \in Allocators,
         NEW i \in Buckets, NEW b \in GenericBlocks, MallocGeneric(t, a, i, b)
  PROVE  LifecycleInv'
<1>1. held' = held \union {<<b, a>>} /\ UNCHANGED <<state, heap, free, tls, owner, call>>
  BY DEF MallocGeneric
<1>2. HeldOK'
  BY <1>1 DEF LifecycleInv, HeldOK
<1>3. \A x \in Blocks : Somewhere(x) => Somewhere(x)'
  BY <1>1 DEF Somewhere
<1>4. QED
  BY <1>1, <1>2, <1>3, StillSomewhere, BlocksMove

(* What is not of the buffer is of malloc, and of no pool. *)
LEMMA FreeGenericKeeps ==
  ASSUME LifecycleInv, NEW t \in Threads, NEW a \in Allocators,
         NEW b \in Blocks \union GenericBlocks, FreeGeneric(t, a, b)
  PROVE  LifecycleInv'
<1>1. /\ <<b, a>> \in held /\ b[1] # a /\ held' = held \ {<<b, a>>}
      /\ UNCHANGED <<state, heap, free, tls, owner, call>>
  BY DEF FreeGeneric, Mine
<1>2. b \in PoolBlocks(a) \union GenericBlocks
  BY <1>1 DEF LifecycleInv, HeldOK
<1>3. b[1] = "malloc"
  BY <1>1, <1>2, BlockShape, GenericShape
<1>4. b \notin Blocks
  BY <1>3, BlockOwner, LifecycleConstants
<1>5. HeldOK'
  BY <1>1 DEF LifecycleInv, HeldOK
<1>6. \A x \in Blocks : Somewhere(x) => Somewhere(x)'
  BY <1>1, <1>4 DEF Somewhere
<1>7. QED
  BY <1>1, <1>5, <1>6, StillSomewhere, BlocksMove

(* _sm_free() to a cache: what it flushes and the block are of its bucket. *)
LEMMA FreeKeeps ==
  ASSUME LifecycleInv, OneAllocator, NEW t \in Threads, NEW a \in Allocators,
         NEW b \in Blocks, Free(t, a, b)
  PROVE  LifecycleInv'
<1> DEFINE i == b[2]  c == tls[t][i]
<1>1. /\ MayCall(t, a) /\ <<b, a>> \in held /\ b[1] = a /\ (ToCache(t, b) \/ ToPool(t, b))
      /\ held' = held \ {<<b, a>>} /\ UNCHANGED <<state, heap, owner, call>>
  BY DEF Free, Mine
<1>2. b \in PoolBlocks(a) /\ i \in Records
  BY <1>1, BlockOwner, BlockShape
<1>3. HeldOK'
  BY <1>1 DEF LifecycleInv, HeldOK
<1>4. \A h \in held : h[1] # b => h \in held'
  BY <1>1
<1>5. CASE c.max = 0
  <2>1. free' = free \union {b} /\ tls' = tls
    BY <1>1, <1>5 DEF ToCache, ToPool
  <2>2. \A x \in Blocks : Somewhere(x) => Somewhere(x)'
    BY <1>1, <1>4, <2>1 DEF Somewhere
  <2>3. QED
    BY <1>1, <1>3, <2>1, <2>2, StillSomewhere, BlocksMove
<1>6. CASE c.max > 0
  <2>1. PICK S \in Flushed(c) :
          /\ Refill(t, i, (c.cached \ S) \union {b})
          /\ free' = free \union S
    BY <1>1, <1>6 DEF ToCache, ToPool, Refill
  <2>2. c # Zero
    BY <1>6 DEF Zero
  <2>3. IsCache(a, t, i, c)
    BY <1>1, <1>2, <2>2, CallerOwns
  <2>4. \A x \in (c.cached \ S) \union {b} : x \in PoolBlocks(a) /\ x[2] = i
    BY <1>2, <2>3 DEF IsCache
  <2>5. /\ tls'[t][i].cached = (c.cached \ S) \union {b}
        /\ \A u \in Threads, j \in Records : (u # t \/ j # i) => tls'[u][j] = tls[u][j]
    BY <1>2, <2>1 DEF LifecycleInv, LifecycleTyped, RecordType, Refill
  <2>6. \A x \in Blocks : Somewhere(x) => Somewhere(x)'
    <3> SUFFICES ASSUME NEW x \in Blocks, Somewhere(x) PROVE Somewhere(x)'
      OBVIOUS
    <3>1. CASE x = b
      BY <1>2, <2>5, <3>1 DEF Somewhere
    <3>2. CASE \E u \in Threads, j \in Records : x \in tls[u][j].cached
      BY <1>2, <2>1, <2>5, <3>2 DEF Somewhere
    <3>3. CASE x # b /\ ~\E u \in Threads, j \in Records : x \in tls[u][j].cached
      BY <1>1, <1>4, <2>1, <3>3 DEF Somewhere
    <3>4. QED
      BY <3>1, <3>2, <3>3
  <2>7. NoneLost'
    BY <1>1, <2>6, StillSomewhere
  <2>8. QED
    BY <1>1, <1>2, <1>3, <2>1, <2>2, <2>4, <2>7, CacheMoves
<1>7. c.max \in Nat
  BY <1>2 DEF LifecycleInv, LifecycleTyped, RecordType
<1>8. QED
  BY <1>5, <1>6, <1>7
-----------------------------------------------------------------------------
(* Steps of the allocators leave the threads as they are. *)
LEMMA ThreadsStay ==
  ASSUME LifecycleInv, UNCHANGED <<tls, held, owner, call>>
  PROVE  /\ \A t \in Threads : CallOK(t)' /\ RecordsOK(t)' /\ Owner(t)' = Owner(t)
         /\ HeldOK'
<1>1. tls' = tls /\ owner' = owner /\ call' = call /\ held' = held
  OBVIOUS
<1>2. \A t \in Threads : Owner(t)' = Owner(t)
  BY <1>1 DEF Owner
<1>3. \A t \in Threads : CallOK(t)' /\ RecordsOK(t)'
  BY <1>1, <1>2 DEF LifecycleInv, CallOK, RecordsOK
<1>4. QED
  BY <1>1, <1>2, <1>3 DEF LifecycleInv, HeldOK

LEMMA AllocatorCreateKeeps ==
  ASSUME LifecycleInv, NEW a \in Allocators, AllocatorCreate(a)
  PROVE  LifecycleInv'
<1>1. /\ state[a] = "new" /\ state' = [state EXCEPT ![a] = "alive"]
      /\ heap' = heap \union {<<"allocator", a>>, <<"buffer", a>>}
      /\ free' = free \union PoolBlocks(a) /\ UNCHANGED <<tls, held, owner, call>>
  BY DEF AllocatorCreate
<1>2. LifecycleTyped'
  BY <1>1 DEF LifecycleInv, LifecycleTyped
<1>3. state'[a] = "alive" /\ \A x \in Allocators : x # a => state'[x] = state[x]
  BY <1>1 DEF LifecycleInv, LifecycleTyped
<1>4. \A t \in Threads : Owner(t) \in Allocators \union {None}
  BY DEF LifecycleInv, LifecycleTyped, CallType, Owner
<1>5. OwnersAlive'
  BY <1>1, <1>3, <1>4, ThreadsStay DEF LifecycleInv, OwnersAlive
<1>6. HeapOK'
  BY <1>1, <1>3 DEF LifecycleInv, HeapOK
<1>7. \A b : Somewhere(b) => Somewhere(b)'
  BY <1>1 DEF Somewhere
<1>8. \A b \in PoolBlocks(a) : Somewhere(b)'
  BY <1>1 DEF Somewhere
<1>9. NoneLost'
  BY <1>3, <1>7, <1>8 DEF LifecycleInv, NoneLost
<1>10. QED
  BY <1>1, <1>2, <1>5, <1>6, <1>9, ThreadsStay DEF LifecycleInv

(* MayDestroy() is what keeps records and calls of the allocator away. *)
LEMMA AllocatorDestroyKeeps ==
  ASSUME LifecycleInv, NEW a \in Allocators, AllocatorDestroy(a)
  PROVE  LifecycleInv'
<1>1. /\ MayDestroy(a) /\ state' = [state EXCEPT ![a] = "destroyed"]
      /\ heap' = heap \ {<<"buffer", a>>, <<"allocator", a>>}
      /\ free' = free \ PoolBlocks(a) /\ UNCHANGED <<tls, held, owner, call>>
  BY DEF AllocatorDestroy
<1>2. LifecycleTyped'
  BY <1>1 DEF LifecycleInv, LifecycleTyped
<1>3. state'[a] = "destroyed" /\ \A x \in Allocators : x # a => state'[x] = state[x]
  BY <1>1 DEF LifecycleInv, LifecycleTyped
<1>4. \A t \in Threads : Owner(t) \in Allocators \union {None} /\ Owner(t) # a
  BY <1>1 DEF LifecycleInv, LifecycleTyped, CallType, Owner, MayDestroy
<1>5. OwnersAlive'
  BY <1>1, <1>3, <1>4, ThreadsStay DEF LifecycleInv, OwnersAlive
<1>6. \A t \in Threads, i \in Records : tls[t][i] # Zero =>
        tls[t][i].stack = Stack(Owner(t), t, i)
  BY DEF LifecycleInv, RecordsOK, IsCache
<1>7. HeapOK'
  <2>1. ASSUME NEW t \in Threads, NEW i \in Records, tls[t][i] # Zero
        PROVE  tls[t][i].stack \in heap'
    BY <1>1, <1>6, <2>1, Names DEF LifecycleInv, HeapOK
  <2>2. ASSUME NEW x \in heap'
        PROVE  \/ \E y \in Allocators : state'[y] = "alive" /\ x \in {<<"allocator", y>>, <<"buffer", y>>}
               \/ \E t \in Threads, i \in Records : tls[t][i] # Zero /\ x = tls[t][i].stack
    BY <1>1, <1>3 DEF LifecycleInv, HeapOK
  <2>3. QED
    BY <1>1, <2>1, <2>2 DEF HeapOK
<1>8. ASSUME NEW y \in Allocators, y # a, NEW b \in PoolBlocks(y), Somewhere(b)
      PROVE  Somewhere(b)'
  <2>1. b \notin PoolBlocks(a)
    BY <1>8, BlockShape
  <2>2. QED
    BY <1>1, <1>8, <2>1 DEF Somewhere
<1>9. NoneLost'
  BY <1>3, <1>8 DEF LifecycleInv, NoneLost
<1>10. QED
  BY <1>1, <1>2, <1>5, <1>7, <1>9, ThreadsStay DEF LifecycleInv
-----------------------------------------------------------------------------
(* A thread that has begun or goes on with a call, its records as before. *)
LEMMA CallMoves ==
  ASSUME LifecycleInv, NEW t \in Threads, UNCHANGED <<state, heap, tls, held>>,
         call' = [call EXCEPT ![t] = call'[t]], call'[t] \in CallType,
         owner' = [owner EXCEPT ![t] = owner'[t]], owner'[t] \in Allocators \union {None},
         CallOK(t)', RecordsOK(t)', Owner(t)' # None => state[Owner(t)'] = "alive",
         NoneLost'
  PROVE  LifecycleInv'
<1>1. state' = state /\ heap' = heap /\ tls' = tls /\ held' = held
  OBVIOUS
<1>2. HeapOK' /\ HeldOK'
  BY <1>1 DEF LifecycleInv, HeapOK, HeldOK
<1>3. tls' = [tls EXCEPT ![t] = tls'[t]] /\ tls'[t] \in [Records -> RecordType]
  BY <1>1 DEF LifecycleInv, LifecycleTyped
<1>4. QED
  BY <1>1, <1>2, <1>3, ThreadMoves

LEMMA CacheCreateKeeps ==
  ASSUME LifecycleInv, OneAllocator, NEW t \in Threads, NEW a \in Allocators,
         NEW o \in Options, CacheCreate(t, a, o)
  PROVE  LifecycleInv'
<1> DEFINE c == [NoCall EXCEPT !.op = "create", !.a = a, !.options = o]
<1>1. /\ MayCall(t, a) /\ owner[t] = None /\ owner' = [owner EXCEPT ![t] = a]
      /\ call' = [call EXCEPT ![t] = c] /\ UNCHANGED <<state, heap, free, tls, held>>
  BY DEF CacheCreate
<1>2. /\ call \in [Threads -> CallType] /\ owner \in [Threads -> Allocators \union {None}]
  BY DEF LifecycleInv, LifecycleTyped
<1>3. /\ c \in CallType /\ c.op = "create" /\ c.a = a /\ c.options = o /\ c.i = 0
      /\ c.chain = {} /\ c.other = {}
  BY ZeroTyped DEF NoCall, CallType, Creating
<1>4. call'[t] = c /\ owner'[t] = a /\ a # None
  BY <1>1, <1>2, Names
<1>5. state[a] = "alive" /\ \A i \in Records : tls[t][i] = Zero
  BY <1>1, <1>4, CallerOwns
<1>6. call[t].chain = {} /\ call[t].other = {}
  BY <1>1, CallerOwns
<1>7. CallOK(t)'
  BY <1>3, <1>4, OptionsFit DEF CallOK, Creating, Warming
<1>8. Owner(t)' = a
  BY <1>4 DEF Owner
<1>9. RecordsOK(t)'
  BY <1>1, <1>3, <1>4, <1>5 DEF RecordsOK, Warming
<1>10. \A u \in Threads : u # t => call'[u] = call[u]
  BY <1>1, <1>2
<1>11. \A x \in Blocks : Somewhere(x) => Somewhere(x)'
  BY <1>1, <1>6, <1>10 DEF Somewhere
<1>12. NoneLost'
  BY <1>1, <1>11, StillSomewhere
<1>13. call' = [call EXCEPT ![t] = call'[t]] /\ owner' = [owner EXCEPT ![t] = owner'[t]]
  BY <1>1, <1>4
<1>14. QED
  BY <1>1, <1>3, <1>4, <1>5, <1>7, <1>8, <1>9, <1>12, <1>13, CallMoves

LEMMA CacheDestroyKeeps ==
  ASSUME LifecycleInv, OneAllocator, NEW t \in Threads, NEW a \in Allocators, CacheDestroy(t, a)
  PROVE  LifecycleInv'
<1> DEFINE c == [NoCall EXCEPT !.op = "destroy", !.a = a]
<1>1. /\ MayCall(t, a) /\ owner[t] # None /\ owner' = [owner EXCEPT ![t] = None]
      /\ call' = [call EXCEPT ![t] = c] /\ UNCHANGED <<state, heap, free, tls, held>>
  BY DEF CacheDestroy
<1>2. /\ call \in [Threads -> CallType] /\ owner \in [Threads -> Allocators \union {None}]
  BY DEF LifecycleInv, LifecycleTyped
<1>3. /\ c \in CallType /\ c.op = "destroy" /\ c.a = a /\ c.i = 0
      /\ c.chain = {} /\ c.other = {}
  BY ZeroTyped DEF NoCall, CallType, Creating
<1>4. call'[t] = c /\ owner'[t] = None /\ a # None
  BY <1>1, <1>2, Names
<1>5. state[a] = "alive" /\ \A i \in Records : tls[t][i] # Zero => IsCache(a, t, i, tls[t][i])
  BY <1>1, CallerOwns
<1>6. call[t].chain = {} /\ call[t].other = {}
  BY <1>1, CallerOwns
<1>7. CallOK(t)'
  BY <1>3, <1>4 DEF CallOK, Creating, Warming
<1>8. Owner(t)' = a
  BY <1>3, <1>4 DEF Owner
<1>9. RecordsOK(t)'
  <2>1. \A i \in Records : ~(i < 0)
    BY DEF Records
  <2>2. QED
    BY <1>1, <1>3, <1>4, <1>5, <1>8, <2>1 DEF RecordsOK, Warming
<1>10. \A u \in Threads : u # t => call'[u] = call[u]
  BY <1>1, <1>2
<1>11. \A x \in Blocks : Somewhere(x) => Somewhere(x)'
  BY <1>1, <1>6, <1>10 DEF Somewhere
<1>12. NoneLost'
  BY <1>1, <1>11, StillSomewhere
<1>13. call' = [call EXCEPT ![t] = call'[t]] /\ owner' = [owner EXCEPT ![t] = owner'[t]]
  BY <1>1, <1>4
<1>14. QED
  BY <1>1, <1>3, <1>4, <1>5, <1>7, <1>8, <1>9, <1>12, <1>13, CallMoves

(* A thread inside CreateThreadCache(). *)
LEMMA CreatorOwns ==
  ASSUME LifecycleInv, NEW t \in Threads, call[t].op \in Creating
  PROVE  /\ owner[t] # None /\ owner[t] \in Allocators /\ call[t].a = owner[t]
         /\ Owner(t) = owner[t] /\ state[owner[t]] = "alive"
         /\ call[t] \in CallType /\ call \in [Threads -> CallType] /\ call[t].i \in Records
         /\ call[t].options \in Options /\ call[t].i < Len(call[t].options)
         /\ owner \in [Threads -> Allocators \union {None}]
<1>1. /\ CallOK(t) /\ call[t] \in CallType /\ owner[t] \in Allocators \union {None} /\ OwnersAlive
      /\ call \in [Threads -> CallType] /\ owner \in [Threads -> Allocators \union {None}]
  BY DEF LifecycleInv, LifecycleTyped
<1>2. owner[t] # None /\ call[t].op # "idle"
  BY <1>1 DEF CallOK, Creating, Warming
<1>3. call[t].a = owner[t] /\ Owner(t) = owner[t]
  BY <1>1, <1>2 DEF CallOK, Owner
<1>4. call[t].i \in Records
  BY <1>1 DEF CallType
<1>5. QED
  BY <1>1, <1>2, <1>3, <1>4 DEF CallOK, OwnersAlive

(* The record is taken into use: the stack is the one of this record. *)
LEMMA CacheInitKeeps ==
  ASSUME LifecycleInv, NEW t \in Threads, CacheInit(t)
  PROVE  LifecycleInv'
<1> DEFINE c == call[t]
           a == owner[t]
           i == c.i
           max == c.options[i + 1]
           r == [pBucket |-> <<a, i>>, max |-> max, stack |-> Stack(a, t, i), cached |-> {}]
<1>1. c.op \in Creating /\ c.op = "create"
  BY DEF CacheInit, Creating
<1>2. /\ a # None /\ a \in Allocators /\ c.a = a /\ Owner(t) = a /\ state[a] = "alive"
      /\ c \in CallType /\ call \in [Threads -> CallType] /\ i \in Records
      /\ c.options \in Options /\ i < Len(c.options)
      /\ owner \in [Threads -> Allocators \union {None}]
  BY <1>1, CreatorOwns
<1>3. /\ heap' = heap \union {Stack(a, t, i)}
      /\ tls' = [tls EXCEPT ![t][i] = r]
      /\ \E n \in WarmupCounts(max) : call' = [call EXCEPT ![t] = [c EXCEPT !.op = "warmup", !.num = n]]
      /\ UNCHANGED <<state, free, held, owner>>
  BY <1>2 DEF CacheInit, Stack
<1>4. max \in Nat \ {0}
  BY <1>2, OptionsFit
<1>5. PICK n \in WarmupCounts(max) : call' = [call EXCEPT ![t] = [c EXCEPT !.op = "warmup", !.num = n]]
  BY <1>3
<1>6. n \in Nat
  BY <1>4 DEF WarmupCounts
<1> DEFINE d == [c EXCEPT !.op = "warmup", !.num = n]
<1>7. /\ d \in CallType /\ d.op = "warmup" /\ d.a = a /\ d.options = c.options /\ d.i = i
      /\ d.chain = c.chain /\ d.other = c.other
  BY <1>2, <1>6 DEF CallType, Creating, Warming
<1>8. call'[t] = d /\ call' = [call EXCEPT ![t] = call'[t]] /\ \A u \in Threads : u # t => call'[u] = call[u]
  BY <1>2, <1>5
<1>9. CallOK(t) /\ RecordsOK(t) /\ tls \in [Threads -> [Records -> RecordType]]
  BY DEF LifecycleInv, LifecycleTyped
<1>10. c.chain = {} /\ c.other = {}
  BY <1>1, <1>9 DEF CallOK, Warming
<1>11. r \in RecordType /\ IsCache(a, t, i, r) /\ r.cached = {} /\ r.stack = Stack(a, t, i) /\ r # Zero
  BY <1>2, <1>4, Names DEF RecordType, IsCache, Zero
<1> HIDE DEF r, d
<1>12. /\ tls'[t][i] = r /\ \A j \in Records : j # i => tls'[t][j] = tls[t][j]
       /\ \A u \in Threads : u # t => tls'[u] = tls[u]
       /\ tls'[t] \in [Records -> RecordType] /\ tls' = [tls EXCEPT ![t] = tls'[t]]
  BY <1>2, <1>3, <1>9, <1>11
<1>13. owner'[t] = a /\ Owner(t)' = a /\ owner' = [owner EXCEPT ![t] = owner'[t]]
  BY <1>2, <1>3 DEF Owner
<1>14. CallOK(t)'
  BY <1>2, <1>7, <1>8, <1>10, <1>13 DEF CallOK, Creating, Warming
<1>15. \A j \in Records : j >= i => tls[t][j] = Zero
  BY <1>1, <1>9 DEF RecordsOK
<1>16. \A j \in Records : j > i => tls'[t][j] = Zero
  BY <1>2, <1>12, <1>15 DEF Records
<1>17. RecordsOK(t)'
  BY <1>2, <1>7, <1>8, <1>9, <1>11, <1>12, <1>13, <1>16 DEF RecordsOK, Warming
<1>18. HeapOK'
  <2>1. HeapOK
    BY DEF LifecycleInv
  <2>2. tls[t][i] = Zero
    BY <1>2, <1>15 DEF Records
  <2>3. \A u \in Threads, j \in Records : tls[u][j] # Zero => tls'[u][j] = tls[u][j]
    BY <1>12, <2>2
  <2>4. \A u \in Threads, j \in Records : tls'[u][j] # Zero => tls'[u][j].stack \in heap'
    BY <1>3, <1>11, <1>12, <2>1 DEF HeapOK
  <2>5. ASSUME NEW x \in heap'
        PROVE  \/ \E y \in Allocators : state'[y] = "alive" /\ x \in {<<"allocator", y>>, <<"buffer", y>>}
               \/ \E u \in Threads, j \in Records : tls'[u][j] # Zero /\ x = tls'[u][j].stack
    <3>1. CASE x = Stack(a, t, i)
      BY <1>2, <1>11, <1>12, <3>1
    <3>2. CASE x \in heap
      BY <1>3, <2>1, <2>3, <3>2 DEF HeapOK
    <3>3. QED
      BY <1>3, <3>1, <3>2
  <2>6. QED
    BY <2>4, <2>5 DEF HeapOK
<1>19. HeldOK'
  BY <1>3 DEF LifecycleInv, HeldOK
<1>20. \A x \in Blocks : Somewhere(x) => Somewhere(x)'
  <2>1. tls[t][i].cached = {}
    BY <1>2, <1>15 DEF Records, Zero
  <2>2. QED
    BY <1>3, <1>8, <1>10, <1>12, <2>1 DEF Somewhere
<1>21. NoneLost'
  BY <1>3, <1>20, StillSomewhere
<1>22. call'[t] \in CallType /\ owner'[t] \in Allocators \union {None} /\ state' = state
  BY <1>2, <1>3, <1>7, <1>8, <1>13
<1>23. Owner(t)' # None => state[Owner(t)'] = "alive"
  BY <1>2, <1>13
<1>24. QED
  BY <1>8, <1>12, <1>13, <1>22, <1>23, <1>14, <1>17, <1>18, <1>19, <1>21, ThreadMoves

(* A step of the warmup loop, the records as before. *)
LEMMA WarmupMoves ==
  ASSUME LifecycleInv, NEW t \in Threads, call[t].op \in Warming,
         UNCHANGED <<state, heap, tls, held, owner>>,
         NEW d \in CallType, call' = [call EXCEPT ![t] = d],
         d.op \in Warming, d.a = call[t].a, d.options = call[t].options, d.i = call[t].i,
         d.op # "other" => d.other = {},
         \A b \in d.chain : b \in PoolBlocks(d.a) /\ b[2] = d.i,
         d.op = "other" => \E b \in PoolBlocks(d.a) : b[2] > d.i /\ d.other = {b},
         \A x \in call[t].chain \union call[t].other :
           x \in free' \union d.chain \union d.other,
         \A x \in free : x \in free' \union d.chain \union d.other
  PROVE  LifecycleInv'
<1>1. call[t].op \in Creating
  BY DEF Creating
<1>2. /\ owner[t] # None /\ owner[t] \in Allocators /\ call[t].a = owner[t]
      /\ Owner(t) = owner[t] /\ state[owner[t]] = "alive"
      /\ call \in [Threads -> CallType]
      /\ call[t].options \in Options /\ call[t].i < Len(call[t].options)
      /\ owner \in [Threads -> Allocators \union {None}]
  BY <1>1, CreatorOwns
<1>3. tls' = tls /\ owner' = owner /\ owner' = [owner EXCEPT ![t] = owner'[t]]
  BY <1>2
<1>4. /\ call'[t] = d /\ call' = [call EXCEPT ![t] = call'[t]]
      /\ \A u \in Threads : u # t => call'[u] = call[u]
  BY <1>2
<1>5. Owner(t)' = owner[t]
  BY <1>2, <1>3 DEF Owner
<1>6. CallOK(t)'
  BY <1>2, <1>3, <1>4 DEF CallOK, Creating, Warming
<1>7. RecordsOK(t)
  BY DEF LifecycleInv
<1>8. RecordsOK(t)'
  BY <1>2, <1>3, <1>4, <1>5, <1>7 DEF RecordsOK, Warming
<1>9. \A x \in Blocks : Somewhere(x) => Somewhere(x)'
  <2> SUFFICES ASSUME NEW x \in Blocks, Somewhere(x) PROVE Somewhere(x)'
    OBVIOUS
  <2>1. CASE x \in free \/ x \in call[t].chain \/ x \in call[t].other
    BY <1>4, <2>1 DEF Somewhere
  <2>2. CASE ~(x \in free \/ x \in call[t].chain \/ x \in call[t].other)
    BY <1>3, <1>4, <2>2 DEF Somewhere
  <2>3. QED
    BY <2>1, <2>2
<1>10. NoneLost'
  BY <1>9, StillSomewhere
<1>11. Owner(t)' # None => state[Owner(t)'] = "alive"
  BY <1>2, <1>5
<1>12. call'[t] \in CallType /\ owner'[t] \in Allocators \union {None}
  BY <1>2, <1>3, <1>4
<1>13. QED
  BY <1>3, <1>4, <1>6, <1>8, <1>10, <1>11, <1>12, CallMoves

LEMMA WarmupAllocKeeps ==
  ASSUME LifecycleInv, NEW t \in Threads, NEW b \in Blocks, WarmupAlloc(t, b)
  PROVE  LifecycleInv'
<1> DEFINE c == call[t]
           d == [c EXCEPT !.chain = @ \union {b}]
           e == [c EXCEPT !.op = "other", !.other = {b}]
<1>1. /\ c.op = "warmup" /\ b \in free /\ b[1] = c.a /\ b[2] >= c.i /\ free' = free \ {b}
      /\ call' = [call EXCEPT ![t] = IF b[2] = c.i THEN d ELSE e]
      /\ UNCHANGED <<state, heap, tls, held, owner>>
  BY DEF WarmupAlloc, FromBucket, Offered, Mine
<1>2. c \in CallType /\ CallOK(t) /\ c.op \in Warming /\ c.i \in Records
  BY <1>1 DEF LifecycleInv, LifecycleTyped, CallType, Warming
<1>3. c.other = {} /\ \A x \in c.chain : x \in PoolBlocks(c.a) /\ x[2] = c.i
  BY <1>1, <1>2 DEF CallOK
<1>4. b \in PoolBlocks(c.a) /\ b[2] \in Records
  BY <1>1, BlockOwner, BlockShape
<1>5. CASE b[2] = c.i
  <2>1. /\ d \in CallType /\ d.op = "warmup" /\ d.a = c.a /\ d.options = c.options /\ d.i = c.i
        /\ d.chain = c.chain \union {b} /\ d.other = {}
    BY <1>1, <1>2, <1>3 DEF CallType
  <2>2. call' = [call EXCEPT ![t] = d]
    BY <1>1, <1>5
  <2> HIDE DEF d
  <2>3. d.op \in Warming /\ \A x \in d.chain : x \in PoolBlocks(d.a) /\ x[2] = d.i
    BY <1>3, <1>4, <1>5, <2>1 DEF Warming
  <2>4. /\ \A x \in c.chain \union c.other : x \in free' \union d.chain \union d.other
        /\ \A x \in free : x \in free' \union d.chain \union d.other
    BY <1>1, <1>3, <2>1
  <2>5. QED
    BY <1>1, <1>2, <2>1, <2>2, <2>3, <2>4, WarmupMoves
<1>6. CASE b[2] # c.i
  <2>1. /\ e \in CallType /\ e.op = "other" /\ e.a = c.a /\ e.options = c.options /\ e.i = c.i
        /\ e.chain = c.chain /\ e.other = {b}
    BY <1>1, <1>2, <1>3 DEF CallType, Creating, Warming
  <2>2. call' = [call EXCEPT ![t] = e]
    BY <1>1, <1>6
  <2> HIDE DEF e
  <2>3. e.op \in Warming /\ \A x \in e.chain : x \in PoolBlocks(e.a) /\ x[2] = e.i
    BY <1>3, <2>1 DEF Warming
  <2>4. b \in PoolBlocks(e.a) /\ b[2] > e.i /\ e.other = {b}
    BY <1>1, <1>2, <1>4, <1>6, <2>1 DEF Records
  <2>5. /\ \A x \in c.chain \union c.other : x \in free' \union e.chain \union e.other
        /\ \A x \in free : x \in free' \union e.chain \union e.other
    BY <1>1, <1>3, <2>1
  <2>6. QED
    BY <1>1, <1>2, <2>1, <2>2, <2>3, <2>4, <2>5, WarmupMoves
<1>7. QED
  BY <1>5, <1>6

LEMMA WarmupMissKeeps ==
  ASSUME LifecycleInv, NEW t \in Threads, WarmupMiss(t)
  PROVE  LifecycleInv'
<1> DEFINE c == call[t]
           d == [c EXCEPT !.op = "chained"]
<1>1. /\ c.op = "warmup" /\ call' = [call EXCEPT ![t] = d]
      /\ UNCHANGED <<state, heap, free, tls, held, owner>>
  BY DEF WarmupMiss
<1>2. c \in CallType /\ CallOK(t) /\ c.op \in Warming
  BY <1>1 DEF LifecycleInv, LifecycleTyped, Warming
<1>3. c.other = {} /\ \A x \in c.chain : x \in PoolBlocks(c.a) /\ x[2] = c.i
  BY <1>1, <1>2 DEF CallOK
<1>4. /\ d \in CallType /\ d.op = "chained" /\ d.a = c.a /\ d.options = c.options /\ d.i = c.i
      /\ d.chain = c.chain /\ d.other = {} /\ d.op \in Warming
  BY <1>2, <1>3 DEF CallType, Creating, Warming
<1> HIDE DEF d
<1>5. QED
  BY <1>1, <1>2, <1>3, <1>4, WarmupMoves

(* The block is of a later bucket, whose record is not in use yet: it goes *)
(* to its pool.                                                            *)
LEMMA WarmupGiveBackKeeps ==
  ASSUME LifecycleInv, NEW t \in Threads, NEW b \in Blocks, WarmupGiveBack(t, b)
  PROVE  LifecycleInv'
<1> DEFINE c == call[t]
           d == [c EXCEPT !.op = "chained", !.other = {}]
<1>1. /\ c.op = "other" /\ b \in c.other /\ ToPool(t, b) /\ call' = [call EXCEPT ![t] = d]
      /\ UNCHANGED <<state, heap, held, owner>>
  BY DEF WarmupGiveBack
<1>2. c \in CallType /\ CallOK(t) /\ RecordsOK(t) /\ c.op \in Warming
  BY <1>1 DEF LifecycleInv, LifecycleTyped, Warming
<1>3. c.other = {b} /\ b[2] > c.i /\ \A x \in c.chain : x \in PoolBlocks(c.a) /\ x[2] = c.i
  BY <1>1, <1>2 DEF CallOK
<1>5. free' = free \union {b} /\ tls' = tls
  BY <1>1 DEF ToPool
<1>6. /\ d \in CallType /\ d.op = "chained" /\ d.a = c.a /\ d.options = c.options /\ d.i = c.i
      /\ d.chain = c.chain /\ d.other = {} /\ d.op \in Warming
  BY <1>2 DEF CallType, Creating, Warming
<1> HIDE DEF d
<1>7. /\ \A x \in c.chain \union c.other : x \in free' \union d.chain \union d.other
      /\ \A x \in free : x \in free' \union d.chain \union d.other
  BY <1>3, <1>5, <1>6
<1>8. QED
  BY <1>1, <1>2, <1>3, <1>5, <1>6, <1>7, WarmupMoves

(* The chain becomes the cache's, and the next record's turn comes. *)
LEMMA WarmupEndKeeps ==
  ASSUME LifecycleInv, NEW t \in Threads, WarmupEnd(t)
  PROVE  LifecycleInv'
<1> DEFINE c == call[t]
           i == c.i
           a == owner[t]
           d == [NoCall EXCEPT !.op = "create", !.a = c.a, !.options = c.options, !.i = i + 1]
           e == IF i + 1 < Len(c.options) THEN d ELSE NoCall
<1>1. /\ c.op \in {"chained", "warmup"} /\ Refill(t, i, c.chain) /\ call' = [call EXCEPT ![t] = e]
      /\ UNCHANGED <<state, heap, free, held, owner>>
  <2>1. c.op \in {"chained", "warmup"} /\ UNCHANGED <<state, heap, free, held, owner>>
    BY DEF WarmupEnd
  <2>2. Refill(t, i, c.chain)
    BY DEF WarmupEnd, Refill
  <2>3. call' = [call EXCEPT ![t] = e]
    BY DEF WarmupEnd, CacheNext
  <2>4. QED
    BY <2>1, <2>2, <2>3
<1>2. c.op \in Warming /\ c.op \in Creating /\ c.op # "other"
  BY <1>1 DEF Warming, Creating
<1>3. /\ a # None /\ a \in Allocators /\ c.a = a /\ Owner(t) = a /\ state[a] = "alive"
      /\ c \in CallType /\ call \in [Threads -> CallType] /\ i \in Records
      /\ c.options \in Options /\ i < Len(c.options)
      /\ owner \in [Threads -> Allocators \union {None}]
  BY <1>2, CreatorOwns
<1>4. CallOK(t) /\ RecordsOK(t)
  BY DEF LifecycleInv
<1>5. /\ c.other = {} /\ \A b \in c.chain : b \in PoolBlocks(a) /\ b[2] = i
      /\ IsCache(a, t, i, tls[t][i]) /\ tls[t][i].cached = {}
      /\ \A j \in Records : j > i => tls[t][j] = Zero
  BY <1>2, <1>3, <1>4 DEF CallOK, RecordsOK
<1>6. /\ tls' = [tls EXCEPT ![t] = tls'[t]] /\ tls'[t] \in [Records -> RecordType]
      /\ \A j \in Records : j # i => tls'[t][j] = tls[t][j]
      /\ IsCache(a, t, i, tls'[t][i]) /\ tls'[t][i].cached = c.chain /\ HeapOK'
  BY <1>1, <1>3, <1>5, RecordRefilled
<1>7. i + 1 < Len(c.options) =>
        /\ d \in CallType /\ d.op = "create" /\ d.a = a /\ d.options = c.options /\ d.i = i + 1
        /\ d.chain = {} /\ d.other = {}
  <2>1. i + 1 < Len(c.options) => i + 1 \in Records
    BY <1>3, OptionsFit
  <2>2. QED
    BY <1>3, <2>1 DEF CallType, Creating, NoCall
<1>8. /\ NoCall \in CallType /\ NoCall.op = "idle" /\ NoCall.a = None
      /\ NoCall.chain = {} /\ NoCall.other = {}
  BY ZeroTyped DEF NoCall
<1>9. /\ call'[t] = e /\ call' = [call EXCEPT ![t] = call'[t]]
      /\ \A u \in Threads : u # t => call'[u] = call[u]
  BY <1>1, <1>3
<1> HIDE DEF d
<1>10. owner' = [owner EXCEPT ![t] = owner'[t]] /\ owner'[t] = a /\ Owner(t)' = a /\ state' = state
  BY <1>1, <1>3 DEF Owner
<1>11. CallOK(t)' /\ call'[t] \in CallType
  <2>1. CASE i + 1 < Len(c.options)
    <3>1. call'[t] = d
      BY <1>9, <2>1
    <3>2. QED
      BY <1>3, <1>7, <1>10, <2>1, <3>1 DEF CallOK, Creating, Warming
  <2>2. CASE ~(i + 1 < Len(c.options))
    <3>1. call'[t] = NoCall
      BY <1>9, <2>2
    <3>2. QED
      BY <1>3, <1>8, <1>10, <3>1 DEF CallOK, Creating, Warming
  <2>3. QED
    BY <2>1, <2>2
<1>12. call'[t].op \in {"create", "idle"} /\ (call'[t].op = "create" => call'[t].i = i + 1)
  BY <1>7, <1>8, <1>9
<1>13. RecordsOK(t)'
  <2>1. \A j \in Records : j >= i + 1 => tls'[t][j] = Zero
    BY <1>3, <1>5, <1>6 DEF Records
  <2>2. \A j \in Records : tls'[t][j] = Zero \/ IsCache(a, t, j, tls'[t][j])
    BY <1>3, <1>4, <1>6 DEF RecordsOK
  <2>3. QED
    BY <1>3, <1>10, <1>12, <2>1, <2>2 DEF RecordsOK, Warming
<1>14. HeldOK'
  BY <1>1 DEF LifecycleInv, HeldOK
<1>15. \A x \in Blocks : Somewhere(x) => Somewhere(x)'
  <2>1. \A u \in Threads : u # t => tls'[u] = tls[u]
    BY <1>6 DEF LifecycleInv, LifecycleTyped
  <2> SUFFICES ASSUME NEW x \in Blocks, Somewhere(x) PROVE Somewhere(x)'
    OBVIOUS
  <2>2. CASE x \in c.chain
    BY <1>3, <1>6, <2>2 DEF Somewhere
  <2>3. CASE x \notin c.chain
    BY <1>1, <1>5, <1>6, <1>9, <2>1, <2>3 DEF Somewhere
  <2>4. QED
    BY <2>2, <2>3
<1>16. NoneLost'
  BY <1>10, <1>15, StillSomewhere
<1>17. Owner(t)' # None => state[Owner(t)'] = "alive"
  BY <1>3, <1>10
<1>18. owner'[t] \in Allocators \union {None}
  BY <1>3, <1>10
<1>19. QED
  BY <1>6, <1>9, <1>10, <1>11, <1>13, <1>14, <1>16, <1>17, <1>18, ThreadMoves

(* The next record is emptied, its stack freed. *)
LEMMA BucketDestroyKeeps ==
  ASSUME LifecycleInv, NEW t \in Threads, BucketDestroy(t)
  PROVE  LifecycleInv'
<1> DEFINE c == call[t]
           i == c.i
           r == tls[t][i]
           d == [c EXCEPT !.i = i + 1]
           e == IF i + 1 < MaxBucketCount THEN d ELSE NoCall
<1>1. /\ c.op = "destroy" /\ free' = free \union r.cached /\ heap' = heap \ {r.stack}
      /\ tls' = [tls EXCEPT ![t][i] = Zero] /\ call' = [call EXCEPT ![t] = e]
      /\ UNCHANGED <<state, held, owner>>
  BY DEF BucketDestroy, ReturnedStack, Cleared, MoreRecords
<1>2. /\ CallOK(t) /\ RecordsOK(t) /\ call \in [Threads -> CallType] /\ c \in CallType
      /\ owner \in [Threads -> Allocators \union {None}] /\ OwnersAlive
      /\ tls \in [Threads -> [Records -> RecordType]]
  BY DEF LifecycleInv, LifecycleTyped
<1>3. /\ owner[t] = None /\ c.a # None /\ Owner(t) = c.a /\ i \in Records
      /\ c.chain = {} /\ c.other = {} /\ state[c.a] = "alive"
  BY <1>1, <1>2 DEF CallOK, Owner, OwnersAlive, Warming, CallType
<1>4. /\ tls'[t][i] = Zero /\ \A j \in Records : j # i => tls'[t][j] = tls[t][j]
      /\ \A u \in Threads : u # t => tls'[u] = tls[u]
      /\ tls'[t] \in [Records -> RecordType] /\ tls' = [tls EXCEPT ![t] = tls'[t]]
  BY <1>1, <1>2, <1>3, ZeroTyped
<1>5. i + 1 < MaxBucketCount =>
        /\ d \in CallType /\ d.op = "destroy" /\ d.a = c.a /\ d.i = i + 1
        /\ d.chain = {} /\ d.other = {}
  <2>1. i + 1 < MaxBucketCount => i + 1 \in Records
    BY <1>3, LifecycleConstants DEF Records
  <2>2. QED
    BY <1>1, <1>2, <1>3, <2>1 DEF CallType
<1>6. /\ NoCall \in CallType /\ NoCall.op = "idle" /\ NoCall.a = None
      /\ NoCall.chain = {} /\ NoCall.other = {}
  BY ZeroTyped DEF NoCall
<1>7. /\ call'[t] = e /\ call' = [call EXCEPT ![t] = call'[t]]
      /\ \A u \in Threads : u # t => call'[u] = call[u]
  BY <1>1, <1>2
<1> HIDE DEF d
<1>8. owner' = [owner EXCEPT ![t] = owner'[t]] /\ owner'[t] = None /\ state' = state /\ held' = held
  BY <1>1, <1>2, <1>3
<1>9. \A j \in Records : j <= i => tls'[t][j] = Zero
  <2>1. \A j \in Records : j < i => tls[t][j] = Zero
    BY <1>1, <1>2 DEF RecordsOK
  <2>2. \A j \in Records : j <= i => j = i \/ (j < i /\ j # i)
    BY <1>3 DEF Records
  <2>3. QED
    BY <1>4, <2>1, <2>2
<1>10. CallOK(t)' /\ RecordsOK(t)' /\ call'[t] \in CallType /\ Owner(t)' \in {None, c.a}
  <2>1. CASE i + 1 < MaxBucketCount
    <3>1. call'[t] = d
      BY <1>7, <2>1
    <3>2. CallOK(t)' /\ Owner(t)' = c.a /\ call'[t] \in CallType
      BY <1>3, <1>5, <1>8, <2>1, <3>1 DEF CallOK, Creating, Warming, Owner
    <3>3. \A j \in Records : j < i + 1 => tls'[t][j] = Zero
      BY <1>3, <1>9 DEF Records
    <3>4. RecordsOK(t)'
      BY <1>2, <1>3, <1>4, <1>5, <2>1, <3>1, <3>2, <3>3 DEF RecordsOK, Warming
    <3>5. QED
      BY <3>2, <3>4
  <2>2. CASE ~(i + 1 < MaxBucketCount)
    <3>1. call'[t] = NoCall
      BY <1>7, <2>2
    <3>2. CallOK(t)' /\ Owner(t)' = None /\ call'[t] \in CallType
      BY <1>6, <1>8, <3>1 DEF CallOK, Creating, Warming, Owner
    <3>3. \A j \in Records : tls'[t][j] = Zero
      BY <1>3, <1>9, <2>2, LifecycleConstants DEF Records
    <3>4. RecordsOK(t)'
      BY <1>6, <3>1, <3>3 DEF RecordsOK, Warming
    <3>5. QED
      BY <3>2, <3>4
  <2>3. QED
    BY <2>1, <2>2
<1>11. HeapOK'
  <2>1. HeapOK /\ \A u \in Threads : RecordsOK(u)
    BY DEF LifecycleInv
  <2>2. \A u \in Threads, j \in Records : tls[u][j] # Zero =>
          tls[u][j].stack = Stack(Owner(u), u, j)
    BY <2>1 DEF RecordsOK, IsCache
  <2>3. \A u \in Threads, j \in Records : tls'[u][j] # Zero =>
          (u # t \/ j # i) /\ tls'[u][j] = tls[u][j]
    BY <1>4
  <2>4. ASSUME NEW u \in Threads, NEW j \in Records, tls'[u][j] # Zero
        PROVE  tls'[u][j].stack \in heap'
    <3>1. tls[u][j].stack \in heap /\ tls[u][j].stack = Stack(Owner(u), u, j)
      BY <2>1, <2>2, <2>3, <2>4 DEF HeapOK
    <3>2. r.stack = None \/ r.stack = Stack(Owner(t), t, i)
      BY <1>3, <2>2 DEF Zero
    <3>3. tls[u][j].stack # r.stack
      BY <2>3, <2>4, <3>1, <3>2, Names
    <3>4. QED
      BY <1>1, <2>3, <2>4, <3>1, <3>3
  <2>5. ASSUME NEW x \in heap'
        PROVE  \/ \E y \in Allocators : state'[y] = "alive" /\ x \in {<<"allocator", y>>, <<"buffer", y>>}
               \/ \E u \in Threads, j \in Records : tls'[u][j] # Zero /\ x = tls'[u][j].stack
    <3>1. x \in heap /\ x # r.stack
      BY <1>1
    <3>2. CASE \E u \in Threads, j \in Records : tls[u][j] # Zero /\ x = tls[u][j].stack
      BY <1>4, <3>1, <3>2
    <3>3. QED
      BY <1>8, <2>1, <3>1, <3>2 DEF HeapOK
  <2>6. QED
    BY <2>4, <2>5 DEF HeapOK
<1>12. HeldOK'
  BY <1>8 DEF LifecycleInv, HeldOK
<1>13. \A x \in Blocks : Somewhere(x) => Somewhere(x)'
  BY <1>1, <1>3, <1>4, <1>7 DEF Somewhere
<1>14. NoneLost'
  BY <1>8, <1>13, StillSomewhere
<1>15. Owner(t)' # None => state[Owner(t)'] = "alive"
  BY <1>3, <1>10
<1>16. QED
  BY <1>4, <1>7, <1>8, <1>10, <1>11, <1>12, <1>14, <1>15, ThreadMoves
-----------------------------------------------------------------------------
LEMMA LifecycleNext ==
  ASSUME LifecycleInv, OneAllocator, [Next]_vars
  PROVE  LifecycleInv'
<1>1. CASE UNCHANGED vars
  <2>1. UNCHANGED <<state, heap, tls, owner, call>> /\ held' = held /\ free' = free
    BY <1>1 DEF vars
  <2>2. HeldOK'
    BY <2>1 DEF LifecycleInv, HeldOK
  <2>3. \A x \in Blocks : Somewhere(x) => Somewhere(x)'
    BY <2>1 DEF Somewhere
  <2>4. QED
    BY <2>1, <2>2, <2>3, StillSomewhere, BlocksMove
<1>2. ASSUME NEW a \in Allocators, AllocatorCreate(a) \/ AllocatorDestroy(a)
      PROVE  LifecycleInv'
  BY <1>2, AllocatorCreateKeeps, AllocatorDestroyKeeps
<1>3. ASSUME NEW t \in Threads, Step(t)
      PROVE  LifecycleInv'
  BY <1>3, CacheInitKeeps, WarmupAllocKeeps, WarmupMissKeeps, WarmupGiveBackKeeps,
     WarmupEndKeeps, BucketDestroyKeeps DEF Step
<1>4. ASSUME NEW t \in Threads, NEW a \in Allocators, Use(t, a)
      PROVE  LifecycleInv'
  BY <1>4, MallocCachedKeeps, MallocPoolKeeps, MallocGenericKeeps, FreeKeeps,
     FreeGenericKeeps, CacheCreateKeeps, CacheDestroyKeeps DEF Use
<1>5. QED
  BY <1>1, <1>2, <1>3, <1>4 DEF Next

(* From here on: a thread with caches keeps to the allocator they are of,    *)
(* which the code does not check (MCLifecycle_Both shows what it is for).    *)
THEOREM LifecycleInvariant == ASSUME OneAllocator PROVE Spec => []LifecycleInv
<1>1. OneAllocator /\ LifecycleInv /\ [Next]_vars => LifecycleInv'
  BY LifecycleNext
<1>2. QED
  BY <1>1, LifecycleInit, PTL DEF Spec

(* The assertions Init() of a cache begins with hold: the record is all zero, *)
(* whichever caches the thread had before and however they were destroyed.    *)
THEOREM RecordsAreZeroed == ASSUME OneAllocator PROVE Spec => []RecordsZeroed
<1>1. LifecycleInv => RecordsZeroed
  <2> SUFFICES ASSUME LifecycleInv, NEW t \in Threads
               PROVE  /\ call[t].op = "create" =>
                           \A i \in call[t].i..(MaxBucketCount - 1) : tls[t][i] = Zero
                      /\ \A b \in call[t].other : tls[t][b[2]] = Zero
    BY DEF RecordsZeroed
  <2>1. RecordsOK(t) /\ CallOK(t) /\ call[t].i \in Records
    BY DEF LifecycleInv, LifecycleTyped, CallType
  <2>2. ASSUME call[t].op = "create", NEW i \in call[t].i..(MaxBucketCount - 1)
        PROVE  tls[t][i] = Zero
    <3>1. i \in Records /\ i >= call[t].i
      BY <2>1, LifecycleConstants DEF Records
    <3>2. QED
      BY <2>1, <2>2, <3>1 DEF RecordsOK
  <2>3. ASSUME NEW b \in call[t].other PROVE tls[t][b[2]] = Zero
    <3>1. call[t].op = "other" /\ b \in PoolBlocks(call[t].a) /\ b[2] > call[t].i
      BY <2>1, <2>3 DEF CallOK
    <3>2. b[2] \in Records
      BY <3>1, BlockShape
    <3>3. QED
      BY <2>1, <3>1, <3>2 DEF RecordsOK, Warming
  <2>4. QED
    BY <2>2, <2>3
<1>2. QED
  BY <1>1, LifecycleInvariant, PTL

(* The assertion in ReleaseToCache() holds: what is cached lies in the bucket *)
(* that the cache points to.                                                  *)
THEOREM CachedIsWhereFound == ASSUME OneAllocator PROVE Spec => []CachedWhereFound
<1>1. LifecycleInv => CachedWhereFound
  <2> SUFFICES ASSUME LifecycleInv, NEW t \in Threads, NEW i \in Records, NEW b \in tls[t][i].cached
               PROVE  tls[t][i].pBucket = <<b[1], b[2]>>
    BY DEF CachedWhereFound, Records
  <2>1. RecordsOK(t) /\ tls[t][i] # Zero
    BY DEF LifecycleInv, Zero
  <2>2. IsCache(Owner(t), t, i, tls[t][i])
    BY <2>1 DEF RecordsOK
  <2>3. tls[t][i].pBucket = <<Owner(t), i>> /\ b \in PoolBlocks(Owner(t)) /\ b[2] = i
    BY <2>2 DEF IsCache
  <2>4. QED
    BY <2>3, BlockShape
<1>2. QED
  BY <1>1, LifecycleInvariant, PTL

(* _sm_malloc() never returns a block of another allocator's buffer. *)
THEOREM HeldIsOfAllocatorAsked == ASSUME OneAllocator PROVE Spec => []FromAllocatorAsked
<1>1. LifecycleInv => FromAllocatorAsked
  BY BlockShape, GenericShape DEF LifecycleInv, HeldOK, FromAllocatorAsked
<1>2. QED
  BY <1>1, LifecycleInvariant, PTL

(* No cache outlives the pool it points to or the stack it keeps. *)
THEOREM CachesNeverDangle == ASSUME OneAllocator PROVE Spec => []NothingDangles
<1>1. LifecycleInv => NothingDangles
  <2> SUFFICES ASSUME LifecycleInv, NEW t \in Threads, NEW i \in Records, tls[t][i].pBucket # None
               PROVE  state[tls[t][i].pBucket[1]] = "alive" /\ tls[t][i].stack \in heap
    BY DEF NothingDangles, Records
  <2>1. RecordsOK(t) /\ OwnersAlive /\ HeapOK /\ tls[t][i] # Zero
    BY DEF LifecycleInv, Zero
  <2>2. Owner(t) # None /\ tls[t][i].pBucket = <<Owner(t), i>>
    BY <2>1 DEF RecordsOK, IsCache
  <2>3. QED
    BY <2>1, <2>2 DEF OwnersAlive, HeapOK
<1>2. QED
  BY <1>1, LifecycleInvariant, PTL

(* With no allocator alive malloc has back all that the library took. *)
THEOREM HeapIsReturned == ASSUME OneAllocator PROVE Spec => []NothingLeaks
<1>1. LifecycleInv => NothingLeaks
  <2> SUFFICES ASSUME LifecycleInv, \A a \in Allocators : state[a] # "alive", NEW x \in heap
               PROVE  FALSE
    BY DEF NothingLeaks
  <2>1. OwnersAlive /\ HeapOK /\ \A t \in Threads : RecordsOK(t)
    BY DEF LifecycleInv
  <2>2. \A t \in Threads : Owner(t) \in Allocators \union {None}
    BY DEF LifecycleInv, LifecycleTyped, CallType, Owner
  <2>3. \A t \in Threads, i \in Records : tls[t][i] = Zero
    BY <2>1, <2>2 DEF OwnersAlive, RecordsOK
  <2>4. QED
    BY <2>1, <2>3 DEF HeapOK
<1>2. QED
  BY <1>1, LifecycleInvariant, PTL

(* An allocator that nobody has blocks, caches or calls of has all its blocks *)
(* in its pools.                                                              *)
THEOREM BlocksComeBack == ASSUME OneAllocator PROVE Spec => []BlocksReturn
<1>1. LifecycleInv => BlocksReturn
  <2> SUFFICES ASSUME LifecycleInv, NEW a \in Allocators, state[a] = "alive", MayDestroy(a),
                      NEW b \in PoolBlocks(a)
               PROVE  b \in free
    BY DEF BlocksReturn
  <2>1. Somewhere(b) /\ \A t \in Threads : CallOK(t) /\ RecordsOK(t)
    BY DEF LifecycleInv, NoneLost
  <2>2. b[1] = a
    BY BlockShape
  <2>3. ASSUME NEW h \in held PROVE h[1] # b
    <3>1. h[2] # a /\ h[1] \in PoolBlocks(h[2]) \union GenericBlocks
      BY DEF MayDestroy, LifecycleInv, HeldOK
    <3>2. h[1][1] \in {h[2], "malloc"}
      BY <3>1, BlockShape, GenericShape
    <3>3. QED
      BY <2>2, <3>1, <3>2, LifecycleConstants
  <2>4. ASSUME NEW t \in Threads PROVE b \notin call[t].chain /\ b \notin call[t].other
    <3>1. call[t].a # a
      BY DEF MayDestroy
    <3>2. \A x \in call[t].chain : x[1] = call[t].a
      BY <2>1, BlockShape DEF CallOK
    <3>3. \A x \in call[t].other : x[1] = call[t].a
      BY <2>1, BlockShape DEF CallOK
    <3>4. QED
      BY <2>2, <3>1, <3>2, <3>3
  <2>5. ASSUME NEW t \in Threads, NEW i \in Records PROVE b \notin tls[t][i].cached
    <3>1. Owner(t) # a
      BY DEF MayDestroy, Owner
    <3>2. \A x \in tls[t][i].cached : x[1] = Owner(t)
      BY <2>1, BlockShape DEF RecordsOK, IsCache, Zero
    <3>3. QED
      BY <2>2, <3>1, <3>2
  <2>6. QED
    BY <2>1, <2>3, <2>4, <2>5 DEF Somewhere
<1>2. QED
  BY <1>1, LifecycleInvariant, PTL
=============================================================================
