-------------------------- MODULE ThreadTestsProofs --------------------------
(***************************************************************************)
(* What the tests of the repository expect of the caches holds for any     *)
(* number of workers, blocks, slots and passes, and caches of any size: a  *)
(* drain finds every block, and a test ends with a whole bucket.  As in    *)
(* ThreadCacheProofs.tla the caches are over a pool that keeps the promise *)
(* of BlockPool.tla, also for the chains of a flush.                       *)
(***************************************************************************)
EXTENDS ThreadTests, ThreadCacheProofs, FiniteSetTheorems

Pointers == Blocks \union {Elsewhere}

(* The blocks that a sequence of pointers points to. *)
BlocksIn(s) == Range(s) \intersect Blocks

(* No two of them point to the same block. *)
NoAlias(s) == \A i, j \in DOMAIN s : s[i] = s[j] /\ s[i] # Elsewhere => i = j

(* What the program holds is what its threads have pointers to, each block  *)
(* in one slot of one thread.                                               *)
PointersInv ==
  /\ ptrs \in [Threads -> Seq(Pointers)]
  /\ \A t \in Threads : NoAlias(ptrs[t])
  /\ \A t, u \in Threads : t # u => BlocksIn(ptrs[t]) \intersect BlocksIn(ptrs[u]) = {}
  /\ \A b : b \in held <=> \E t \in Threads : b \in BlocksIn(ptrs[t])

(* The way of each thread through its test. *)
PhasesOf(t) ==
  CASE t = Main /\ test = "StressTest" -> {"join", "drain", "count", "release", "end"}
    [] t = Main /\ test = "PerfTest" -> {"open", "join", "end"}
    [] t = Main /\ test = "MegaAlloc" ->
         {"start", "drain", "count", "release", "finish", "exit", "end"}
    [] t = Main /\ test = "Benchmark" ->
         {"start", "ring", "unring", "release", "finish", "exit", "end"}
    [] t # Main /\ test = "StressTest" ->
         {"start", "fill", "release", "finish", "exit", "done"}
    [] t # Main /\ test = "PerfTest" ->
         {"start", "gate", "fill", "churn", "refill", "release", "finish", "exit", "done"}
    [] OTHER -> {"done"}

(* A thread between its calls and without a cache. *)
Bare(t) == pc[t] = "idle" /\ maxElementsCount[t] = 0

(* What a thread has at each point of its test. *)
Along(t) ==
  /\ phase[t] \in PhasesOf(t)
  /\ phase[t] \in {"churn", "unring", "count", "release"} => ptrs[t] # <<>>
  /\ phase[t] \in {"open", "join", "finish", "exit", "done", "end"} => ptrs[t] = <<>>
  /\ phase[t] = "start" /\ test # "Benchmark" => ptrs[t] = <<>>
  /\ phase[t] \in {"start", "open", "join", "done", "end"} => Bare(t)
  /\ phase[t] = "exit" => pc[t] = "destroy" \/ Bare(t)
  /\ phase[t] = "drain" => Elsewhere \notin Range(ptrs[t])
  /\ phase[t] = "count" => Len(ptrs[t]) = Cardinality(Blocks) + 1
  /\ t = Main /\ test = "StressTest" => maxElementsCount[t] = 0 /\ pc[t] \in {"idle", "free"}
  /\ t = Main /\ test = "StressTest" /\ phase[t] \in {"count", "release"} => Last(ptrs[t]) = Elsewhere

(* Main is alone but while its workers run. *)
MainLast ==
  phase[Main] \notin {"open", "join"} => \A t \in Workers : phase[t] = "done"

TestInv ==
  /\ OwnInv
  /\ PointersInv
  /\ test \in {"StressTest", "PerfTest", "MegaAlloc", "Benchmark"}
  /\ phase = [t \in Threads |-> phase[t]]
  /\ \A t \in Threads : Along(t)
  /\ MainLast
-----------------------------------------------------------------------------
(* A pointer in the next slot. *)
LEMMA Stored ==
  ASSUME NEW s \in Seq(Pointers), NEW p \in Pointers, NoAlias(s), p \notin BlocksIn(s)
  PROVE  /\ Append(s, p) \in Seq(Pointers) /\ NoAlias(Append(s, p))
         /\ BlocksIn(Append(s, p)) = BlocksIn(s) \union ({p} \intersect Blocks)
         /\ Append(s, p) # <<>> /\ Last(Append(s, p)) = p /\ Len(Append(s, p)) = Len(s) + 1
         /\ Range(Append(s, p)) = Range(s) \union {p}
<1> DEFINE a == Append(s, p)
           n == Len(s)
<1>1. /\ n \in Nat /\ DOMAIN s = 1..n /\ a \in Seq(Pointers) /\ Len(a) = n + 1
      /\ DOMAIN a = 1..(n + 1) /\ a # <<>> /\ a[n + 1] = p
      /\ \A i \in 1..n : a[i] = s[i]
  BY AppendProperties
<1>2. /\ \A i \in 1..(n + 1) : i \in 1..n \/ i = n + 1
      /\ \A i \in 1..n : i \in 1..(n + 1)
      /\ n + 1 \in 1..(n + 1)
  BY <1>1
<1>3. \A i \in 1..n : s[i] \in Pointers
  BY <1>1
<1> HIDE DEF a, n
<1> DEFINE m == n + 1
<1>4. /\ DOMAIN a = 1..m /\ a[m] = p /\ m \in 1..m
      /\ \A i \in 1..m : i \in 1..n \/ i = m
      /\ \A i \in 1..n : i \in 1..m
  BY <1>1, <1>2
<1> HIDE DEF m
<1>5. Range(a) = Range(s) \union {p}
  BY <1>1, <1>4 DEF Range
<1>6. NoAlias(a)
  <2>1. p # Elsewhere => \A i \in 1..n : s[i] # p
    BY <1>1 DEF BlocksIn, Range, Pointers
  <2>2. QED
    BY <1>1, <1>4, <2>1 DEF NoAlias
<1>7. BlocksIn(a) = BlocksIn(s) \union ({p} \intersect Blocks)
  BY <1>5 DEF BlocksIn
<1>8. Last(a) = p
  BY <1>1 DEF Last
<1>9. QED
  BY <1>1, <1>5, <1>6, <1>7, <1>8 DEF a, n

(* The first slot is given up. *)
LEMMA Dropped ==
  ASSUME NEW s \in Seq(Pointers), NoAlias(s), s # <<>>
  PROVE  /\ Head(s) \in Pointers /\ Head(s) = s[1] /\ Tail(s) \in Seq(Pointers)
         /\ NoAlias(Tail(s))
         /\ BlocksIn(Tail(s)) = BlocksIn(s) \ {Head(s)}
         /\ Tail(s) # <<>> => Last(Tail(s)) = Last(s)
         /\ Tail(s) = <<>> => Head(s) = Last(s)
         /\ \A k \in DOMAIN Tail(s) : \E j \in DOMAIN s : Tail(s)[k] = s[j]
<1> DEFINE r == Tail(s)
           n == Len(s)
<1>1. /\ n \in Nat \ {0} /\ DOMAIN s = 1..n /\ Head(s) = s[1]
      /\ r \in Seq(Pointers) /\ Len(r) = n - 1 /\ DOMAIN r = 1..(n - 1)
      /\ Head(s) \in Pointers
  BY EmptySeq, HeadTailProperties
<1>2. \A i \in 1..(n - 1) : i + 1 \in 1..n /\ i + 1 # 1 /\ r[i] = s[i + 1]
  BY <1>1, HeadTailProperties
<1>3. ASSUME NEW j \in 1..n, j # 1 PROVE \E i \in 1..(n - 1) : j = i + 1
  <2>1. j - 1 \in 1..(n - 1) /\ j = (j - 1) + 1
    BY <1>1, <1>3
  <2>2. QED
    BY <2>1
<1> DEFINE up == [i \in 1..(n - 1) |-> i + 1]
<1>4. /\ \A i \in DOMAIN r : up[i] \in DOMAIN s /\ up[i] # 1 /\ r[i] = s[up[i]]
      /\ \A j \in DOMAIN s : j = 1 \/ \E i \in DOMAIN r : j = up[i]
      /\ \A i, j \in DOMAIN r : up[i] = up[j] => i = j
  <2>1. \A i \in 1..(n - 1) : up[i] = i + 1
    OBVIOUS
  <2>2. \A i, j \in 1..(n - 1) : i + 1 = j + 1 => i = j
    BY <1>1
  <2> HIDE DEF up
  <2>3. \A i \in 1..(n - 1) : up[i] \in 1..n /\ up[i] # 1 /\ r[i] = s[up[i]]
    BY <1>2, <2>1
  <2>4. \A j \in 1..n : j = 1 \/ \E i \in 1..(n - 1) : j = up[i]
    BY <1>3, <2>1
  <2>5. \A i, j \in 1..(n - 1) : up[i] = up[j] => i = j
    BY <2>1, <2>2
  <2> HIDE DEF r, n
  <2>6. QED
    BY <1>1, <2>3, <2>4, <2>5
<1>5. 1 \in DOMAIN s
  BY <1>1
<1>6. Last(s) = s[n] /\ (r # <<>> => Last(r) = s[n]) /\ (r = <<>> => n = 1)
  <2>1. Last(s) = s[n]
    BY DEF Last
  <2>2. CASE r # <<>>
    <3>1. n - 1 \in 1..(n - 1) /\ (n - 1) + 1 = n
      BY <1>1, <2>2, EmptySeq
    <3>2. QED
      BY <1>1, <1>2, <2>1, <2>2, <3>1 DEF Last
  <2>3. CASE r = <<>>
    <3>1. n - 1 = 0
      BY <1>1, <2>3
    <3>2. QED
      BY <1>1, <2>1, <2>3, <3>1
  <2>4. QED
    BY <2>2, <2>3, <2>1
<1> HIDE DEF r, n, up
<1>7. NoAlias(r)
  BY <1>4 DEF NoAlias
<1>8. BlocksIn(r) = BlocksIn(s) \ {s[1]}
  <2>1. ASSUME NEW b \in BlocksIn(r) PROVE b \in BlocksIn(s) \ {s[1]}
    <3>1. PICK i \in DOMAIN r : b = r[i]
      BY DEF BlocksIn, Range
    <3>2. b = s[up[i]] /\ up[i] \in DOMAIN s /\ up[i] # 1 /\ b \in Blocks
      BY <1>4, <3>1 DEF BlocksIn
    <3>3. b # Elsewhere
      BY <3>2, TestConstants DEF Elsewhere
    <3>4. b # s[1]
      BY <1>5, <3>2, <3>3 DEF NoAlias
    <3>5. QED
      BY <3>2, <3>4 DEF BlocksIn, Range
  <2>2. ASSUME NEW b \in BlocksIn(s), b # s[1] PROVE b \in BlocksIn(r)
    BY <1>4, <2>2 DEF BlocksIn, Range
  <2>3. QED
    BY <2>1, <2>2
<1>9. QED
  BY <1>1, <1>4, <1>6, <1>7, <1>8 DEF r
-----------------------------------------------------------------------------
(* What a thread does with the allocator leaves the other threads where      *)
(* they are.                                                                 *)
OthersWait(t) ==
  \A u \in Threads : u # t => pc'[u] = pc[u] /\ maxElementsCount'[u] = maxElementsCount[u]

LEMMA CallMoves ==
  ASSUME OwnInv, NEW t \in Threads, Call(t) \/ Step(t) \/ UNCHANGED cacheVars
  PROVE  OwnInv' /\ OthersWait(t)
<1>1. OwnInv'
  BY OwnNext DEF Next, cacheVars
<1>2. ASSUME UNCHANGED <<pc, maxElementsCount>> PROVE OthersWait(t)
  BY <1>2 DEF OthersWait
<1>3. ASSUME NEW p, NEW m, pc' = [pc EXCEPT ![t] = p],
             maxElementsCount' \in {maxElementsCount, [maxElementsCount EXCEPT ![t] = m]}
      PROVE  OthersWait(t)
  BY <1>3 DEF OthersWait, OwnInv, CacheInv, CacheTyped
<1>4. CASE Call(t)
  <2>1. ASSUME AllocL0(t) \/ AllocL1(t) PROVE OthersWait(t)
    BY <1>2, <2>1 DEF AllocL0, AllocL1
  <2>2. ASSUME NEW b \in Blocks, AllocOverflow(t, b) \/ FreeL0(t, b) \/ FreeL1(t, b) PROVE OthersWait(t)
    BY <1>2, <2>2 DEF AllocOverflow, FreeL0, FreeL1, cache
  <2>3. ASSUME NEW b \in Blocks, FreePool(t, b) PROVE OthersWait(t)
    BY <1>3, <2>3 DEF FreePool, cache
  <2>4. ASSUME NEW b \in Blocks, FreeFlush(t, b) PROVE OthersWait(t)
    BY <1>3, <2>4 DEF FreeFlush
  <2>5. ASSUME NEW max \in CacheSizes, CreateThreadCache(t, max) PROVE OthersWait(t)
    BY <1>3, <2>5 DEF CreateThreadCache
  <2>6. ASSUME DestroyThreadCache(t) PROVE OthersWait(t)
    BY <1>3, <2>6 DEF DestroyThreadCache
  <2>7. QED
    BY <1>1, <1>4, <2>1, <2>2, <2>3, <2>4, <2>5, <2>6 DEF Call, AllocPool
<1>5. CASE Step(t)
  <2>1. ASSUME FreePoolEnd(t) PROVE OthersWait(t)
    BY <1>3, <2>1 DEF FreePoolEnd, cache
  <2>2. ASSUME FreeFlushEnd(t) PROVE OthersWait(t)
    BY <1>3, <2>2 DEF FreeFlushEnd
  <2>3. ASSUME NEW b \in Blocks, WarmupAlloc(t, b) PROVE OthersWait(t)
    BY <1>2, <2>3 DEF WarmupAlloc, cache
  <2>4. ASSUME WarmupEnd(t) PROVE OthersWait(t)
    BY <1>3, <2>4 DEF WarmupEnd
  <2>5. ASSUME WarmupReturn(t) PROVE OthersWait(t)
    BY <1>3, <2>5 DEF WarmupReturn, cache
  <2>6. ASSUME DestroyEnd(t) PROVE OthersWait(t)
    BY <1>3, <2>6 DEF DestroyEnd
  <2>7. QED
    BY <1>1, <1>5, <2>1, <2>2, <2>3, <2>4, <2>5, <2>6 DEF Step
<1>6. CASE UNCHANGED cacheVars
  BY <1>1, <1>2, <1>6 DEF cacheVars, vars
<1>7. QED
  BY <1>4, <1>5, <1>6

(* Pointers of one thread change, and what the program holds with them. *)
LEMMA PointersMove ==
  ASSUME PointersInv, NEW t \in Threads, NEW s \in Seq(Pointers), NoAlias(s),
         ptrs' = [ptrs EXCEPT ![t] = s],
         \A u \in Threads : u # t => BlocksIn(s) \intersect BlocksIn(ptrs[u]) = {},
         \A b : b \in held' <=> (b \in held /\ b \notin BlocksIn(ptrs[t])) \/ b \in BlocksIn(s)
  PROVE  PointersInv'
<1>1. /\ ptrs' \in [Threads -> Seq(Pointers)] /\ ptrs'[t] = s
      /\ \A u \in Threads : u # t => ptrs'[u] = ptrs[u]
  BY DEF PointersInv
<1>2. \A u \in Threads : NoAlias(ptrs'[u])
  BY <1>1 DEF PointersInv
<1>3. \A u, v \in Threads : u # v => BlocksIn(ptrs'[u]) \intersect BlocksIn(ptrs'[v]) = {}
  BY <1>1 DEF PointersInv
<1>4. ASSUME NEW b PROVE b \in held' <=> \E u \in Threads : b \in BlocksIn(ptrs'[u])
  BY <1>1 DEF PointersInv
<1>5. QED
  BY <1>1, <1>2, <1>3, <1>4 DEF PointersInv

(* _sm_malloc() returns a block that nobody has a pointer to, or one of      *)
(* another bucket when the cache and the pool are empty.                     *)
LEMMA MallocMoves ==
  ASSUME OwnInv, PointersInv, NEW t \in Threads, Malloc(t)
  PROVE  /\ OwnInv' /\ OthersWait(t) /\ PointersInv'
         /\ pc[t] = "idle" /\ pc' = pc /\ maxElementsCount' = maxElementsCount
         /\ \E p \in Pointers :
              /\ p \notin BlocksIn(ptrs[t])
              /\ ptrs' = [ptrs EXCEPT ![t] = Append(ptrs[t], p)]
              /\ p = Elsewhere => L0[t] = <<>> /\ L1[t] = <<>> /\ free = {}
<1>1. ASSUME NEW p \in Pointers, p \notin held, held' = held \union ({p} \intersect Blocks),
             ptrs' = [ptrs EXCEPT ![t] = Append(ptrs[t], p)]
      PROVE  PointersInv' /\ p \notin BlocksIn(ptrs[t])
  <2>1. \A u \in Threads : p \notin BlocksIn(ptrs[u])
    BY <1>1 DEF PointersInv
  <2> DEFINE s == Append(ptrs[t], p)
  <2>2. /\ s \in Seq(Pointers) /\ NoAlias(s)
        /\ BlocksIn(s) = BlocksIn(ptrs[t]) \union ({p} \intersect Blocks)
    BY <2>1, Stored DEF PointersInv
  <2>3. ptrs' = [ptrs EXCEPT ![t] = s]
    BY <1>1
  <2> HIDE DEF s
  <2>4. \A u \in Threads : u # t => BlocksIn(s) \intersect BlocksIn(ptrs[u]) = {}
    BY <2>1, <2>2 DEF PointersInv
  <2>5. \A b : b \in held' <=> (b \in held /\ b \notin BlocksIn(ptrs[t])) \/ b \in BlocksIn(s)
    BY <1>1, <2>2 DEF PointersInv
  <2>6. QED
    BY <2>1, <2>2, <2>3, <2>4, <2>5, PointersMove
<1>2. ASSUME NEW p, Store(t, p) PROVE ptrs' = [ptrs EXCEPT ![t] = Append(ptrs[t], p)]
  BY <1>2 DEF Store
<1>3. CASE AllocL0(t) /\ Store(t, Last(L0[t]))
  <2>1. Call(t) /\ pc[t] = "idle" /\ UNCHANGED <<pc, maxElementsCount>>
    BY <1>3 DEF Call, AllocL0
  <2>2. Last(L0[t]) \in Range(L0[t]) /\ L0[t] \in Seq(Blocks) /\ Apart(t)
    BY <1>3, Now, FrontLoses DEF AllocL0, Whole
  <2>3. Last(L0[t]) \in Blocks /\ Last(L0[t]) \notin held
    BY <2>2 DEF Range, Has, Apart
  <2>4. held' = held \union ({Last(L0[t])} \intersect Blocks)
    BY <1>3, <2>3 DEF AllocL0
  <2>5. Last(L0[t]) # Elsewhere /\ Last(L0[t]) \in Pointers
    BY <2>3, TestConstants DEF Elsewhere, Pointers
  <2>6. QED
    BY <1>1, <1>2, <1>3, <2>1, <2>3, <2>4, <2>5, CallMoves
<1>4. CASE AllocL1(t) /\ Store(t, Last(L1[t]))
  <2>1. Call(t) /\ pc[t] = "idle" /\ UNCHANGED <<pc, maxElementsCount>>
    BY <1>4 DEF Call, AllocL1
  <2>2. Last(L1[t]) \in Range(L1[t]) /\ L1[t] \in Seq(Blocks) /\ Apart(t)
    BY <1>4, Now, FrontLoses DEF AllocL1, Whole
  <2>3. Last(L1[t]) \in Blocks /\ Last(L1[t]) \notin held
    BY <2>2 DEF Range, Has, Apart
  <2>4. held' = held \union ({Last(L1[t])} \intersect Blocks)
    BY <1>4, <2>3 DEF AllocL1
  <2>5. Last(L1[t]) # Elsewhere /\ Last(L1[t]) \in Pointers
    BY <2>3, TestConstants DEF Elsewhere, Pointers
  <2>6. QED
    BY <1>1, <1>2, <1>4, <2>1, <2>3, <2>4, <2>5, CallMoves
<1>5. ASSUME NEW b \in Blocks, AllocPool(t, b), Store(t, b)
      PROVE  /\ OwnInv' /\ OthersWait(t) /\ PointersInv'
             /\ pc[t] = "idle" /\ pc' = pc /\ maxElementsCount' = maxElementsCount
             /\ b \in Pointers /\ b # Elsewhere /\ b \notin BlocksIn(ptrs[t])
             /\ ptrs' = [ptrs EXCEPT ![t] = Append(ptrs[t], b)]
  <2>1. Call(t) /\ pc[t] = "idle" /\ UNCHANGED <<pc, maxElementsCount>>
    BY <1>5 DEF Call, AllocPool, AllocOverflow, cache
  <2>2. b \in free /\ b \notin held
    BY <1>5, Now DEF AllocPool, AllocOverflow, Pool!Alloc
  <2>3. held' = held \union ({b} \intersect Blocks)
    BY <1>5 DEF AllocPool, AllocOverflow
  <2>4. b # Elsewhere /\ b \in Pointers
    BY TestConstants DEF Elsewhere, Pointers
  <2>5. QED
    BY <1>1, <1>2, <1>5, <2>1, <2>2, <2>3, <2>4, CallMoves
<1>6. CASE /\ pc[t] = "idle" /\ L0[t] = <<>> /\ L1[t] = <<>> /\ free = {}
           /\ Store(t, Elsewhere) /\ UNCHANGED cacheVars
  <2>1. pc' = pc /\ maxElementsCount' = maxElementsCount /\ held' = held
    BY <1>6 DEF cacheVars, vars
  <2>2. Elsewhere \in Pointers /\ Elsewhere \notin Blocks
    BY TestConstants DEF Elsewhere, Pointers
  <2>3. Elsewhere \notin held /\ held' = held \union ({Elsewhere} \intersect Blocks)
    BY <2>1, <2>2, Now
  <2>4. QED
    BY <1>1, <1>2, <1>6, <2>1, <2>2, <2>3, CallMoves
<1>7. QED
  BY <1>3, <1>4, <1>5, <1>6 DEF Malloc

(* _sm_free() of the pointer in the first slot takes its block from what the *)
(* program holds; a pointer to another bucket does nothing here.             *)
LEMMA FreeMoves ==
  ASSUME OwnInv, PointersInv, NEW t \in Threads, ptrs[t] # <<>>, FreeNext(t)
  PROVE  /\ OwnInv' /\ OthersWait(t) /\ PointersInv'
         /\ pc[t] = "idle" /\ maxElementsCount' = maxElementsCount
         /\ ptrs' = [ptrs EXCEPT ![t] = Tail(ptrs[t])]
         /\ Head(ptrs[t]) = Elsewhere => pc' = pc
         /\ maxElementsCount[t] = 0 => pc'[t] \in {"idle", "free"}
<1> DEFINE p == Head(ptrs[t])
           s == Tail(ptrs[t])
<1>1. /\ p \in Pointers /\ s \in Seq(Pointers) /\ NoAlias(s)
      /\ BlocksIn(s) = BlocksIn(ptrs[t]) \ {p}
  BY Dropped DEF PointersInv
<1>2. pc[t] = "idle" /\ ptrs' = [ptrs EXCEPT ![t] = s]
  BY DEF FreeNext
<1>3. ASSUME held' = held \ {p}
      PROVE  PointersInv'
  <2> HIDE DEF s, p
  <2>1. \A u \in Threads : u # t => BlocksIn(s) \intersect BlocksIn(ptrs[u]) = {}
    BY <1>1 DEF PointersInv
  <2>2. \A b : b \in held' <=> (b \in held /\ b \notin BlocksIn(ptrs[t])) \/ b \in BlocksIn(s)
    <3>1. PICK q : q = p
      OBVIOUS
    <3>2. held' = held \ {q}
      BY <1>3, <3>1
    <3>3. q \in Blocks => q \in BlocksIn(ptrs[t])
      <4>1. Head(ptrs[t]) = ptrs[t][1] /\ 1 \in DOMAIN ptrs[t]
        BY EmptySeq DEF PointersInv
      <4>2. QED
        BY <3>1, <4>1 DEF p, BlocksIn, Range
    <3>4. BlocksIn(ptrs[t]) \subseteq held /\ held \subseteq Blocks
      BY Now DEF PointersInv
    <3>5. QED
      BY <1>1, <3>1, <3>2, <3>3, <3>4
  <2>3. QED
    BY <1>1, <1>2, <2>1, <2>2, PointersMove
<1>4. CASE p = Elsewhere
  <2>1. UNCHANGED cacheVars
    BY <1>4 DEF FreeNext
  <2>2. pc' = pc /\ maxElementsCount' = maxElementsCount /\ held' = held
    BY <2>1 DEF cacheVars, vars
  <2>3. p \notin held
    BY <1>4, TestConstants, Now DEF Elsewhere
  <2>4. held' = held \ {p}
    BY <2>2, <2>3
  <2>5. QED
    BY <1>2, <1>3, <2>1, <2>2, <2>4, CallMoves
<1>5. CASE p # Elsewhere
  <2>1. p \in Blocks
    BY <1>1, <1>5 DEF Pointers
  <2>2. FreePool(t, p) \/ FreeL0(t, p) \/ FreeL1(t, p) \/ FreeFlush(t, p)
    BY <1>5 DEF FreeNext
  <2>3. Call(t)
    BY <2>1, <2>2 DEF Call
  <2>4. PICK q \in Blocks : q = p
    BY <2>1
  <2>5. FreePool(t, q) \/ FreeL0(t, q) \/ FreeL1(t, q) \/ FreeFlush(t, q)
    BY <2>2, <2>4
  <2>6. held' = held \ {q} /\ maxElementsCount' = maxElementsCount
    BY <2>5 DEF FreePool, FreeL0, FreeL1, FreeFlush, cache
  <2>7. ASSUME maxElementsCount[t] = 0 PROVE pc'[t] \in {"idle", "free"}
    <3>1. FreePool(t, q)
      BY <2>5, <2>7 DEF FreeL0, FreeL1, FreeFlush
    <3>2. QED
      BY <3>1, Now DEF FreePool
  <2>8. held' = held \ {p}
    BY <2>4, <2>6
  <2>9. QED
    BY <1>2, <1>3, <1>5, <2>3, <2>6, <2>7, <2>8, CallMoves
<1>6. QED
  BY <1>4, <1>5

(* The steps within a call change nothing of what the program holds. *)
LEMMA StepMoves ==
  ASSUME OwnInv, NEW t \in Threads, Step(t)
  PROVE  /\ OwnInv' /\ OthersWait(t) /\ held' = held
         /\ pc[t] # "idle"
         /\ pc[t] = "free" => pc'[t] = "idle" /\ maxElementsCount'[t] = maxElementsCount[t]
         /\ pc[t] = "destroy" => Bare(t)'
<1>1. OwnInv' /\ OthersWait(t)
  BY CallMoves
<1>2. pc \in [Threads -> Phases] /\ maxElementsCount \in [Threads -> CacheSizes \union {0}]
  BY DEF OwnInv, CacheInv, CacheTyped
<1>3. CASE FreePoolEnd(t)
  BY <1>1, <1>2, <1>3 DEF FreePoolEnd, cache
<1>4. CASE FreeFlushEnd(t)
  BY <1>1, <1>4 DEF FreeFlushEnd
<1>5. ASSUME NEW b \in Blocks, WarmupAlloc(t, b)
      PROVE  held' = held /\ pc[t] = "warmup"
  BY <1>5 DEF WarmupAlloc
<1>6. CASE WarmupEnd(t) \/ WarmupReturn(t)
  BY <1>1, <1>6 DEF WarmupEnd, WarmupReturn
<1>7. CASE DestroyEnd(t)
  BY <1>1, <1>2, <1>7 DEF DestroyEnd, Bare
<1>8. QED
  BY <1>1, <1>3, <1>4, <1>5, <1>6, <1>7 DEF Step

LEMMA PointersStay ==
  ASSUME PointersInv, held' = held, ptrs' = ptrs
  PROVE  PointersInv'
BY DEF PointersInv
-----------------------------------------------------------------------------
(* One thread goes on in its test: what it has is all there is to show.      *)
LEMMA TestMoves ==
  ASSUME TestInv, NEW t \in Threads, OwnInv', PointersInv', OthersWait(t), test' = test,
         phase' = [phase EXCEPT ![t] = phase'[t]],
         \A u \in Threads : u # t => ptrs'[u] = ptrs[u],
         Along(t)',
         phase[t] # "done",
         t = Main /\ phase[Main] \in {"open", "join"} =>
           phase'[Main] = "join" \/ \A w \in Workers : phase[w] = "done"
  PROVE  TestInv'
<1>1. /\ phase' = [u \in Threads |-> phase'[u]]
      /\ \A u \in Threads : u # t => phase'[u] = phase[u]
  BY DEF TestInv
<1>2. ASSUME NEW u \in Threads, u # t PROVE Along(u)'
  <2>1. Along(u) /\ phase'[u] = phase[u] /\ ptrs'[u] = ptrs[u]
    BY <1>1, <1>2 DEF TestInv
  <2>2. pc'[u] = pc[u] /\ maxElementsCount'[u] = maxElementsCount[u]
    BY <1>2 DEF OthersWait
  <2>3. Bare(u)' <=> Bare(u)
    BY <2>2 DEF Bare
  <2>4. PhasesOf(u)' = PhasesOf(u)
    BY DEF PhasesOf
  <2>5. QED
    BY <2>1, <2>2, <2>3, <2>4 DEF Along
<1>3. MainLast'
  <2>1. MainLast /\ Main \in Threads
    BY TestConstants DEF TestInv
  <2>2. CASE t = Main
    <3>1. \A w \in Workers : phase'[w] = phase[w]
      BY <1>1, <2>2 DEF Workers
    <3>2. QED
      BY <2>1, <2>2, <3>1 DEF MainLast
  <2>3. CASE t # Main
    <3>1. phase[Main] \in {"open", "join"}
      BY <2>1, <2>3 DEF MainLast, Workers
    <3>2. QED
      BY <1>1, <2>1, <2>3, <3>1 DEF MainLast
  <2>4. QED
    BY <2>2, <2>3
<1>4. QED
  BY <1>1, <1>2, <1>3 DEF TestInv

(* What is known of a thread before it goes on. *)
LEMMA Before ==
  ASSUME TestInv, NEW t \in Threads
  PROVE  /\ OwnInv /\ PointersInv /\ Along(t)
         /\ ptrs[t] \in Seq(Pointers) /\ NoAlias(ptrs[t])
         /\ test \in {"StressTest", "PerfTest", "MegaAlloc", "Benchmark"}
         /\ phase = [u \in Threads |-> phase[u]]
BY DEF TestInv, PointersInv

(* Goto() moves one thread. *)
LEMMA Gone ==
  ASSUME TestInv, NEW t \in Threads, NEW there, Goto(t, there)
  PROVE  phase'[t] = there /\ phase' = [phase EXCEPT ![t] = phase'[t]]
<1>1. phase' = [phase EXCEPT ![t] = there] /\ phase = [u \in Threads |-> phase[u]]
  BY DEF Goto, TestInv
<1>2. phase'[t] = there
  BY <1>1
<1>3. QED
  BY <1>1, <1>2

-----------------------------------------------------------------------------
LEMMA WorkKeeps ==
  ASSUME TestInv, NEW t \in Threads, Work(t)
  PROVE  TestInv'
<1>1. Step(t) /\ test' = test /\ phase' = phase /\ ptrs' = ptrs
  BY DEF Work
<1>2. /\ OwnInv' /\ OthersWait(t) /\ held' = held /\ pc[t] # "idle"
      /\ pc[t] = "free" => pc'[t] = "idle" /\ maxElementsCount'[t] = maxElementsCount[t]
      /\ pc[t] = "destroy" => Bare(t)'
  BY <1>1, StepMoves, Before
<1>3. PointersInv'
  BY <1>1, <1>2, PointersStay, Before
<1>4. Along(t) /\ ~Bare(t)
  BY <1>2, Before DEF Bare
<1>5. PhasesOf(t)' = PhasesOf(t)
  BY <1>1 DEF PhasesOf
<1>6. Along(t)'
  BY <1>1, <1>2, <1>4, <1>5 DEF Along
<1>7. phase[t] \notin {"done", "open", "join"}
  BY <1>4 DEF Along
<1>8. phase' = [phase EXCEPT ![t] = phase'[t]]
  BY <1>1, Before
<1>9. QED
  BY <1>1, <1>2, <1>3, <1>6, <1>7, <1>8, TestMoves

LEMMA StartKeeps ==
  ASSUME TestInv, NEW t \in Threads, Start(t)
  PROVE  TestInv'
<1>1. PICK max \in CacheSizes : CreateThreadCache(t, max)
  BY DEF Start
<1>2. /\ phase[t] = "start" /\ test' = test /\ ptrs' = ptrs /\ held' = held
  BY <1>1 DEF Start, CreateThreadCache
<1>3. OwnInv' /\ OthersWait(t)
  BY <1>1, CallMoves, Before DEF Call
<1>4. PointersInv'
  BY <1>2, PointersStay, Before
<1>5. /\ phase' = [phase EXCEPT ![t] = phase'[t]]
      /\ phase'[t] = CASE test = "StressTest" -> "fill"
                       [] test = "PerfTest" -> "gate"
                       [] test = "MegaAlloc" -> "drain"
                       [] test = "Benchmark" -> "ring"
  BY Gone DEF Start
<1>6. /\ test \in {"StressTest", "PerfTest", "MegaAlloc", "Benchmark"}
      /\ test # "Benchmark" => ptrs[t] = <<>>
      /\ "start" \in PhasesOf(t)
  BY <1>2, Before DEF Along
<1>7. t = Main => test \notin {"StressTest", "PerfTest"}
  BY <1>6 DEF PhasesOf
<1>8. t # Main => test \in {"StressTest", "PerfTest"}
  BY <1>6 DEF PhasesOf
<1>9. Along(t)'
  <2>1. phase'[t] \in PhasesOf(t)'
    BY <1>2, <1>5, <1>6, <1>7, <1>8 DEF PhasesOf
  <2>2. phase'[t] = "drain" => Elsewhere \notin Range(ptrs'[t])
    BY <1>2, <1>5, <1>6, NoBlocks
  <2>3. phase'[t] \in {"fill", "gate", "drain", "ring"}
    BY <1>5, <1>6
  <2>4. QED
    BY <1>2, <1>7, <2>1, <2>2, <2>3 DEF Along
<1>10. QED
  BY <1>2, <1>3, <1>4, <1>5, <1>9, TestMoves

(* The steps that do not use the allocator. *)
LEMMA QuietMoves ==
  ASSUME TestInv, NEW t \in Threads, UNCHANGED <<cacheVars, test, ptrs>>
  PROVE  /\ OwnInv' /\ OthersWait(t) /\ PointersInv' /\ test' = test /\ ptrs' = ptrs
         /\ (Bare(t)' <=> Bare(t)) /\ pc' = pc /\ maxElementsCount' = maxElementsCount
         /\ PhasesOf(t)' = PhasesOf(t)
<1>1. OwnInv' /\ OthersWait(t)
  BY CallMoves, Before
<1>2. pc' = pc /\ maxElementsCount' = maxElementsCount /\ held' = held
  BY DEF cacheVars, vars
<1>3. PointersInv'
  BY <1>2, PointersStay, Before
<1>4. QED
  BY <1>1, <1>2, <1>3 DEF Bare, PhasesOf

LEMMA GateKeeps ==
  ASSUME TestInv, NEW t \in Threads, Gate(t)
  PROVE  TestInv'
<1>1. phase[t] = "gate" /\ phase'[t] = "fill" /\ phase' = [phase EXCEPT ![t] = phase'[t]]
  BY Gone DEF Gate
<1>2. /\ OwnInv' /\ OthersWait(t) /\ PointersInv' /\ test' = test /\ ptrs' = ptrs
      /\ PhasesOf(t)' = PhasesOf(t)
  BY QuietMoves DEF Gate
<1>3. "gate" \in PhasesOf(t)
  BY <1>1, Before DEF Along
<1>4. t # Main /\ test = "PerfTest"
  BY <1>3, Before DEF PhasesOf
<1>5. "fill" \in PhasesOf(t)
  BY <1>4 DEF PhasesOf
<1>6. Along(t)'
  BY <1>1, <1>2, <1>4, <1>5 DEF Along
<1>7. QED
  BY <1>1, <1>2, <1>6, TestMoves

LEMMA CountKeeps ==
  ASSUME TestInv, NEW t \in Threads, Count(t)
  PROVE  TestInv'
<1>1. /\ phase[t] = "count" /\ phase'[t] = "release"
      /\ phase' = [phase EXCEPT ![t] = phase'[t]]
  BY Gone DEF Count
<1>2. /\ OwnInv' /\ OthersWait(t) /\ PointersInv' /\ test' = test /\ ptrs' = ptrs
      /\ (Bare(t)' <=> Bare(t)) /\ PhasesOf(t)' = PhasesOf(t)
      /\ pc' = pc /\ maxElementsCount' = maxElementsCount
  BY QuietMoves DEF Count
<1>3. "count" \in PhasesOf(t)
  BY <1>1, Before DEF Along
<1>4. t = Main /\ "release" \in PhasesOf(t)
  BY <1>3, Before DEF PhasesOf
<1>5. Along(t)'
  BY <1>1, <1>2, <1>4, Before DEF Along
<1>6. QED
  BY <1>1, <1>2, <1>5, TestMoves

(* The cache of a thread that ends has been destroyed. *)
LEMMA ExitKeeps ==
  ASSUME TestInv, NEW t \in Threads, Exit(t)
  PROVE  TestInv'
<1>1. /\ phase[t] = "exit" /\ pc[t] = "idle"
      /\ phase'[t] = IF t = Main THEN "end" ELSE "done"
      /\ phase' = [phase EXCEPT ![t] = phase'[t]]
  BY Gone DEF Exit
<1>2. /\ OwnInv' /\ OthersWait(t) /\ PointersInv' /\ test' = test /\ ptrs' = ptrs
      /\ (Bare(t)' <=> Bare(t)) /\ PhasesOf(t)' = PhasesOf(t)
      /\ pc' = pc /\ maxElementsCount' = maxElementsCount
  BY QuietMoves DEF Exit
<1>3. "exit" \in PhasesOf(t) /\ Bare(t) /\ ptrs[t] = <<>>
  BY <1>1, Before DEF Along
<1>4. phase'[t] \in PhasesOf(t)
  BY <1>1, <1>3, Before DEF PhasesOf
<1>5. Along(t)'
  BY <1>1, <1>2, <1>3, <1>4, Before DEF Along
<1>6. QED
  BY <1>1, <1>2, <1>5, TestMoves

LEMMA OpenKeeps ==
  ASSUME TestInv, Open
  PROVE  TestInv'
<1>0. Main \in Threads
  BY TestConstants
<1>1. /\ phase[Main] = "open" /\ phase'[Main] = "join"
      /\ phase' = [phase EXCEPT ![Main] = phase'[Main]]
  BY <1>0, Gone DEF Open
<1>2. /\ OwnInv' /\ OthersWait(Main) /\ PointersInv' /\ test' = test /\ ptrs' = ptrs
      /\ (Bare(Main)' <=> Bare(Main)) /\ PhasesOf(Main)' = PhasesOf(Main)
      /\ pc' = pc /\ maxElementsCount' = maxElementsCount
  BY <1>0, QuietMoves DEF Open
<1>3. Along(Main) /\ "open" \in PhasesOf(Main)
  BY <1>0, <1>1, Before DEF Along
<1>4. "join" \in PhasesOf(Main)
  BY <1>0, <1>3, Before DEF PhasesOf
<1>5. Along(Main)'
  BY <1>1, <1>2, <1>3, <1>4 DEF Along
<1>6. QED
  BY <1>0, <1>1, <1>2, <1>5, TestMoves

LEMMA JoinKeeps ==
  ASSUME TestInv, Join
  PROVE  TestInv'
<1>0. Main \in Threads
  BY TestConstants
<1>1. /\ phase[Main] = "join"
      /\ phase'[Main] = IF test = "StressTest" THEN "drain" ELSE "end"
      /\ phase' = [phase EXCEPT ![Main] = phase'[Main]]
      /\ \A t \in Workers : phase[t] = "done"
  BY <1>0, Gone DEF Join
<1>2. /\ OwnInv' /\ OthersWait(Main) /\ PointersInv' /\ test' = test /\ ptrs' = ptrs
      /\ (Bare(Main)' <=> Bare(Main)) /\ PhasesOf(Main)' = PhasesOf(Main)
      /\ pc' = pc /\ maxElementsCount' = maxElementsCount
  BY <1>0, QuietMoves DEF Join
<1>3. Along(Main) /\ "join" \in PhasesOf(Main) /\ ptrs[Main] = <<>> /\ Bare(Main)
  BY <1>0, <1>1, Before DEF Along
<1>4. phase'[Main] \in PhasesOf(Main)
  BY <1>0, <1>1, <1>3, Before DEF PhasesOf
<1>5. Along(Main)'
  BY <1>1, <1>2, <1>3, <1>4, NoBlocks DEF Along
<1>6. QED
  BY <1>0, <1>1, <1>2, <1>5, TestMoves

(* Destroy() gives back what is cached; the thread has no pointers left. *)
LEMMA FinishKeeps ==
  ASSUME TestInv, NEW t \in Threads, Finish(t)
  PROVE  TestInv'
<1>1. /\ phase[t] = "finish" /\ DestroyThreadCache(t)
      /\ test' = test /\ ptrs' = ptrs /\ phase'[t] = "exit"
      /\ phase' = [phase EXCEPT ![t] = phase'[t]]
  BY Gone DEF Finish
<1>2. OwnInv' /\ OthersWait(t)
  BY <1>1, CallMoves, Before DEF Call
<1>3. held' = held /\ maxElementsCount[t] > 0 /\ pc'[t] = "destroy"
  BY <1>1, Before, Now DEF DestroyThreadCache
<1>4. PointersInv'
  BY <1>1, <1>3, PointersStay, Before
<1>5. "finish" \in PhasesOf(t) /\ ptrs[t] = <<>>
  BY <1>1, Before DEF Along
<1>6. PhasesOf(t)' = PhasesOf(t) /\ "exit" \in PhasesOf(t) /\ ~(t = Main /\ test = "StressTest")
  BY <1>1, <1>5, Before DEF PhasesOf
<1>7. Along(t)'
  BY <1>1, <1>3, <1>5, <1>6 DEF Along
<1>8. QED
  BY <1>1, <1>2, <1>4, <1>7, TestMoves
-----------------------------------------------------------------------------
(* _sm_malloc() as the tests use it: one more slot, the others as they were. *)
LEMMA MallocDoes ==
  ASSUME TestInv, NEW t \in Threads, Malloc(t)
  PROVE  /\ OwnInv' /\ OthersWait(t) /\ PointersInv'
         /\ pc[t] = "idle" /\ pc' = pc /\ maxElementsCount' = maxElementsCount
         /\ \A u \in Threads : u # t => ptrs'[u] = ptrs[u]
         /\ \E p \in Pointers :
              /\ ptrs'[t] = Append(ptrs[t], p) /\ ptrs'[t] # <<>> /\ Last(ptrs'[t]) = p
              /\ Len(ptrs'[t]) = Len(ptrs[t]) + 1 /\ Range(ptrs'[t]) = Range(ptrs[t]) \union {p}
              /\ p = Elsewhere => L0[t] = <<>> /\ L1[t] = <<>> /\ free = {}
<1>0. OwnInv /\ PointersInv /\ ptrs[t] \in Seq(Pointers) /\ NoAlias(ptrs[t])
  BY Before
<1>1. /\ OwnInv' /\ OthersWait(t) /\ PointersInv'
      /\ pc[t] = "idle" /\ pc' = pc /\ maxElementsCount' = maxElementsCount
  BY <1>0, MallocMoves
<1>2. PICK p \in Pointers :
        /\ p \notin BlocksIn(ptrs[t])
        /\ ptrs' = [ptrs EXCEPT ![t] = Append(ptrs[t], p)]
        /\ p = Elsewhere => L0[t] = <<>> /\ L1[t] = <<>> /\ free = {}
  BY <1>0, MallocMoves
<1>3. ptrs'[t] = Append(ptrs[t], p) /\ \A u \in Threads : u # t => ptrs'[u] = ptrs[u]
  BY <1>2, Before DEF PointersInv
<1>4. /\ Append(ptrs[t], p) # <<>> /\ Last(Append(ptrs[t], p)) = p
      /\ Len(Append(ptrs[t], p)) = Len(ptrs[t]) + 1
      /\ Range(Append(ptrs[t], p)) = Range(ptrs[t]) \union {p}
  BY <1>0, <1>2, Stored
<1>5. QED
  BY <1>1, <1>2, <1>3, <1>4

(* _sm_free() as the tests use it: one slot less.                            *)
LEMMA FreeDoes ==
  ASSUME TestInv, NEW t \in Threads, ptrs[t] # <<>>, FreeNext(t)
  PROVE  /\ OwnInv' /\ OthersWait(t) /\ PointersInv'
         /\ pc[t] = "idle" /\ maxElementsCount' = maxElementsCount
         /\ ptrs'[t] = Tail(ptrs[t]) /\ \A u \in Threads : u # t => ptrs'[u] = ptrs[u]
         /\ Head(ptrs[t]) = Elsewhere => pc' = pc
         /\ maxElementsCount[t] = 0 => pc'[t] \in {"idle", "free"}
<1>1. /\ OwnInv' /\ OthersWait(t) /\ PointersInv'
      /\ pc[t] = "idle" /\ maxElementsCount' = maxElementsCount
      /\ ptrs' = [ptrs EXCEPT ![t] = Tail(ptrs[t])]
      /\ Head(ptrs[t]) = Elsewhere => pc' = pc
      /\ maxElementsCount[t] = 0 => pc'[t] \in {"idle", "free"}
  BY FreeMoves, Before
<1>2. ptrs'[t] = Tail(ptrs[t]) /\ \A u \in Threads : u # t => ptrs'[u] = ptrs[u]
  BY <1>1, Before DEF PointersInv
<1>3. QED
  BY <1>1, <1>2

(* The next slot of the working set, up to the last one. *)
LEMMA FillKeeps ==
  ASSUME TestInv, NEW t \in Threads, Fill(t)
  PROVE  TestInv'
<1>1. /\ phase[t] = "fill" /\ Malloc(t) /\ test' = test
      /\ phase' = [phase EXCEPT ![t] = phase'[t]]
      /\ phase'[t] = CASE Len(ptrs'[t]) < WorkingSet -> "fill"
                       [] test = "StressTest" /\ Len(ptrs'[t]) >= WorkingSet -> "release"
                       [] test = "PerfTest" /\ Len(ptrs'[t]) >= WorkingSet -> "churn"
  BY Gone DEF Fill
<1>2. /\ OwnInv' /\ OthersWait(t) /\ PointersInv' /\ ptrs'[t] # <<>>
      /\ \A u \in Threads : u # t => ptrs'[u] = ptrs[u]
  BY <1>1, MallocDoes
<1>3. "fill" \in PhasesOf(t)
  BY <1>1, Before DEF Along
<1>4. t # Main /\ test \in {"StressTest", "PerfTest"} /\ PhasesOf(t)' = PhasesOf(t)
  BY <1>1, <1>3, Before DEF PhasesOf
<1>5. PICK n \in Nat : n = Len(ptrs'[t])
  BY <1>2 DEF PointersInv
<1>6. n < WorkingSet \/ n >= WorkingSet
  BY TestConstants
<1>7. \/ phase'[t] = "fill"
      \/ test = "StressTest" /\ phase'[t] = "release"
      \/ test = "PerfTest" /\ phase'[t] = "churn"
  BY <1>1, <1>4, <1>5, <1>6
<1>8. phase'[t] \in PhasesOf(t)
  BY <1>4, <1>7 DEF PhasesOf
<1>9. Along(t)'
  BY <1>2, <1>4, <1>7, <1>8 DEF Along
<1>10. QED
  BY <1>1, <1>2, <1>9, TestMoves

LEMMA ChurnMallocKeeps ==
  ASSUME TestInv, NEW t \in Threads, ChurnMalloc(t)
  PROVE  TestInv'
<1>1. /\ phase[t] = "refill" /\ Malloc(t) /\ test' = test
      /\ phase' = [phase EXCEPT ![t] = phase'[t]] /\ phase'[t] \in {"churn", "release"}
  BY Gone DEF ChurnMalloc
<1>2. /\ OwnInv' /\ OthersWait(t) /\ PointersInv' /\ ptrs'[t] # <<>>
      /\ \A u \in Threads : u # t => ptrs'[u] = ptrs[u]
  BY <1>1, MallocDoes
<1>3. "refill" \in PhasesOf(t)
  BY <1>1, Before DEF Along
<1>4. t # Main /\ test = "PerfTest" /\ PhasesOf(t)' = PhasesOf(t)
  BY <1>1, <1>3, Before DEF PhasesOf
<1>5. phase'[t] \in PhasesOf(t)
  BY <1>1, <1>4 DEF PhasesOf
<1>6. Along(t)'
  BY <1>1, <1>2, <1>4, <1>5 DEF Along
<1>7. QED
  BY <1>1, <1>2, <1>6, TestMoves

LEMMA RingMallocKeeps ==
  ASSUME TestInv, NEW t \in Threads, RingMalloc(t)
  PROVE  TestInv'
<1>1. /\ phase[t] = "ring" /\ Malloc(t) /\ test' = test
      /\ phase' = [phase EXCEPT ![t] = phase'[t]] /\ phase'[t] = "unring"
  BY Gone DEF RingMalloc
<1>2. /\ OwnInv' /\ OthersWait(t) /\ PointersInv' /\ ptrs'[t] # <<>>
      /\ \A u \in Threads : u # t => ptrs'[u] = ptrs[u]
  BY <1>1, MallocDoes
<1>3. "ring" \in PhasesOf(t)
  BY <1>1, Before DEF Along
<1>4. test = "Benchmark" /\ PhasesOf(t)' = PhasesOf(t)
  BY <1>1, <1>3, Before DEF PhasesOf
<1>5. phase'[t] \in PhasesOf(t)
  BY <1>1, <1>3, <1>4 DEF PhasesOf
<1>6. Along(t)'
  BY <1>1, <1>2, <1>4, <1>5 DEF Along
<1>7. QED
  BY <1>1, <1>2, <1>6, TestMoves

LEMMA ChurnFreeKeeps ==
  ASSUME TestInv, NEW t \in Threads, ChurnFree(t)
  PROVE  TestInv'
<1>1. /\ phase[t] = "churn" /\ FreeNext(t) /\ test' = test
      /\ phase' = [phase EXCEPT ![t] = phase'[t]] /\ phase'[t] = "refill"
  BY Gone DEF ChurnFree
<1>2. "churn" \in PhasesOf(t) /\ ptrs[t] # <<>>
  BY <1>1, Before DEF Along
<1>3. /\ OwnInv' /\ OthersWait(t) /\ PointersInv'
      /\ \A u \in Threads : u # t => ptrs'[u] = ptrs[u]
  BY <1>1, <1>2, FreeDoes
<1>4. t # Main /\ test = "PerfTest" /\ PhasesOf(t)' = PhasesOf(t)
  BY <1>1, <1>2, Before DEF PhasesOf
<1>5. phase'[t] \in PhasesOf(t)
  BY <1>1, <1>4 DEF PhasesOf
<1>6. Along(t)'
  BY <1>1, <1>4, <1>5 DEF Along
<1>7. QED
  BY <1>1, <1>3, <1>6, TestMoves

LEMMA RingFreeKeeps ==
  ASSUME TestInv, NEW t \in Threads, RingFree(t)
  PROVE  TestInv'
<1>1. /\ phase[t] = "unring" /\ FreeNext(t) /\ test' = test
      /\ phase' = [phase EXCEPT ![t] = phase'[t]]
      /\ phase'[t] = IF round'[t] < Iterations * WorkingSet THEN "ring"
                    ELSE IF ptrs'[t] # <<>> THEN "release" ELSE "finish"
  BY Gone DEF RingFree
<1>2. "unring" \in PhasesOf(t) /\ ptrs[t] # <<>>
  BY <1>1, Before DEF Along
<1>3. /\ OwnInv' /\ OthersWait(t) /\ PointersInv'
      /\ \A u \in Threads : u # t => ptrs'[u] = ptrs[u]
  BY <1>1, <1>2, FreeDoes
<1>4. t = Main /\ test = "Benchmark" /\ PhasesOf(t)' = PhasesOf(t)
  BY <1>1, <1>2, Before DEF PhasesOf
<1>5. \/ phase'[t] = "ring"
      \/ phase'[t] = "release" /\ ptrs'[t] # <<>>
      \/ phase'[t] = "finish" /\ ptrs'[t] = <<>>
  BY <1>1
<1>6. phase'[t] \in PhasesOf(t)
  BY <1>4, <1>5 DEF PhasesOf
<1>7. Along(t)'
  BY <1>1, <1>4, <1>5, <1>6 DEF Along
<1>8. QED
  BY <1>1, <1>3, <1>7, TestMoves
-----------------------------------------------------------------------------
(* A sequence of pointers to all the blocks, once each, is as long as there  *)
(* are blocks.                                                               *)
LEMMA CountsBlocks ==
  ASSUME NEW s \in Seq(Pointers), NoAlias(s), Elsewhere \notin Range(s), BlocksIn(s) = Blocks
  PROVE  Len(s) = Cardinality(Blocks)
<1> DEFINE n == Len(s)
<1>1. n \in Nat /\ DOMAIN s = 1..n
  OBVIOUS
<1>2. \A i \in 1..n : s[i] \in Range(s) /\ s[i] \in Pointers
  BY <1>1 DEF Range
<1>3. s \in [1..n -> Blocks]
  BY <1>1, <1>2 DEF Pointers
<1>4. IsInjective(s)
  BY <1>1, <1>2 DEF NoAlias, IsInjective
<1>5. \A b \in Blocks : \E i \in 1..n : s[i] = b
  BY <1>1 DEF BlocksIn, Range
<1> HIDE DEF n
<1>6. ExistsBijection(1..n, Blocks)
  BY <1>3, <1>4, <1>5 DEF ExistsBijection, Bijection, Injection, Surjection
<1>7. IsFiniteSet(1..n) /\ Cardinality(1..n) = n
  BY <1>1, FS_Interval
<1>8. Cardinality(Blocks) = n
  BY <1>6, <1>7, FS_Bijection
<1>9. QED
  BY <1>8 DEF n

(* With the workers gone, an empty cache and an empty pool leave no block    *)
(* but those that main has pointers to.                                      *)
LEMMA DrainedMeansAll ==
  ASSUME TestInv, phase[Main] \notin {"open", "join"}, pc[Main] = "idle",
         L0[Main] = <<>>, L1[Main] = <<>>, free = {}
  PROVE  BlocksIn(ptrs[Main]) = Blocks
<1>1. Main \in Threads /\ OwnInv /\ PointersInv
  BY TestConstants DEF TestInv
<1>2. releasing[Main] = {} /\ Has(Main) = {}
  <2>1. releasing[Main] = {} /\ root[Main] = <<>> /\ freed[Main] = <<>>
    BY <1>1, Now
  <2>2. QED
    BY <2>1, NoBlocks DEF Has
<1>3. ASSUME NEW t \in Threads, t # Main
      PROVE  releasing[t] = {} /\ Has(t) = {} /\ BlocksIn(ptrs[t]) = {}
  <2>1. phase[t] = "done"
    BY <1>3 DEF TestInv, MainLast, Workers
  <2>2. pc[t] = "idle" /\ maxElementsCount[t] = 0 /\ ptrs[t] = <<>>
    BY <2>1, Before DEF Along, Bare
  <2>3. QED
    BY <1>1, <2>2, BareHasNothing, NoBlocks DEF BlocksIn
<1>4. Blocks \subseteq held
  BY <1>1, <1>2, <1>3 DEF OwnInv, Accounted
<1>5. \A b : b \in held <=> b \in BlocksIn(ptrs[Main])
  BY <1>1, <1>3 DEF PointersInv
<1>6. BlocksIn(ptrs[Main]) \subseteq Blocks
  BY DEF BlocksIn
<1>7. QED
  BY <1>4, <1>5, <1>6

(* The first pointer of another bucket comes when all blocks are handed out. *)
LEMMA DrainKeeps ==
  ASSUME TestInv, NEW t \in Threads, Drain(t)
  PROVE  TestInv'
<1>1. /\ phase[t] = "drain" /\ Malloc(t) /\ test' = test
      /\ phase' = [phase EXCEPT ![t] = phase'[t]]
      /\ phase'[t] = IF Last(ptrs'[t]) = Elsewhere THEN "count" ELSE "drain"
  BY Gone DEF Drain
<1>2. /\ OwnInv' /\ OthersWait(t) /\ PointersInv' /\ pc[t] = "idle"
      /\ pc' = pc /\ maxElementsCount' = maxElementsCount
      /\ \A u \in Threads : u # t => ptrs'[u] = ptrs[u]
  BY <1>1, MallocDoes
<1>3. PICK p \in Pointers :
        /\ ptrs'[t] = Append(ptrs[t], p) /\ ptrs'[t] # <<>> /\ Last(ptrs'[t]) = p
        /\ Len(ptrs'[t]) = Len(ptrs[t]) + 1 /\ Range(ptrs'[t]) = Range(ptrs[t]) \union {p}
        /\ p = Elsewhere => L0[t] = <<>> /\ L1[t] = <<>> /\ free = {}
  BY <1>1, MallocDoes
<1>4. "drain" \in PhasesOf(t) /\ Elsewhere \notin Range(ptrs[t])
  BY <1>1, Before DEF Along
<1>5. t = Main /\ test \in {"StressTest", "MegaAlloc"} /\ PhasesOf(t)' = PhasesOf(t)
  BY <1>1, <1>4, Before DEF PhasesOf
<1>6. phase'[t] \in PhasesOf(t)
  BY <1>1, <1>5 DEF PhasesOf
<1>7. p = Elsewhere => Len(ptrs'[t]) = Cardinality(Blocks) + 1
  <2> SUFFICES ASSUME p = Elsewhere PROVE Len(ptrs[t]) = Cardinality(Blocks)
    BY <1>3
  <2>1. BlocksIn(ptrs[t]) = Blocks
    BY <1>1, <1>2, <1>3, <1>5, DrainedMeansAll
  <2>2. QED
    BY <1>4, <2>1, Before, CountsBlocks
<1>8. Along(t)'
  <2>1. p # Elsewhere => Elsewhere \notin Range(ptrs'[t])
    BY <1>3, <1>4
  <2>2. t = Main /\ test = "StressTest" => maxElementsCount'[t] = 0 /\ pc'[t] \in {"idle", "free"}
    BY <1>2, Before DEF Along
  <2>3. QED
    BY <1>1, <1>3, <1>5, <1>6, <1>7, <2>1, <2>2 DEF Along
<1>9. QED
  BY <1>1, <1>2, <1>5, <1>8, TestMoves

(* What main frees last after a drain is not of the bucket. *)
LEMMA ReleaseKeeps ==
  ASSUME TestInv, NEW t \in Threads, Release(t)
  PROVE  TestInv'
<1> DEFINE s == ptrs[t]
           p == Head(s)
           again == round[t] + 1 < Passes
           passes == test = "MegaAlloc" \/ (test = "StressTest" /\ t # Main)
<1>1. /\ phase[t] = "release" /\ FreeNext(t) /\ test' = test
      /\ phase' = [phase EXCEPT ![t] = phase'[t]]
  BY Gone DEF Release
<1>2. \/ ptrs'[t] # <<>> /\ phase'[t] = "release"
      \/ ptrs'[t] = <<>> /\ passes /\ phase'[t] = IF test = "MegaAlloc" THEN "drain" ELSE "fill"
      \/ ptrs'[t] = <<>> /\ phase'[t] = IF test = "StressTest" /\ t = Main THEN "end" ELSE "finish"
  <2>1. Goto(t, CASE ptrs'[t] # <<>> -> "release"
                  [] ptrs'[t] = <<>> /\ passes /\ again -> IF test = "MegaAlloc" THEN "drain" ELSE "fill"
                  [] ptrs'[t] = <<>> /\ ~(passes /\ again) ->
                       IF test = "StressTest" /\ t = Main THEN "end" ELSE "finish")
    BY DEF Release
  <2> HIDE DEF passes, again
  <2>2. phase'[t] = CASE ptrs'[t] # <<>> -> "release"
                  [] ptrs'[t] = <<>> /\ passes /\ again -> IF test = "MegaAlloc" THEN "drain" ELSE "fill"
                  [] ptrs'[t] = <<>> /\ ~(passes /\ again) ->
                       IF test = "StressTest" /\ t = Main THEN "end" ELSE "finish"
    BY <2>1, Gone
  <2>3. QED
    BY <2>2
<1>3. "release" \in PhasesOf(t) /\ s # <<>> /\ s \in Seq(Pointers) /\ NoAlias(s)
  BY <1>1, Before DEF Along
<1>4. /\ OwnInv' /\ OthersWait(t) /\ PointersInv'
      /\ pc[t] = "idle" /\ maxElementsCount' = maxElementsCount
      /\ ptrs'[t] = Tail(s) /\ \A u \in Threads : u # t => ptrs'[u] = ptrs[u]
      /\ p = Elsewhere => pc' = pc
      /\ maxElementsCount[t] = 0 => pc'[t] \in {"idle", "free"}
  BY <1>1, <1>3, FreeDoes
<1>5. /\ p \in Pointers /\ p = s[1] /\ BlocksIn(Tail(s)) = BlocksIn(s) \ {p}
      /\ Tail(s) # <<>> => Last(Tail(s)) = Last(s)
      /\ Tail(s) = <<>> => p = Last(s)
      /\ Tail(s) \in Seq(Pointers)
      /\ \A k \in DOMAIN Tail(s) : \E j \in DOMAIN s : Tail(s)[k] = s[j]
  BY <1>3, Dropped
<1>6. Along(t)'
  <2>1. phase'[t] \in PhasesOf(t)'
    <3>1. \/ t = Main /\ test \in {"StressTest", "MegaAlloc", "Benchmark"}
          \/ t # Main /\ test \in {"StressTest", "PerfTest"}
      BY <1>3, Before DEF PhasesOf
    <3>2. QED
      BY <1>1, <1>2, <3>1 DEF PhasesOf
  <2>2. ASSUME t = Main, test = "StressTest"
        PROVE  /\ maxElementsCount'[t] = 0 /\ pc'[t] \in {"idle", "free"}
               /\ phase'[t] = "release" => Last(ptrs'[t]) = Elsewhere
               /\ phase'[t] = "end" => Bare(t)'
               /\ phase'[t] \in {"release", "end"}
    <3>1. maxElementsCount[t] = 0 /\ Last(s) = Elsewhere
      BY <1>1, <2>2, Before DEF Along
    <3>2. QED
      BY <1>2, <1>4, <1>5, <2>2, <3>1 DEF Bare
  <2>3. ASSUME ~(t = Main /\ test = "StressTest") PROVE phase'[t] \in {"release", "drain", "fill", "finish"}
    BY <1>2, <2>3
  <2>4. /\ phase'[t] = "release" => ptrs'[t] # <<>>
        /\ phase'[t] \in {"finish", "end"} => ptrs'[t] = <<>>
        /\ phase'[t] = "drain" => Elsewhere \notin Range(ptrs'[t])
    BY <1>2, NoBlocks
  <2>5. QED
    BY <1>1, <2>1, <2>2, <2>3, <2>4 DEF Along
<1>7. QED
  BY <1>1, <1>4, <1>6, TestMoves
-----------------------------------------------------------------------------
LEMMA TestInitInv == TestInit => TestInv
<1> SUFFICES ASSUME TestInit PROVE TestInv
  OBVIOUS
<1>1. /\ Init /\ test \in {"StressTest", "PerfTest", "MegaAlloc", "Benchmark"}
      /\ ptrs = [t \in Threads |-> IF test = "Benchmark" /\ t = Main THEN EmptyRing ELSE <<>>]
      /\ Main \in Threads /\ WorkingSet \in Nat \ {0}
  BY TestConstants DEF TestInit
<1>2. OwnInv
  BY <1>1, OwnInit
<1>3. /\ held = {} /\ pc = [t \in Threads |-> "idle"] /\ maxElementsCount = [t \in Threads |-> 0]
  BY <1>1 DEF Init
<1>4. EmptyRing \in Seq(Pointers) /\ NoAlias(EmptyRing) /\ BlocksIn(EmptyRing) = {}
  <2>1. WorkingSet - 1 \in Nat /\ Elsewhere \in Pointers /\ Elsewhere \notin Blocks
    BY <1>1, TestConstants DEF Pointers, Elsewhere
  <2>2. EmptyRing \in Seq(Pointers)
    BY <2>1 DEF EmptyRing
  <2>3. \A k \in DOMAIN EmptyRing : EmptyRing[k] = Elsewhere
    BY DEF EmptyRing
  <2>4. QED
    BY <2>1, <2>2, <2>3 DEF NoAlias, BlocksIn, Range
<1>5. <<>> \in Seq(Pointers) /\ NoAlias(<<>>) /\ BlocksIn(<<>>) = {}
  BY NoBlocks DEF NoAlias, BlocksIn
<1>6. \A t \in Threads :
        /\ ptrs[t] \in Seq(Pointers) /\ NoAlias(ptrs[t]) /\ BlocksIn(ptrs[t]) = {}
        /\ test # "Benchmark" \/ t # Main => ptrs[t] = <<>>
  BY <1>1, <1>4, <1>5
<1>7. PointersInv
  BY <1>1, <1>3, <1>6 DEF PointersInv
<1>8. ASSUME NEW t \in Threads
      PROVE  /\ phase[t] \in PhasesOf(t) /\ phase[t] \in {"start", "join", "open", "done"}
             /\ t # Main /\ phase[Main] \notin {"join", "open"} => phase[t] = "done"
  BY <1>1 DEF TestInit, PhasesOf
<1>9. phase = [t \in Threads |-> phase[t]]
  BY DEF TestInit
<1>10. ASSUME NEW t \in Threads PROVE Along(t)
  <2>1. Bare(t)
    BY <1>3 DEF Bare
  <2>2. phase[t] # "start" => ptrs[t] = <<>>
    BY <1>1, <1>6 DEF TestInit
  <2>3. QED
    BY <1>3, <1>6, <1>8, <2>1, <2>2 DEF Along
<1>11. MainLast
  BY <1>8 DEF MainLast, Workers
<1>12. QED
  BY <1>1, <1>2, <1>7, <1>9, <1>10, <1>11 DEF TestInv

LEMMA TestInvNext == TestInv /\ [TestNext]_testVars => TestInv'
<1> SUFFICES ASSUME TestInv, [TestNext]_testVars PROVE TestInv'
  OBVIOUS
<1>1. ASSUME NEW t \in Threads, Run(t) PROVE TestInv'
  BY <1>1, WorkKeeps, StartKeeps, GateKeeps, FillKeeps, ChurnFreeKeeps,
     ChurnMallocKeeps, RingMallocKeeps, RingFreeKeeps, DrainKeeps, CountKeeps, ReleaseKeeps,
     FinishKeeps, ExitKeeps, OpenKeeps, JoinKeeps DEF Run
<1>2. CASE UNCHANGED testVars
  <2>1. UNCHANGED <<cacheVars, test, phase, ptrs>>
    BY <1>2 DEF testVars
  <2>2. OwnInv'
    BY <2>1, OwnNext DEF TestInv, cacheVars
  <2>3. PointersInv' /\ UNCHANGED <<pc, maxElementsCount>>
    BY <2>1, PointersStay DEF TestInv, cacheVars, vars
  <2>4. \A t \in Threads : Along(t)'
    BY <2>1, <2>3 DEF TestInv, Along, PhasesOf, Bare
  <2>5. QED
    BY <2>1, <2>2, <2>3, <2>4 DEF TestInv, MainLast
<1>3. QED
  BY <1>1, <1>2 DEF TestNext

LEMMA TestInvAlways == TestSpec => []TestInv
BY TestInitInv, TestInvNext, PTL DEF TestSpec

(* EXPECT_EQ(availCount, maxCount), EXPECT_EQ(diff, 0): a drain counts all   *)
(* the blocks, whatever the workers and the cache have done before.          *)
THEOREM DrainCountsTheBucket == TestSpec => []DrainFindsAll
<1>1. TestInv => DrainFindsAll
  BY TestConstants DEF TestInv, Along, DrainFindsAll
<1>2. QED
  BY TestInvAlways, <1>1, PTL

(* A test destroys an allocator that has all its blocks and no cache.        *)
THEOREM TestsEndWhole == TestSpec => []WholeAtEnd
<1>1. TestInv => WholeAtEnd
  <2> SUFFICES ASSUME TestInv, phase[Main] = "end"
               PROVE  free = Blocks /\ held = {} /\ \A t \in Threads : maxElementsCount[t] = 0
    BY DEF WholeAtEnd
  <2>1. \A t \in Threads : phase[t] \in {"done", "end"}
    BY DEF TestInv, MainLast, Workers
  <2>2. \A t \in Threads : pc[t] = "idle" /\ maxElementsCount[t] = 0 /\ ptrs[t] = <<>>
    BY <2>1, Before DEF Along, Bare
  <2>3. held = {}
    BY <2>2, NoBlocks DEF TestInv, PointersInv, BlocksIn
  <2>4. free = Blocks
    BY <2>2, <2>3, OwnIsBack DEF TestInv, AllBack
  <2>5. QED
    BY <2>2, <2>3, <2>4
<1>2. QED
  BY TestInvAlways, <1>1, PTL
=============================================================================
