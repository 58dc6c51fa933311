-------------------------- MODULE ThreadCacheProofs --------------------------
(***************************************************************************)
(* The stacks of a thread cache never leave their arrays, and every block  *)
(* has one owner, for any number of threads and blocks and any sizes of    *)
(* the caches, over a pool that keeps the promise of BlockPool.tla.  The   *)
(* list of PoolBucket.tla keeps it for single blocks (PoolRefinement), not *)
(* for chains that race with an Alloc() (PoolBucket_ChainAba.cfg), so that *)
(* these theorems are about the caches' own accounting, not about the list *)
(* beneath it.                                                             *)
(***************************************************************************)
EXTENDS ThreadCache, SequenceTheorems, TLAPS

Phases == {"idle", "free", "flush", "warmup", "warm", "destroy"}

CacheTyped ==
  /\ pc \in [Threads -> Phases]
  /\ maxElementsCount \in [Threads -> CacheSizes \union {0}]
  /\ num \in [Threads -> Nat]
  /\ L0 \in [Threads -> Seq(Blocks)]
  /\ L1 \in [Threads -> Seq(Blocks)]
  /\ root \in [Threads -> Seq(Blocks)]
  /\ freed \in [Threads -> Seq(Blocks)]

(* What a thread has in its hands at each point of a call. *)
CallShape ==
  \A t \in Threads :
    /\ pc[t] # "warmup" => root[t] = <<>>
    /\ pc[t] # "flush" => freed[t] = <<>>
    /\ pc[t] = "warmup" =>
         L1[t] = <<>> /\ num[t] <= maxElementsCount[t] /\ Len(root[t]) <= num[t]
    /\ pc[t] = "destroy" => L0[t] = <<>> /\ L1[t] = <<>>
    /\ maxElementsCount[t] = 0 => L0[t] = <<>>
    /\ pc[t] = "flush" =>
         Len(L1[t]) <= maxElementsCount[t] - maxElementsCount[t] \div 2 /\ Len(freed[t]) = 1

CacheInv == CacheTyped /\ CacheFits /\ CallShape

(* A prefix of a stack. *)
LEMMA Prefix ==
  ASSUME NEW S, NEW s \in Seq(S), NEW k \in 0..Len(s)
  PROVE  SubSeq(s, 1, k) \in Seq(S) /\ Len(SubSeq(s, 1, k)) = k
<1>1. Len(s) \in Nat /\ k \in Nat
  OBVIOUS
<1>2. \A i \in 1..k : s[i] \in S
  BY <1>1
<1>3. SubSeq(s, 1, k) = [i \in 1..k |-> s[i]]
  BY <1>1
<1>4. QED
  BY <1>1, <1>2, <1>3

LEMMA FrontIsPrefix ==
  ASSUME NEW S, NEW s \in Seq(S), s # <<>>
  PROVE  Front(s) \in Seq(S) /\ Len(Front(s)) = Len(s) - 1 /\ Len(s) \in Nat
<1>1. Len(s) - 1 \in 0..Len(s) /\ Len(s) \in Nat
  OBVIOUS
<1>2. QED
  BY <1>1, Prefix DEF Front

LEMMA CacheInit == Init => CacheInv
<1> SUFFICES ASSUME Init PROVE CacheInv
  OBVIOUS
<1>1. <<>> \in Seq(Blocks) /\ Len(<<>>) = 0
  OBVIOUS
<1>2. QED
  BY <1>1, CacheConstants DEF Init, CacheInv, CacheTyped, CacheFits, CallShape, Phases

(* What the threads other than the one that moves have is unchanged, and     *)
(* the invariant of the one that moves is all there is to show.              *)
Mine(t) ==
  /\ pc[t] \in Phases
  /\ maxElementsCount[t] \in CacheSizes \union {0}
  /\ num[t] \in Nat
  /\ L0[t] \in Seq(Blocks) /\ L1[t] \in Seq(Blocks)
  /\ root[t] \in Seq(Blocks) /\ freed[t] \in Seq(Blocks)
  /\ Len(L0[t]) <= L0Size
  /\ Len(L1[t]) + Len(root[t]) + Len(freed[t]) <= maxElementsCount[t]
  /\ pc[t] # "warmup" => root[t] = <<>>
  /\ pc[t] # "flush" => freed[t] = <<>>
  /\ pc[t] = "warmup" =>
       L1[t] = <<>> /\ num[t] <= maxElementsCount[t] /\ Len(root[t]) <= num[t]
  /\ pc[t] = "destroy" => L0[t] = <<>> /\ L1[t] = <<>>
  /\ maxElementsCount[t] = 0 => L0[t] = <<>>
  /\ pc[t] = "flush" =>
       Len(L1[t]) <= maxElementsCount[t] - maxElementsCount[t] \div 2 /\ Len(freed[t]) = 1

LEMMA OneThreadMoves ==
  ASSUME CacheInv, NEW t \in Threads,
         pc' = [pc EXCEPT ![t] = pc'[t]],
         maxElementsCount' = [maxElementsCount EXCEPT ![t] = maxElementsCount'[t]],
         num' = [num EXCEPT ![t] = num'[t]],
         L0' = [L0 EXCEPT ![t] = L0'[t]],
         L1' = [L1 EXCEPT ![t] = L1'[t]],
         root' = [root EXCEPT ![t] = root'[t]],
         freed' = [freed EXCEPT ![t] = freed'[t]],
         Mine(t)'
  PROVE  CacheInv'
<1>1. CacheTyped'
  BY DEF CacheInv, CacheTyped, Mine
<1>2. CacheFits'
  BY DEF CacheInv, CacheTyped, CacheFits, Mine
<1>3. CallShape'
  <2>1. ASSUME NEW u \in Threads, u # t
        PROVE  /\ pc'[u] = pc[u] /\ maxElementsCount'[u] = maxElementsCount[u] /\ num'[u] = num[u]
               /\ L0'[u] = L0[u] /\ L1'[u] = L1[u] /\ root'[u] = root[u] /\ freed'[u] = freed[u]
    BY <2>1 DEF CacheInv, CacheTyped
  <2>2. CallShape
    BY DEF CacheInv
  <2>3. QED
    BY <2>1, <2>2 DEF CallShape, Mine
<1>4. QED
  BY <1>1, <1>2, <1>3 DEF CacheInv

(* What one stack loses another may gain. *)
LEMMA Moved ==
  ASSUME NEW a \in Nat, NEW b \in Nat, NEW c \in Nat, NEW m \in Nat, a + b + c <= m
  PROVE  /\ (a - 1) + b + c <= m
         /\ (a + b) + 0 + c <= m
         /\ (a + c) + b + 0 <= m
OBVIOUS

(* What is known of every thread, and that all of it is counted in numbers. *)
Counted(t) ==
  /\ Len(L0[t]) \in Nat /\ Len(L1[t]) \in Nat
  /\ Len(root[t]) \in Nat /\ Len(freed[t]) \in Nat
  /\ maxElementsCount[t] \in Nat /\ L0Size \in Nat
  /\ (maxElementsCount[t] # 0 => maxElementsCount[t] >= 2)

LEMMA MineNow ==
  ASSUME CacheInv, NEW t \in Threads
  PROVE  Mine(t) /\ Counted(t)
<1>1. Mine(t)
  BY DEF CacheInv, CacheTyped, CacheFits, CallShape, Mine
<1>2. /\ Len(L0[t]) \in Nat /\ Len(L1[t]) \in Nat
      /\ Len(root[t]) \in Nat /\ Len(freed[t]) \in Nat
  BY <1>1 DEF Mine
<1>3. maxElementsCount[t] = 0 \/ maxElementsCount[t] \in Nat \ {0, 1}
  BY <1>1, CacheConstants DEF Mine
<1>4. QED
  BY <1>1, <1>2, <1>3, CacheConstants DEF Counted

(* Alloc() takes from a stack, Free() adds to one that has room. *)
LEMMA AllocL0Keeps ==
  ASSUME CacheInv, NEW t \in Threads, AllocL0(t)
  PROVE  CacheInv'
<1>0. Mine(t) /\ Counted(t)
  BY MineNow
<1>1. /\ pc[t] = "idle" /\ L0[t] # <<>> /\ L0' = [L0 EXCEPT ![t] = Front(@)]
      /\ UNCHANGED <<pc, maxElementsCount, num, L1, root, freed>>
  BY DEF AllocL0, warming
<1>2. L0'[t] = Front(L0[t]) /\ L0' = [L0 EXCEPT ![t] = L0'[t]]
  BY <1>1 DEF CacheInv, CacheTyped
<1>3. Front(L0[t]) \in Seq(Blocks) /\ Len(Front(L0[t])) = Len(L0[t]) - 1
  BY <1>1, FrontIsPrefix DEF CacheInv, CacheTyped
<1>4. Mine(t)'
  <2>1. Len(L0'[t]) <= L0Size
    BY <1>0, <1>2, <1>3 DEF Mine, Counted
  <2>2. QED
    BY <1>0, <1>1, <1>2, <1>3, <2>1 DEF Mine
<1>5. QED
  BY <1>1, <1>2, <1>4, OneThreadMoves DEF CacheInv, CacheTyped

LEMMA AllocL1Keeps ==
  ASSUME CacheInv, NEW t \in Threads, AllocL1(t)
  PROVE  CacheInv'
<1>0. Mine(t) /\ Counted(t)
  BY MineNow
<1>1. /\ pc[t] = "idle" /\ L1[t] # <<>> /\ L1' = [L1 EXCEPT ![t] = Front(@)]
      /\ UNCHANGED <<pc, maxElementsCount, num, L0, root, freed>>
  BY DEF AllocL1, warming
<1>2. L1'[t] = Front(L1[t]) /\ L1' = [L1 EXCEPT ![t] = L1'[t]]
  BY <1>1 DEF CacheInv, CacheTyped
<1>3. Front(L1[t]) \in Seq(Blocks) /\ Len(Front(L1[t])) = Len(L1[t]) - 1
  BY <1>1, FrontIsPrefix DEF CacheInv, CacheTyped
<1>4. Mine(t)'
  <2>1. Len(L1'[t]) + Len(root'[t]) + Len(freed'[t]) <= maxElementsCount'[t]
    <3>1. /\ Len(L1'[t]) = Len(L1[t]) - 1 /\ Len(root'[t]) = Len(root[t])
          /\ Len(freed'[t]) = Len(freed[t]) /\ maxElementsCount'[t] = maxElementsCount[t]
      BY <1>1, <1>2, <1>3
    <3>2. Len(L1[t]) + Len(root[t]) + Len(freed[t]) <= maxElementsCount[t] /\ Counted(t)
      BY <1>0 DEF Mine
    <3>3. QED
      <4>1. /\ Len(L1[t]) \in Nat /\ Len(root[t]) \in Nat /\ Len(freed[t]) \in Nat
            /\ maxElementsCount[t] \in Nat
        BY <3>2 DEF Counted
      <4>2. QED
        BY <3>1, <3>2, <4>1, Moved
  <2>2. QED
    BY <1>0, <1>1, <1>2, <1>3, <2>1 DEF Mine
<1>5. QED
  BY <1>1, <1>2, <1>4, OneThreadMoves DEF CacheInv, CacheTyped

LEMMA FreeL0Keeps ==
  ASSUME CacheInv, NEW t \in Threads, NEW b \in Blocks, FreeL0(t, b)
  PROVE  CacheInv'
<1>0. Mine(t) /\ Counted(t)
  BY MineNow
<1>1. /\ pc[t] = "idle" /\ Len(L0[t]) < L0Size /\ maxElementsCount[t] > 0
      /\ L0' = [L0 EXCEPT ![t] = Append(@, b)]
      /\ UNCHANGED <<pc, maxElementsCount, num, L1, root, freed>>
  BY DEF FreeL0, warming
<1>2. L0'[t] = Append(L0[t], b) /\ L0' = [L0 EXCEPT ![t] = L0'[t]]
  BY <1>1 DEF CacheInv, CacheTyped
<1>3. Append(L0[t], b) \in Seq(Blocks) /\ Len(Append(L0[t], b)) = Len(L0[t]) + 1
  BY DEF CacheInv, CacheTyped
<1>4. Mine(t)'
  <2>1. Len(L0'[t]) <= L0Size
    BY <1>0, <1>1, <1>2, <1>3 DEF Counted
  <2>2. maxElementsCount'[t] # 0 /\ pc'[t] # "destroy"
    BY <1>0, <1>1 DEF Counted
  <2>3. QED
    BY <1>0, <1>1, <1>2, <1>3, <2>1, <2>2 DEF Mine
<1>5. QED
  BY <1>1, <1>2, <1>4, OneThreadMoves DEF CacheInv, CacheTyped

LEMMA FreeL1Keeps ==
  ASSUME CacheInv, NEW t \in Threads, NEW b \in Blocks, FreeL1(t, b)
  PROVE  CacheInv'
<1>0. Mine(t) /\ Counted(t)
  BY MineNow
<1>1. /\ pc[t] = "idle" /\ Len(L1[t]) < maxElementsCount[t]
      /\ L1' = [L1 EXCEPT ![t] = Append(@, b)]
      /\ UNCHANGED <<pc, maxElementsCount, num, L0, root, freed>>
  BY DEF FreeL1, warming
<1>2. L1'[t] = Append(L1[t], b) /\ L1' = [L1 EXCEPT ![t] = L1'[t]]
  BY <1>1 DEF CacheInv, CacheTyped
<1>3. Append(L1[t], b) \in Seq(Blocks) /\ Len(Append(L1[t], b)) = Len(L1[t]) + 1
  BY DEF CacheInv, CacheTyped
<1>4. root[t] = <<>> /\ freed[t] = <<>> /\ Len(<<>>) = 0
  BY <1>0, <1>1 DEF Mine, Counted
<1>5. Mine(t)'
  BY <1>0, <1>1, <1>2, <1>3, <1>4 DEF Mine, Counted
<1>6. QED
  BY <1>1, <1>2, <1>5, OneThreadMoves DEF CacheInv, CacheTyped

(* A full cache of at least two elements returns at least one, so there is   *)
(* room for the block being freed.                                           *)
LEMMA FreeFlushKeeps ==
  ASSUME CacheInv, NEW t \in Threads, NEW b \in Blocks, FreeFlush(t, b)
  PROVE  CacheInv'
<1>0. Mine(t) /\ Counted(t)
  BY MineNow
<1> DEFINE count == FlushCount(L1[t])
           k == Len(L1[t]) - count
<1>1. /\ pc[t] = "idle" /\ maxElementsCount[t] > 0 /\ Len(L1[t]) >= maxElementsCount[t]
      /\ L1' = [L1 EXCEPT ![t] = Kept(@, FlushCount(L1[t]))]
      /\ freed' = [freed EXCEPT ![t] = <<b>>] /\ pc' = [pc EXCEPT ![t] = "flush"]
      /\ UNCHANGED <<maxElementsCount, num, L0, root>>
  BY DEF FreeFlush, warming
<1>2. root[t] = <<>> /\ freed[t] = <<>> /\ Len(<<>>) = 0
  BY <1>0, <1>1 DEF Mine, Counted
<1>3. Len(L1[t]) = maxElementsCount[t] /\ maxElementsCount[t] \in Nat /\ maxElementsCount[t] >= 2
  BY <1>0, <1>1, <1>2 DEF Mine, Counted
<1>4. k \in 0..Len(L1[t]) /\ k + 1 <= maxElementsCount[t]
  BY <1>3 DEF FlushCount
<1>5. L1'[t] = SubSeq(L1[t], 1, k) /\ L1' = [L1 EXCEPT ![t] = L1'[t]]
  BY <1>1 DEF CacheInv, CacheTyped, Kept
<1>6. L1'[t] \in Seq(Blocks) /\ Len(L1'[t]) = k
  BY <1>4, <1>5, Prefix DEF CacheInv, CacheTyped
<1>7. /\ freed'[t] = <<b>> /\ pc'[t] = "flush"
      /\ freed' = [freed EXCEPT ![t] = freed'[t]] /\ pc' = [pc EXCEPT ![t] = pc'[t]]
  BY <1>1 DEF CacheInv, CacheTyped
<1>8. <<b>> \in Seq(Blocks) /\ Len(<<b>>) = 1
  OBVIOUS
<1>9. Mine(t)'
  <2>1. Len(L1'[t]) + Len(root'[t]) + Len(freed'[t]) <= maxElementsCount'[t]
    <3>1. /\ Len(L1'[t]) = k /\ Len(root'[t]) = 0 /\ Len(freed'[t]) = 1
          /\ maxElementsCount'[t] = maxElementsCount[t] /\ k \in Int
      BY <1>1, <1>2, <1>3, <1>4, <1>6, <1>7, <1>8
    <3>2. Len(L1[t]) + Len(root[t]) + Len(freed[t]) <= maxElementsCount[t] /\ Counted(t)
      BY <1>0 DEF Mine
    <3>3. QED
      BY <1>4, <3>1, <3>2 DEF Counted
  <2>2. Len(L1'[t]) <= maxElementsCount'[t] - maxElementsCount'[t] \div 2 /\ Len(freed'[t]) = 1
    <3>1. k = maxElementsCount[t] - maxElementsCount[t] \div 2
      BY <1>3 DEF FlushCount
    <3>2. maxElementsCount'[t] = maxElementsCount[t]
      BY <1>1
    <3>3. k <= k
      BY <1>4
    <3>4. QED
      BY <1>6, <1>7, <1>8, <3>1, <3>2, <3>3
  <2>3. QED
    BY <1>0, <1>1, <1>2, <1>6, <1>7, <1>8, <2>1, <2>2 DEF Mine, Phases
<1>10. QED
  BY <1>1, <1>5, <1>7, <1>9, OneThreadMoves DEF CacheInv, CacheTyped

LEMMA FreeFlushEndKeeps ==
  ASSUME CacheInv, NEW t \in Threads, FreeFlushEnd(t)
  PROVE  CacheInv'
<1>0. Mine(t) /\ Counted(t)
  BY MineNow
<1>1. /\ pc[t] = "flush" /\ L1' = [L1 EXCEPT ![t] = @ \o freed[t]]
      /\ freed' = [freed EXCEPT ![t] = <<>>] /\ pc' = [pc EXCEPT ![t] = "idle"]
      /\ UNCHANGED <<maxElementsCount, num, L0, root>>
  BY DEF FreeFlushEnd, warming
<1>2. L1'[t] = L1[t] \o freed[t] /\ L1' = [L1 EXCEPT ![t] = L1'[t]]
  BY <1>1 DEF CacheInv, CacheTyped
<1>3. L1'[t] \in Seq(Blocks) /\ Len(L1'[t]) = Len(L1[t]) + Len(freed[t])
  BY <1>2 DEF CacheInv, CacheTyped
<1>4. /\ freed'[t] = <<>> /\ pc'[t] = "idle"
      /\ freed' = [freed EXCEPT ![t] = freed'[t]] /\ pc' = [pc EXCEPT ![t] = pc'[t]]
  BY <1>1 DEF CacheInv, CacheTyped
<1>5. <<>> \in Seq(Blocks) /\ Len(<<>>) = 0
  OBVIOUS
<1>6. Mine(t)'
  <2>1. Len(L1'[t]) + Len(root'[t]) + Len(freed'[t]) <= maxElementsCount'[t]
    <3>1. /\ Len(L1'[t]) = Len(L1[t]) + Len(freed[t]) /\ Len(root'[t]) = Len(root[t])
          /\ Len(freed'[t]) = 0 /\ maxElementsCount'[t] = maxElementsCount[t]
      BY <1>1, <1>3, <1>4, <1>5
    <3>2. Len(L1[t]) + Len(root[t]) + Len(freed[t]) <= maxElementsCount[t] /\ Counted(t)
      BY <1>0 DEF Mine
    <3>3. QED
      <4>1. /\ Len(L1[t]) \in Nat /\ Len(root[t]) \in Nat /\ Len(freed[t]) \in Nat
            /\ maxElementsCount[t] \in Nat
        BY <3>2 DEF Counted
      <4>2. QED
        BY <3>1, <3>2, <4>1, Moved
  <2>2. QED
    BY <1>0, <1>1, <1>3, <1>4, <1>5, <2>1 DEF Mine, Phases
<1>7. QED
  BY <1>1, <1>2, <1>4, <1>6, OneThreadMoves DEF CacheInv, CacheTyped

(* Calls that touch only the pool. *)
LEMMA PoolOnlyKeeps ==
  ASSUME CacheInv, NEW t \in Threads,
         (\E b \in Blocks : AllocOverflow(t, b) \/ FreePool(t, b)) \/ FreePoolEnd(t)
  PROVE  CacheInv'
<1>0. Mine(t) /\ Counted(t)
  BY MineNow
<1>1. UNCHANGED <<maxElementsCount, num, L0, L1, root, freed>>
  BY DEF AllocOverflow, FreePool, FreePoolEnd, cache, warming
<1>2. /\ pc[t] \in {"idle", "free"} /\ pc'[t] \in {"idle", "free"}
      /\ pc' = [pc EXCEPT ![t] = pc'[t]]
  BY DEF AllocOverflow, FreePool, FreePoolEnd, CacheInv, CacheTyped
<1>3. Mine(t)'
  BY <1>0, <1>1, <1>2 DEF Mine, Counted, Phases
<1>4. QED
  BY <1>1, <1>2, <1>3, OneThreadMoves DEF CacheInv, CacheTyped

LEMMA CreateKeeps ==
  ASSUME CacheInv, NEW t \in Threads, NEW max \in CacheSizes, CreateThreadCache(t, max)
  PROVE  CacheInv'
<1>0. Mine(t) /\ Counted(t)
  BY MineNow
<1>1. /\ pc[t] = "idle" /\ maxElementsCount[t] = 0
      /\ maxElementsCount' = [maxElementsCount EXCEPT ![t] = max]
      /\ pc' = [pc EXCEPT ![t] = "warmup"]
      /\ UNCHANGED <<L0, L1, root, freed>>
  BY DEF CreateThreadCache
<1>2. PICK n \in WarmupCounts(max) : num' = [num EXCEPT ![t] = n]
  BY DEF CreateThreadCache
<1>3. max \in Nat /\ n \in Nat /\ n <= max
  BY CacheConstants DEF WarmupCounts
<1>4. L1[t] = <<>> /\ root[t] = <<>> /\ freed[t] = <<>> /\ Len(<<>>) = 0
  <2>1. root[t] = <<>> /\ freed[t] = <<>> /\ Len(<<>>) = 0
    BY <1>0, <1>1 DEF Mine
  <2>2. Len(L1[t]) = 0 /\ L1[t] \in Seq(Blocks)
    BY <1>0, <1>1, <2>1 DEF Mine, Counted
  <2>3. QED
    BY <2>1, <2>2, EmptySeq
<1>5. /\ maxElementsCount'[t] = max /\ pc'[t] = "warmup" /\ num'[t] = n
      /\ maxElementsCount' = [maxElementsCount EXCEPT ![t] = maxElementsCount'[t]]
      /\ pc' = [pc EXCEPT ![t] = pc'[t]] /\ num' = [num EXCEPT ![t] = num'[t]]
  BY <1>1, <1>2 DEF CacheInv, CacheTyped
<1>6. Mine(t)'
  BY <1>0, <1>1, <1>3, <1>4, <1>5 DEF Mine, Counted, Phases
<1>7. QED
  BY <1>1, <1>5, <1>6, OneThreadMoves DEF CacheInv, CacheTyped

LEMMA WarmupAllocKeeps ==
  ASSUME CacheInv, NEW t \in Threads, NEW b \in Blocks, WarmupAlloc(t, b)
  PROVE  CacheInv'
<1>0. Mine(t) /\ Counted(t)
  BY MineNow
<1>1. /\ pc[t] = "warmup" /\ Len(root[t]) < num[t] /\ root' = [root EXCEPT ![t] = <<b>> \o @]
      /\ UNCHANGED <<pc, maxElementsCount, num, L0, L1, freed>>
  BY DEF WarmupAlloc, cache
<1>2. root'[t] = <<b>> \o root[t] /\ root' = [root EXCEPT ![t] = root'[t]]
  BY <1>1 DEF CacheInv, CacheTyped
<1>3. root'[t] \in Seq(Blocks) /\ Len(root'[t]) = 1 + Len(root[t])
  BY <1>2 DEF CacheInv, CacheTyped
<1>4. L1[t] = <<>> /\ freed[t] = <<>> /\ Len(<<>>) = 0
  BY <1>0, <1>1 DEF Mine, Counted
<1>5. Mine(t)'
  BY <1>0, <1>1, <1>2, <1>3, <1>4 DEF Mine, Counted
<1>6. QED
  BY <1>1, <1>2, <1>5, OneThreadMoves DEF CacheInv, CacheTyped

LEMMA WarmupEndKeeps ==
  ASSUME CacheInv, NEW t \in Threads, WarmupEnd(t)
  PROVE  CacheInv'
<1>0. Mine(t) /\ Counted(t)
  BY MineNow
<1>1. /\ pc[t] = "warmup" /\ L1' = [L1 EXCEPT ![t] = @ \o root[t]]
      /\ root' = [root EXCEPT ![t] = <<>>] /\ pc' = [pc EXCEPT ![t] = "warm"]
      /\ UNCHANGED <<maxElementsCount, num, L0, freed>>
  BY DEF WarmupEnd
<1>2. L1'[t] = L1[t] \o root[t] /\ L1' = [L1 EXCEPT ![t] = L1'[t]]
  BY <1>1 DEF CacheInv, CacheTyped
<1>3. L1'[t] \in Seq(Blocks) /\ Len(L1'[t]) = Len(L1[t]) + Len(root[t])
  BY <1>2 DEF CacheInv, CacheTyped
<1>4. /\ root'[t] = <<>> /\ pc'[t] = "warm"
      /\ root' = [root EXCEPT ![t] = root'[t]] /\ pc' = [pc EXCEPT ![t] = pc'[t]]
  BY <1>1 DEF CacheInv, CacheTyped
<1>5. <<>> \in Seq(Blocks) /\ Len(<<>>) = 0
  OBVIOUS
<1>6. Mine(t)'
  <2>1. Len(L1'[t]) + Len(root'[t]) + Len(freed'[t]) <= maxElementsCount'[t]
    <3>1. /\ Len(L1'[t]) = Len(L1[t]) + Len(root[t]) /\ Len(root'[t]) = 0
          /\ Len(freed'[t]) = Len(freed[t]) /\ maxElementsCount'[t] = maxElementsCount[t]
      BY <1>1, <1>3, <1>4, <1>5
    <3>2. Len(L1[t]) + Len(root[t]) + Len(freed[t]) <= maxElementsCount[t] /\ Counted(t)
      BY <1>0 DEF Mine
    <3>3. QED
      <4>1. /\ Len(L1[t]) \in Nat /\ Len(root[t]) \in Nat /\ Len(freed[t]) \in Nat
            /\ maxElementsCount[t] \in Nat
        BY <3>2 DEF Counted
      <4>2. QED
        BY <3>1, <3>2, <4>1, Moved
  <2>2. QED
    BY <1>0, <1>1, <1>3, <1>4, <1>5, <2>1 DEF Mine, Phases
<1>7. QED
  BY <1>1, <1>2, <1>4, <1>6, OneThreadMoves DEF CacheInv, CacheTyped

LEMMA WarmupReturnKeeps ==
  ASSUME CacheInv, NEW t \in Threads, WarmupReturn(t)
  PROVE  CacheInv'
<1>0. Mine(t) /\ Counted(t)
  BY MineNow
<1>1. /\ pc[t] = "warm" /\ num' = [num EXCEPT ![t] = 0] /\ pc' = [pc EXCEPT ![t] = "idle"]
      /\ UNCHANGED <<maxElementsCount, L0, L1, root, freed>>
  BY DEF WarmupReturn, cache
<1>2. /\ num'[t] = 0 /\ pc'[t] = "idle"
      /\ num' = [num EXCEPT ![t] = num'[t]] /\ pc' = [pc EXCEPT ![t] = pc'[t]]
  BY <1>1 DEF CacheInv, CacheTyped
<1>3. Mine(t)'
  BY <1>0, <1>1, <1>2 DEF Mine, Counted, Phases
<1>4. QED
  BY <1>1, <1>2, <1>3, OneThreadMoves DEF CacheInv, CacheTyped

LEMMA DestroyKeeps ==
  ASSUME CacheInv, NEW t \in Threads, DestroyThreadCache(t)
  PROVE  CacheInv'
<1>0. Mine(t) /\ Counted(t)
  BY MineNow
<1>1. /\ pc[t] = "idle" /\ L0' = [L0 EXCEPT ![t] = <<>>] /\ L1' = [L1 EXCEPT ![t] = <<>>]
      /\ pc' = [pc EXCEPT ![t] = "destroy"]
      /\ UNCHANGED <<maxElementsCount, num, root, freed>>
  BY DEF DestroyThreadCache, warming
<1>2. /\ L0'[t] = <<>> /\ L1'[t] = <<>> /\ pc'[t] = "destroy"
      /\ L0' = [L0 EXCEPT ![t] = L0'[t]] /\ L1' = [L1 EXCEPT ![t] = L1'[t]]
      /\ pc' = [pc EXCEPT ![t] = pc'[t]]
  BY <1>1 DEF CacheInv, CacheTyped
<1>3. <<>> \in Seq(Blocks) /\ Len(<<>>) = 0
  OBVIOUS
<1>4. root[t] = <<>> /\ freed[t] = <<>>
  BY <1>0, <1>1 DEF Mine, Counted
<1>5. Mine(t)'
  BY <1>0, <1>1, <1>2, <1>3, <1>4 DEF Mine, Counted, Phases
<1>6. QED
  BY <1>1, <1>2, <1>5, OneThreadMoves DEF CacheInv, CacheTyped

LEMMA DestroyEndKeeps ==
  ASSUME CacheInv, NEW t \in Threads, DestroyEnd(t)
  PROVE  CacheInv'
<1>0. Mine(t) /\ Counted(t)
  BY MineNow
<1>1. /\ pc[t] = "destroy" /\ maxElementsCount' = [maxElementsCount EXCEPT ![t] = 0]
      /\ pc' = [pc EXCEPT ![t] = "idle"]
      /\ UNCHANGED <<num, L0, L1, root, freed>>
  BY DEF DestroyEnd, warming
<1>2. /\ maxElementsCount'[t] = 0 /\ pc'[t] = "idle"
      /\ maxElementsCount' = [maxElementsCount EXCEPT ![t] = maxElementsCount'[t]]
      /\ pc' = [pc EXCEPT ![t] = pc'[t]]
  BY <1>1 DEF CacheInv, CacheTyped
<1>3. L1[t] = <<>> /\ root[t] = <<>> /\ freed[t] = <<>> /\ Len(<<>>) = 0
  BY <1>0, <1>1 DEF Mine, Counted
<1>4. Mine(t)'
  BY <1>0, <1>1, <1>2, <1>3 DEF Mine, Counted, Phases
<1>5. QED
  BY <1>1, <1>2, <1>4, OneThreadMoves DEF CacheInv, CacheTyped

LEMMA CacheNext ==
  ASSUME CacheInv, [Next]_vars
  PROVE  CacheInv'
<1>1. ASSUME NEW t \in Threads, Call(t) PROVE CacheInv'
  BY <1>1, AllocL0Keeps, AllocL1Keeps, PoolOnlyKeeps, FreeL0Keeps, FreeL1Keeps,
     FreeFlushKeeps, CreateKeeps, DestroyKeeps DEF Call, AllocPool
<1>2. ASSUME NEW t \in Threads, Step(t) PROVE CacheInv'
  BY <1>2, PoolOnlyKeeps, FreeFlushEndKeeps, WarmupAllocKeeps, WarmupEndKeeps,
     WarmupReturnKeeps, DestroyEndKeeps DEF Step
<1>3. CASE UNCHANGED vars
  BY <1>3 DEF vars, CacheInv, CacheTyped, CacheFits, CallShape
<1>4. QED
  BY <1>1, <1>2, <1>3 DEF Next

(* No Free(), warm-up or Destroy() writes past storageL0 or past the part    *)
(* of pStorageL1 that leaves room for L0.                                    *)
THEOREM CacheStaysInBounds == Spec => []CacheFits
<1>1. CacheInv /\ [Next]_vars => CacheInv'
  BY CacheNext
<1>2. CacheInv => CacheFits
  BY DEF CacheInv
<1>3. QED
  BY CacheInit, <1>1, <1>2, PTL DEF Spec

(* A Free() that flushed leaves the cache half empty, less the block it      *)
(* stores: the next ones need no operation on the pool.                      *)
THEOREM FlushLeavesRoom == Spec => FlushMakesRoom
<1> DEFINE Room(t) == pc[t] = "flush" /\ pc'[t] = "idle"
             => maxElementsCount[t] - Len(L1'[t]) >= maxElementsCount[t] \div 2 - 1
<1>1. ASSUME CacheInv, Next PROVE \A t \in Threads : Room(t)
  <2> SUFFICES ASSUME NEW t \in Threads, pc[t] = "flush", pc'[t] = "idle"
               PROVE  maxElementsCount[t] - Len(L1'[t]) >= maxElementsCount[t] \div 2 - 1
    OBVIOUS
  <2>1. PICK u \in Threads : Call(u) \/ Step(u)
    BY <1>1 DEF Next
  <2>2. pc \in [Threads -> Phases] /\ L1 \in [Threads -> Seq(Blocks)]
    BY <1>1 DEF CacheInv, CacheTyped
  <2>3. u = t
    <3>1. ASSUME u # t, Call(u) PROVE pc'[t] = pc[t]
      BY <2>2, <3>1 DEF Call, AllocL0, AllocL1, AllocPool, AllocOverflow, FreePool, FreeL0, FreeL1, FreeFlush,
         CreateThreadCache, DestroyThreadCache
    <3>2. ASSUME u # t, Step(u) PROVE pc'[t] = pc[t]
      BY <2>2, <3>2 DEF Step, FreePoolEnd, FreeFlushEnd, WarmupAlloc, WarmupEnd, WarmupReturn,
         DestroyEnd
    <3>3. QED
      BY <2>1, <3>1, <3>2
  <2>4. ~Call(t)
    BY DEF Call, AllocL0, AllocL1, AllocPool, AllocOverflow, FreePool, FreeL0, FreeL1, FreeFlush,
       CreateThreadCache, DestroyThreadCache
  <2>5. FreeFlushEnd(t)
    BY <2>1, <2>3, <2>4 DEF Step, FreePoolEnd, WarmupAlloc, WarmupEnd, WarmupReturn, DestroyEnd
  <2>6. L1'[t] = L1[t] \o freed[t]
    BY <2>2, <2>5 DEF FreeFlushEnd
  <2>7. Mine(t) /\ Counted(t)
    BY <1>1, MineNow
  <2>8. Len(L1'[t]) = Len(L1[t]) + 1 /\ Len(L1[t]) <= maxElementsCount[t] - maxElementsCount[t] \div 2
    <3>1. L1[t] \in Seq(Blocks) /\ freed[t] \in Seq(Blocks) /\ Len(freed[t]) = 1
      BY <2>7 DEF Mine
    <3>2. Len(L1[t] \o freed[t]) = Len(L1[t]) + Len(freed[t])
      BY <3>1, ConcatProperties
    <3>3. Len(L1[t]) <= maxElementsCount[t] - maxElementsCount[t] \div 2
      BY <2>7 DEF Mine
    <3>4. QED
      BY <2>6, <3>1, <3>2, <3>3
  <2>9. Len(L1[t]) \in Nat /\ maxElementsCount[t] \in Nat
    BY <2>7 DEF Counted
  <2>10. QED
    BY <2>8, <2>9
<1>2. CacheInv /\ [Next]_vars => CacheInv' /\ [\A t \in Threads : Room(t)]_vars
  BY <1>1, CacheNext
<1>3. QED
  BY CacheInit, <1>2, PTL DEF Spec, FlushMakesRoom
-----------------------------------------------------------------------------
(* Nor do the caches hand out a block twice or lose one: the pool, the       *)
(* program, the caches and the releases in progress divide the blocks of the *)
(* bucket among them, whatever the threads do and in whatever order.         *)

(* Owned(t) as a set, and its four parts: each has a block once, no two of   *)
(* them have the same.                                                       *)
Has(t) == Range(L0[t]) \union Range(L1[t]) \union Range(root[t]) \union Range(freed[t])

Whole(t) ==
  /\ IsInjective(L0[t]) /\ IsInjective(L1[t]) /\ IsInjective(root[t]) /\ IsInjective(freed[t])
  /\ Range(L0[t]) \intersect Range(L1[t]) = {}
  /\ Range(L0[t]) \intersect Range(root[t]) = {}
  /\ Range(L0[t]) \intersect Range(freed[t]) = {}
  /\ Range(L1[t]) \intersect Range(root[t]) = {}
  /\ Range(L1[t]) \intersect Range(freed[t]) = {}
  /\ Range(root[t]) \intersect Range(freed[t]) = {}

(* Everything thread t can move blocks between is apart ... *)
Apart(t) ==
  /\ free \intersect Has(t) = {} /\ free \intersect releasing[t] = {}
  /\ held \intersect Has(t) = {} /\ held \intersect releasing[t] = {}
  /\ Has(t) \intersect releasing[t] = {}

(* ... and apart from what the other threads have. *)
Divided ==
  /\ free \intersect held = {}
  /\ \A t \in Threads : Apart(t)
  /\ \A t, u \in Threads : t # u =>
       (Has(t) \union releasing[t]) \intersect (Has(u) \union releasing[u]) = {}

Accounted ==
  /\ \A b \in Blocks : b \in free \union held \/ \E t \in Threads : b \in Has(t) \union releasing[t]
  /\ \A b : b \in allocated <=> b \in held \/ \E t \in Threads : b \in Has(t)

PoolTyped ==
  /\ free \subseteq Blocks /\ held \subseteq Blocks /\ releasing \in [Threads -> SUBSET Blocks]

(* Only a call that gives blocks back has some on their way. *)
Releasing == \A t \in Threads : pc[t] \notin {"free", "flush", "destroy"} => releasing[t] = {}

OwnInv ==
  /\ CacheInv /\ PoolTyped /\ Releasing /\ Divided /\ Accounted
  /\ \A t \in Threads : Whole(t)
-----------------------------------------------------------------------------
(* Two stacks in a row. *)
LEMMA Concat ==
  ASSUME NEW S, NEW a \in Seq(S), NEW b \in Seq(S)
  PROVE  /\ a \o b \in Seq(S)
         /\ Range(a \o b) = Range(a) \union Range(b)
         /\ IsInjective(a \o b) <=> IsInjective(a) /\ IsInjective(b) /\ Range(a) \intersect Range(b) = {}
<1> DEFINE c == a \o b
           m == Len(a)
           n == Len(b)
<1>1. /\ c \in Seq(S) /\ m \in Nat /\ n \in Nat /\ Len(c) = m + n
      /\ DOMAIN a = 1..m /\ DOMAIN b = 1..n /\ DOMAIN c = 1..(m + n)
  OBVIOUS
<1>2. \A i \in 1..m : i \in 1..(m + n) /\ c[i] = a[i]
  BY <1>1
<1>3. \A i \in 1..n : m + i \in 1..(m + n) /\ c[m + i] = b[i]
  BY <1>1
<1>4. ASSUME NEW i \in 1..(m + n)
      PROVE  i \in 1..m \/ \E k \in 1..n : i = m + k
  <2>1. CASE i > m
    <3>1. i - m \in 1..n /\ i = m + (i - m)
      BY <1>1, <2>1
    <3>2. QED
      BY <3>1
  <2>2. QED
    BY <1>1, <2>1
<1> HIDE DEF c, m, n
<1>5. Range(c) = Range(a) \union Range(b)
  <2>1. ASSUME NEW x \in Range(c) PROVE x \in Range(a) \union Range(b)
    <3>1. PICK i \in 1..(m + n) : x = c[i]
      BY <1>1 DEF Range
    <3>2. QED
      BY <1>1, <1>2, <1>3, <1>4, <3>1 DEF Range
  <2>2. ASSUME NEW x \in Range(a) \union Range(b) PROVE x \in Range(c)
    BY <1>1, <1>2, <1>3 DEF Range
  <2>3. QED
    BY <2>1, <2>2
<1>6. ASSUME IsInjective(c) PROVE IsInjective(a) /\ IsInjective(b) /\ Range(a) \intersect Range(b) = {}
  <2>1. IsInjective(a)
    BY <1>1, <1>2, <1>6 DEF IsInjective
  <2>2. ASSUME NEW i \in 1..n, NEW j \in 1..n, b[i] = b[j] PROVE i = j
    <3>1. m + i = m + j
      BY <1>1, <1>3, <1>6, <2>2 DEF IsInjective
    <3>2. QED
      BY <1>1, <3>1
  <2>3. ASSUME NEW i \in 1..m, NEW j \in 1..n, a[i] = b[j] PROVE FALSE
    <3>1. i = m + j
      BY <1>1, <1>2, <1>3, <1>6, <2>3 DEF IsInjective
    <3>2. QED
      BY <1>1, <3>1
  <2>4. QED
    BY <1>1, <2>1, <2>2, <2>3 DEF IsInjective, Range
<1>7. ASSUME IsInjective(a), IsInjective(b), Range(a) \intersect Range(b) = {} PROVE IsInjective(c)
  <2> SUFFICES ASSUME NEW i \in 1..(m + n), NEW j \in 1..(m + n), c[i] = c[j] PROVE i = j
    BY <1>1 DEF IsInjective
  <2>1. CASE i \in 1..m /\ j \in 1..m
    BY <1>1, <1>2, <1>7, <2>1 DEF IsInjective
  <2>2. \A x \in 1..m, y \in 1..n : c[x] # c[m + y]
    BY <1>1, <1>2, <1>3, <1>7 DEF Range
  <2>3. \A x, y \in 1..n : c[m + x] = c[m + y] => x = y
    BY <1>1, <1>3, <1>7 DEF IsInjective
  <2>4. QED
    BY <1>4, <2>1, <2>2, <2>3
<1>8. QED
  BY <1>1, <1>5, <1>6, <1>7 DEF c

(* One block in a stack. *)
LEMMA Single ==
  ASSUME NEW S, NEW b \in S
  PROVE  <<b>> \in Seq(S) /\ Range(<<b>>) = {b} /\ IsInjective(<<b>>)
BY DEF Range, IsInjective

LEMMA NoBlocks == Range(<<>>) = {} /\ IsInjective(<<>>)
BY DEF Range, IsInjective

LEMMA Appended ==
  ASSUME NEW S, NEW s \in Seq(S), NEW b \in S, IsInjective(s), b \notin Range(s)
  PROVE  Append(s, b) \in Seq(S) /\ Range(Append(s, b)) = Range(s) \union {b} /\ IsInjective(Append(s, b))
<1> DEFINE t == <<b>>
<1>1. Append(s, b) = s \o t
  OBVIOUS
<1>2. t \in Seq(S) /\ Range(t) = {b} /\ IsInjective(t)
  BY Single
<1> HIDE DEF t
<1>3. Range(s) \intersect {b} = {}
  OBVIOUS
<1>4. QED
  BY <1>1, <1>2, <1>3, Concat

(* A stack cut in two: what is left, and what is taken off its top. *)
LEMMA Cut ==
  ASSUME NEW S, NEW s \in Seq(S), IsInjective(s), NEW k \in 0..Len(s)
  PROVE  /\ IsInjective(SubSeq(s, 1, k))
         /\ Range(SubSeq(s, 1, k)) = Range(s) \ {s[i] : i \in (k + 1)..Len(s)}
<1>1. Len(s) \in Nat /\ k \in Nat /\ DOMAIN s = 1..Len(s)
  OBVIOUS
<1>2. SubSeq(s, 1, k) = [i \in 1..k |-> s[i]]
  BY <1>1
<1> DEFINE f == [i \in 1..k |-> s[i]]
<1>3. \A i \in 1..k : i \in 1..Len(s) /\ i \notin (k + 1)..Len(s)
  BY <1>1
<1>4. \A i \in 1..Len(s) : i \in 1..k \/ i \in (k + 1)..Len(s)
  BY <1>1
<1>5. (k + 1)..Len(s) \subseteq 1..Len(s)
  BY <1>1
<1>6. IsInjective(f)
  BY <1>1, <1>3 DEF IsInjective
<1>7. Range(f) = Range(s) \ {s[i] : i \in (k + 1)..Len(s)}
  BY <1>1, <1>3, <1>4, <1>5 DEF IsInjective, Range
<1>8. QED
  BY <1>2, <1>6, <1>7

LEMMA FrontLoses ==
  ASSUME NEW S, NEW s \in Seq(S), IsInjective(s), s # <<>>
  PROVE  /\ Last(s) \in Range(s) /\ IsInjective(Front(s)) /\ Range(Front(s)) = Range(s) \ {Last(s)}
<1>1. Len(s) \in Nat \ {0} /\ DOMAIN s = 1..Len(s)
  BY EmptySeq
<1>2. Len(s) - 1 \in 0..Len(s) /\ (Len(s) - 1 + 1)..Len(s) = {Len(s)}
  BY <1>1
<1>3. {s[i] : i \in (Len(s) - 1 + 1)..Len(s)} = {s[Len(s)]}
  BY <1>2
<1>4. /\ IsInjective(SubSeq(s, 1, Len(s) - 1))
      /\ Range(SubSeq(s, 1, Len(s) - 1)) = Range(s) \ {s[i] : i \in (Len(s) - 1 + 1)..Len(s)}
  BY <1>2, Cut
<1>5. s[Len(s)] \in Range(s)
  BY <1>1 DEF Range
<1>6. QED
  BY <1>3, <1>4, <1>5 DEF Last, Front
-----------------------------------------------------------------------------
(* A step of thread t leaves what the other threads have alone. *)
OthersStay(t) ==
  /\ \A u \in Threads : u # t =>
       /\ pc'[u] = pc[u] /\ releasing'[u] = releasing[u]
       /\ L0'[u] = L0[u] /\ L1'[u] = L1[u] /\ root'[u] = root[u] /\ freed'[u] = freed[u]
  /\ releasing' = [releasing EXCEPT ![t] = releasing'[t]]

LEMMA HasBlocks ==
  ASSUME CacheInv, NEW t \in Threads
  PROVE  Has(t) \subseteq Blocks
<1>1. \A s \in Seq(Blocks) : Range(s) \subseteq Blocks
  BY DEF Range
<1>2. QED
  BY <1>1 DEF CacheInv, CacheTyped, Has

(* Blocks move between the pool, the program, the cache of t and its release: *)
(* it is enough that these four stay apart and have together what they had.   *)
LEMMA ThreadMoves ==
  ASSUME OwnInv, NEW t \in Threads, CacheInv', OthersStay(t), Whole(t)', Apart(t)',
         free' \intersect held' = {},
         \A b : b \in free' \union held' \union Has(t)' \union releasing'[t] <=>
                b \in free \union held \union Has(t) \union releasing[t],
         \A b : b \in allocated' <=>
                (b \in allocated /\ b \notin held \union Has(t)) \/ b \in held' \union Has(t)',
         pc'[t] \notin {"free", "flush", "destroy"} => releasing'[t] = {}
  PROVE  OwnInv'
<1>1. ASSUME NEW u \in Threads, u # t
      PROVE  /\ pc'[u] = pc[u] /\ releasing'[u] = releasing[u]
             /\ Has(u)' = Has(u) /\ Whole(u)'
  <2>1. Whole(u)
    BY DEF OwnInv
  <2>2. QED
    BY <1>1, <2>1 DEF OthersStay, Has, Whole
<1>2. PoolTyped'
  <2>1. Has(t) \subseteq Blocks
    BY HasBlocks DEF OwnInv
  <2>2. free \union held \union Has(t) \union releasing[t] \subseteq Blocks
    BY <2>1 DEF OwnInv, PoolTyped
  <2>3. free' \subseteq Blocks /\ held' \subseteq Blocks /\ releasing'[t] \subseteq Blocks
    BY <2>2
  <2>4. QED
    BY <2>3 DEF OwnInv, PoolTyped, OthersStay
<1>3. Releasing'
  BY <1>1 DEF OwnInv, Releasing
<1>4. Divided /\ Accounted
  BY DEF OwnInv
<1>5. ASSUME NEW u \in Threads, u # t
      PROVE  (Has(u) \union releasing[u]) \intersect
             (free' \union held' \union Has(t)' \union releasing'[t]) = {}
  BY <1>4, <1>5 DEF Divided, Apart
<1>6. Divided'
  <2>1. ASSUME NEW u \in Threads PROVE Apart(u)'
    <3>1. CASE u # t
      BY <1>1, <1>4, <1>5, <3>1 DEF Divided, Apart
    <3>2. QED
      BY <3>1
  <2>2. ASSUME NEW u \in Threads, NEW v \in Threads, u # v
        PROVE  (Has(u)' \union releasing'[u]) \intersect (Has(v)' \union releasing'[v]) = {}
    <3>1. CASE u # t /\ v # t
      BY <1>1, <1>4, <2>2, <3>1 DEF Divided
    <3>2. CASE u = t
      BY <1>1, <1>5, <2>2, <3>2
    <3>3. CASE v = t
      BY <1>1, <1>5, <2>2, <3>3
    <3>4. QED
      BY <3>1, <3>2, <3>3
  <2>3. QED
    BY <2>1, <2>2 DEF Divided
<1>7. Accounted'
  <2>1. ASSUME NEW b \in Blocks
        PROVE  b \in free' \union held' \/ \E u \in Threads : b \in Has(u)' \union releasing'[u]
    BY <1>1, <1>4 DEF Accounted
  <2>2. ASSUME NEW b PROVE b \in allocated' <=> b \in held' \/ \E u \in Threads : b \in Has(u)'
    <3>1. CASE b \in held' \union Has(t)'
      BY <3>1
    <3>2. CASE b \notin held' \union Has(t)'
      <4>1. b \in allocated' <=> b \in allocated /\ b \notin held \union Has(t)
        BY <3>2
      <4>2. b \in allocated <=> b \in held \/ \E u \in Threads : b \in Has(u)
        BY <1>4 DEF Accounted
      <4>3. ASSUME b \in allocated' PROVE \E u \in Threads : b \in Has(u)'
        BY <1>1, <4>1, <4>2, <4>3
      <4>4. ASSUME NEW u \in Threads, b \in Has(u)' PROVE b \in allocated'
        <5>1. u # t /\ b \in Has(u)
          BY <1>1, <3>2, <4>4
        <5>2. b \notin held \union Has(t)
          BY <1>4, <5>1 DEF Divided, Apart
        <5>3. QED
          BY <4>1, <4>2, <5>1, <5>2
      <4>5. QED
        BY <3>2, <4>3, <4>4
    <3>3. QED
      BY <3>1, <3>2
  <2>3. QED
    BY <2>1, <2>2 DEF Accounted
<1>8. QED
  BY <1>1, <1>2, <1>3, <1>6, <1>7 DEF OwnInv

LEMMA Now ==
  ASSUME OwnInv, NEW t \in Threads
  PROVE  /\ Whole(t) /\ Apart(t) /\ free \intersect held = {}
         /\ held \subseteq allocated /\ Has(t) \subseteq allocated
         /\ free \intersect allocated = {} /\ free \subseteq Blocks /\ held \subseteq Blocks
         /\ L0[t] \in Seq(Blocks) /\ L1[t] \in Seq(Blocks)
         /\ root[t] \in Seq(Blocks) /\ freed[t] \in Seq(Blocks)
         /\ pc[t] \notin {"free", "flush", "destroy"} => releasing[t] = {}
         /\ pc[t] # "warmup" => root[t] = <<>>
         /\ pc[t] # "flush" => freed[t] = <<>>
         /\ pc \in [Threads -> Phases] /\ releasing \in [Threads -> SUBSET Blocks]
         /\ L0 \in [Threads -> Seq(Blocks)] /\ L1 \in [Threads -> Seq(Blocks)]
         /\ root \in [Threads -> Seq(Blocks)] /\ freed \in [Threads -> Seq(Blocks)]
<1>1. Whole(t) /\ Apart(t) /\ free \intersect held = {}
  BY DEF OwnInv, Divided
<1>2. held \subseteq allocated /\ Has(t) \subseteq allocated
  BY DEF OwnInv, Accounted
<1>3. free \intersect allocated = {}
  BY DEF OwnInv, Accounted, Divided, Apart
<1>4. /\ free \subseteq Blocks /\ held \subseteq Blocks /\ releasing \in [Threads -> SUBSET Blocks]
      /\ pc[t] \notin {"free", "flush", "destroy"} => releasing[t] = {}
  BY DEF OwnInv, PoolTyped, Releasing
<1>5. /\ pc \in [Threads -> Phases]
      /\ L0 \in [Threads -> Seq(Blocks)] /\ L1 \in [Threads -> Seq(Blocks)]
      /\ root \in [Threads -> Seq(Blocks)] /\ freed \in [Threads -> Seq(Blocks)]
  BY DEF OwnInv, CacheInv, CacheTyped
<1>6. (pc[t] # "warmup" => root[t] = <<>>) /\ (pc[t] # "flush" => freed[t] = <<>>)
  BY DEF OwnInv, CacheInv, CallShape
<1>7. QED
  BY <1>1, <1>2, <1>3, <1>4, <1>5, <1>6

(* Alloc() from a stack: the block was in no other place. *)
LEMMA AllocL0Owns ==
  ASSUME OwnInv, NEW t \in Threads, AllocL0(t)
  PROVE  OwnInv'
<1>0. CacheInv'
  BY AllocL0Keeps DEF OwnInv
<1>1. /\ pc[t] = "idle" /\ L0[t] # <<>> /\ held' = held \union {Last(L0[t])}
      /\ L0' = [L0 EXCEPT ![t] = Front(@)]
      /\ UNCHANGED <<free, allocated, releasing, pc, L1, root, freed>>
  BY DEF AllocL0, pool, warming
<1>2. L0'[t] = Front(L0[t]) /\ OthersStay(t)
  BY <1>1, Now DEF OthersStay
<1>3. /\ Last(L0[t]) \in Range(L0[t]) /\ IsInjective(Front(L0[t]))
      /\ Range(Front(L0[t])) = Range(L0[t]) \ {Last(L0[t])}
  BY <1>1, Now, FrontLoses DEF Whole
<1>4. Whole(t)' /\ Has(t)' = Has(t) \ {Last(L0[t])} /\ Last(L0[t]) \in Has(t)
  <2>1. Whole(t)
    BY Now
  <2>2. Whole(t)'
    BY <1>1, <1>2, <1>3, <2>1 DEF Whole
  <2>3. Has(t)' = Has(t) \ {Last(L0[t])} /\ Last(L0[t]) \in Has(t)
    BY <1>1, <1>2, <1>3, <2>1 DEF Whole, Has
  <2>4. QED
    BY <2>2, <2>3
<1>5. Apart(t)' /\ free' \intersect held' = {}
  BY <1>1, <1>4, Now DEF Apart
<1>6. /\ \A b : b \in free' \union held' \union Has(t)' \union releasing'[t] <=>
                b \in free \union held \union Has(t) \union releasing[t]
      /\ \A b : b \in allocated' <=>
                (b \in allocated /\ b \notin held \union Has(t)) \/ b \in held' \union Has(t)'
  BY <1>1, <1>4, Now
<1>7. QED
  BY <1>0, <1>1, <1>2, <1>4, <1>5, <1>6, Now, ThreadMoves

LEMMA AllocL1Owns ==
  ASSUME OwnInv, NEW t \in Threads, AllocL1(t)
  PROVE  OwnInv'
<1>0. CacheInv'
  BY AllocL1Keeps DEF OwnInv
<1>1. /\ pc[t] = "idle" /\ L1[t] # <<>> /\ held' = held \union {Last(L1[t])}
      /\ L1' = [L1 EXCEPT ![t] = Front(@)]
      /\ UNCHANGED <<free, allocated, releasing, pc, L0, root, freed>>
  BY DEF AllocL1, pool, warming
<1>2. L1'[t] = Front(L1[t]) /\ OthersStay(t)
  BY <1>1, Now DEF OthersStay
<1>3. /\ Last(L1[t]) \in Range(L1[t]) /\ IsInjective(Front(L1[t]))
      /\ Range(Front(L1[t])) = Range(L1[t]) \ {Last(L1[t])}
  BY <1>1, Now, FrontLoses DEF Whole
<1>4. Whole(t)' /\ Has(t)' = Has(t) \ {Last(L1[t])} /\ Last(L1[t]) \in Has(t)
  <2>1. Whole(t)
    BY Now
  <2>2. Whole(t)'
    BY <1>1, <1>2, <1>3, <2>1 DEF Whole
  <2>3. Has(t)' = Has(t) \ {Last(L1[t])} /\ Last(L1[t]) \in Has(t)
    BY <1>1, <1>2, <1>3, <2>1 DEF Whole, Has
  <2>4. QED
    BY <2>2, <2>3
<1>5. Apart(t)' /\ free' \intersect held' = {}
  BY <1>1, <1>4, Now DEF Apart
<1>6. /\ \A b : b \in free' \union held' \union Has(t)' \union releasing'[t] <=>
                b \in free \union held \union Has(t) \union releasing[t]
      /\ \A b : b \in allocated' <=>
                (b \in allocated /\ b \notin held \union Has(t)) \/ b \in held' \union Has(t)'
  BY <1>1, <1>4, Now
<1>7. QED
  BY <1>0, <1>1, <1>2, <1>4, <1>5, <1>6, Now, ThreadMoves

(* A block of the pool for the program, whatever the thread has cached. *)
LEMMA AllocPoolOwns ==
  ASSUME OwnInv, NEW t \in Threads, NEW b \in Blocks, AllocOverflow(t, b)
  PROVE  OwnInv'
<1>0. CacheInv'
  BY PoolOnlyKeeps DEF OwnInv
<1>1. /\ pc[t] = "idle" /\ b \in free /\ free' = free \ {b} /\ allocated' = allocated \union {b}
      /\ held' = held \union {b} /\ UNCHANGED <<releasing, pc, L0, L1, root, freed>>
  BY DEF AllocOverflow, Pool!Alloc, cache, warming
<1>2. OthersStay(t)
  BY <1>1, Now DEF OthersStay
<1>3. Whole(t)' /\ Has(t)' = Has(t)
  BY <1>1, Now DEF Whole, Has
<1>4. Apart(t)' /\ free' \intersect held' = {}
  BY <1>1, <1>3, Now DEF Apart
<1>5. /\ \A x : x \in free' \union held' \union Has(t)' \union releasing'[t] <=>
                x \in free \union held \union Has(t) \union releasing[t]
      /\ \A x : x \in allocated' <=>
                (x \in allocated /\ x \notin held \union Has(t)) \/ x \in held' \union Has(t)'
  BY <1>1, <1>3, Now
<1>6. QED
  BY <1>0, <1>1, <1>2, <1>3, <1>4, <1>5, Now, ThreadMoves

(* Free() without a cache. *)
LEMMA FreePoolOwns ==
  ASSUME OwnInv, NEW t \in Threads, NEW b \in Blocks, FreePool(t, b)
  PROVE  OwnInv'
<1>0. CacheInv'
  BY PoolOnlyKeeps DEF OwnInv
<1>1. /\ pc[t] = "idle" /\ b \in held /\ held' = held \ {b} /\ allocated' = allocated \ {b}
      /\ releasing' = [releasing EXCEPT ![t] = {b}] /\ pc' = [pc EXCEPT ![t] = "free"]
      /\ UNCHANGED <<free, L0, L1, root, freed>>
  BY DEF FreePool, Pool!FreeBegin, cache, warming
<1>2. /\ OthersStay(t) /\ releasing'[t] = {b} /\ pc'[t] = "free" /\ releasing[t] = {}
  BY <1>1, Now DEF OthersStay
<1>3. Whole(t)' /\ Has(t)' = Has(t)
  BY <1>1, Now DEF Whole, Has
<1>4. Apart(t)' /\ free' \intersect held' = {}
  BY <1>1, <1>2, <1>3, Now DEF Apart
<1>5. /\ \A x : x \in free' \union held' \union Has(t)' \union releasing'[t] <=>
                x \in free \union held \union Has(t) \union releasing[t]
      /\ \A x : x \in allocated' <=>
                (x \in allocated /\ x \notin held \union Has(t)) \/ x \in held' \union Has(t)'
  BY <1>1, <1>2, <1>3, Now DEF Apart
<1>6. QED
  BY <1>0, <1>1, <1>2, <1>3, <1>4, <1>5, ThreadMoves

LEMMA FreePoolEndOwns ==
  ASSUME OwnInv, NEW t \in Threads, FreePoolEnd(t)
  PROVE  OwnInv'
<1>0. CacheInv'
  BY PoolOnlyKeeps DEF OwnInv
<1>1. /\ free' = free \union releasing[t] /\ releasing' = [releasing EXCEPT ![t] = {}]
      /\ pc' = [pc EXCEPT ![t] = "idle"] /\ UNCHANGED <<allocated, held, L0, L1, root, freed>>
  BY DEF FreePoolEnd, Pool!FreeEnd, cache, warming
<1>2. OthersStay(t) /\ releasing'[t] = {}
  BY <1>1, Now DEF OthersStay
<1>3. Whole(t)' /\ Has(t)' = Has(t)
  BY <1>1, Now DEF Whole, Has
<1>4. Apart(t)' /\ free' \intersect held' = {}
  BY <1>1, <1>2, <1>3, Now DEF Apart
<1>5. /\ \A x : x \in free' \union held' \union Has(t)' \union releasing'[t] <=>
                x \in free \union held \union Has(t) \union releasing[t]
      /\ \A x : x \in allocated' <=>
                (x \in allocated /\ x \notin held \union Has(t)) \/ x \in held' \union Has(t)'
  BY <1>1, <1>2, <1>3, Now
<1>6. QED
  BY <1>0, <1>1, <1>2, <1>3, <1>4, <1>5, ThreadMoves

(* Free() to a stack: the program had the block, so no cache has it. *)
LEMMA FreeL0Owns ==
  ASSUME OwnInv, NEW t \in Threads, NEW b \in Blocks, FreeL0(t, b)
  PROVE  OwnInv'
<1>0. CacheInv'
  BY FreeL0Keeps DEF OwnInv
<1>1. /\ pc[t] = "idle" /\ b \in held /\ held' = held \ {b}
      /\ L0' = [L0 EXCEPT ![t] = Append(@, b)]
      /\ UNCHANGED <<free, allocated, releasing, pc, L1, root, freed>>
  BY DEF FreeL0, pool, warming
<1>2. L0'[t] = Append(L0[t], b) /\ OthersStay(t)
  BY <1>1, Now DEF OthersStay
<1>3. Whole(t) /\ Apart(t) /\ b \notin Has(t)
  BY <1>1, Now DEF Apart
<1>4. IsInjective(L0'[t]) /\ Range(L0'[t]) = Range(L0[t]) \union {b}
  BY <1>2, <1>3, Now, Appended DEF Whole, Has
<1>5. Whole(t)'
  BY <1>1, <1>3, <1>4 DEF Whole, Has
<1>6. Has(t)' = Has(t) \union {b}
  BY <1>1, <1>4 DEF Has
<1>7. Apart(t)' /\ free' \intersect held' = {}
  BY <1>1, <1>6, Now DEF Apart
<1>8. /\ \A x : x \in free' \union held' \union Has(t)' \union releasing'[t] <=>
                x \in free \union held \union Has(t) \union releasing[t]
      /\ \A x : x \in allocated' <=>
                (x \in allocated /\ x \notin held \union Has(t)) \/ x \in held' \union Has(t)'
  BY <1>1, <1>6, Now
<1>9. QED
  BY <1>0, <1>1, <1>2, <1>5, <1>7, <1>8, Now, ThreadMoves

LEMMA FreeL1Owns ==
  ASSUME OwnInv, NEW t \in Threads, NEW b \in Blocks, FreeL1(t, b)
  PROVE  OwnInv'
<1>0. CacheInv'
  BY FreeL1Keeps DEF OwnInv
<1>1. /\ pc[t] = "idle" /\ b \in held /\ held' = held \ {b}
      /\ L1' = [L1 EXCEPT ![t] = Append(@, b)]
      /\ UNCHANGED <<free, allocated, releasing, pc, L0, root, freed>>
  BY DEF FreeL1, pool, warming
<1>2. L1'[t] = Append(L1[t], b) /\ OthersStay(t)
  BY <1>1, Now DEF OthersStay
<1>3. Whole(t) /\ Apart(t) /\ b \notin Has(t)
  BY <1>1, Now DEF Apart
<1>4. IsInjective(L1'[t]) /\ Range(L1'[t]) = Range(L1[t]) \union {b}
  BY <1>2, <1>3, Now, Appended DEF Whole, Has
<1>5. Whole(t)'
  BY <1>1, <1>3, <1>4 DEF Whole, Has
<1>6. Has(t)' = Has(t) \union {b}
  BY <1>1, <1>4 DEF Has
<1>7. Apart(t)' /\ free' \intersect held' = {}
  BY <1>1, <1>6, Now DEF Apart
<1>8. /\ \A x : x \in free' \union held' \union Has(t)' \union releasing'[t] <=>
                x \in free \union held \union Has(t) \union releasing[t]
      /\ \A x : x \in allocated' <=>
                (x \in allocated /\ x \notin held \union Has(t)) \/ x \in held' \union Has(t)'
  BY <1>1, <1>6, Now
<1>9. QED
  BY <1>0, <1>1, <1>2, <1>5, <1>7, <1>8, Now, ThreadMoves

(* The flush: what goes back leaves the cache, all of it and nothing else. *)
LEMMA FreeFlushOwns ==
  ASSUME OwnInv, NEW t \in Threads, NEW b \in Blocks, FreeFlush(t, b)
  PROVE  OwnInv'
<1> DEFINE count == FlushCount(L1[t])
           k == Len(L1[t]) - count
           R == Returned(L1[t], count)
<1>0. CacheInv'
  BY FreeFlushKeeps DEF OwnInv
<1>1. /\ pc[t] = "idle" /\ b \in held /\ held' = held \ {b}
      /\ maxElementsCount[t] > 0 /\ Len(L1[t]) >= maxElementsCount[t]
      /\ L1' = [L1 EXCEPT ![t] = Kept(@, count)]
      /\ freed' = [freed EXCEPT ![t] = <<b>>] /\ pc' = [pc EXCEPT ![t] = "flush"]
      /\ UNCHANGED <<L0, root>>
      /\ count # 0 => Pool!FreeBegin(t, R)
  BY DEF FreeFlush, warming
<1>2. Counted(t)
  BY MineNow DEF OwnInv
<1>3. count # 0 /\ count \in 0..Len(L1[t]) /\ k \in 0..Len(L1[t]) /\ Len(L1[t]) \in Nat
  <2>1. Len(L1[t]) \in Nat /\ Len(L1[t]) >= 2
    BY <1>1, <1>2 DEF Counted
  <2>2. \A n \in Nat : n >= 2 => n \div 2 # 0 /\ n \div 2 \in 0..n /\ n - n \div 2 \in 0..n
    OBVIOUS
  <2>3. QED
    BY <2>1, <2>2 DEF FlushCount
<1>4. /\ R \subseteq allocated /\ allocated' = allocated \ R /\ free' = free
      /\ releasing' = [releasing EXCEPT ![t] = R]
  BY <1>1, <1>3 DEF Pool!FreeBegin
<1>5. L1'[t] = SubSeq(L1[t], 1, k) /\ R = {L1[t][i] : i \in (k + 1)..Len(L1[t])}
  BY <1>1, Now DEF Kept, Returned
<1>6. R \subseteq Range(L1[t])
  <2>1. DOMAIN L1[t] = 1..Len(L1[t]) /\ (k + 1)..Len(L1[t]) \subseteq 1..Len(L1[t])
    BY <1>3, Now
  <2>2. QED
    BY <1>5, <2>1 DEF Range
<1>7. IsInjective(L1'[t]) /\ Range(L1'[t]) = Range(L1[t]) \ R
  <2> DEFINE s == L1[t]
  <2>1. s \in Seq(Blocks) /\ IsInjective(s)
    BY Now DEF Whole
  <2> HIDE DEF s, k, R
  <2>2. L1'[t] = SubSeq(s, 1, k) /\ R = {s[i] : i \in (k + 1)..Len(s)} /\ k \in 0..Len(s)
    BY <1>3, <1>5 DEF s
  <2>3. IsInjective(SubSeq(s, 1, k)) /\ Range(SubSeq(s, 1, k)) = Range(s) \ R
    BY <2>1, <2>2, Cut
  <2>4. QED
    BY <2>2, <2>3 DEF s
<1> HIDE DEF count, k, R
<1>8. /\ OthersStay(t) /\ releasing'[t] = R /\ pc'[t] = "flush" /\ releasing[t] = {}
      /\ freed'[t] = <<b>>
  BY <1>1, <1>4, Now DEF OthersStay
<1>9. IsInjective(freed'[t]) /\ Range(freed'[t]) = {b}
  BY <1>8, Single
<1>10. /\ Whole(t) /\ Apart(t) /\ b \notin Has(t) /\ root[t] = <<>> /\ freed[t] = <<>>
  BY <1>1, Now DEF Apart
<1>11. Whole(t)'
  BY <1>1, <1>7, <1>9, <1>10, NoBlocks DEF Whole, Has
<1>12. Has(t)' = (Has(t) \ R) \union {b} /\ R \subseteq Has(t)
  <2>1. Range(freed[t]) = {} /\ Range(root[t]) = {} /\ Range(L0[t]) \intersect Range(L1[t]) = {}
    BY <1>10, NoBlocks DEF Whole
  <2>2. QED
    BY <1>1, <1>6, <1>7, <1>9, <1>10, <2>1 DEF Has
<1>13. Apart(t)' /\ free' \intersect held' = {}
  BY <1>1, <1>4, <1>8, <1>10, <1>12, Now DEF Apart
<1>14. /\ \A x : x \in free' \union held' \union Has(t)' \union releasing'[t] <=>
                 x \in free \union held \union Has(t) \union releasing[t]
       /\ \A x : x \in allocated' <=>
                 (x \in allocated /\ x \notin held \union Has(t)) \/ x \in held' \union Has(t)'
  BY <1>1, <1>4, <1>8, <1>10, <1>12, Now DEF Apart
<1>15. QED
  BY <1>0, <1>1, <1>8, <1>11, <1>13, <1>14, ThreadMoves

(* Both ways a release may end. *)
LEMMA ReleaseEnds ==
  ASSUME OwnInv, NEW t \in Threads,
         IF releasing[t] = {} THEN UNCHANGED pool ELSE Pool!FreeEnd(t)
  PROVE  /\ free' = free \union releasing[t] /\ allocated' = allocated
         /\ releasing' = [releasing EXCEPT ![t] = {}]
<1>1. CASE releasing[t] = {}
  BY <1>1, Now DEF pool
<1>2. QED
  BY <1>1 DEF Pool!FreeEnd

LEMMA FreeFlushEndOwns ==
  ASSUME OwnInv, NEW t \in Threads, FreeFlushEnd(t)
  PROVE  OwnInv'
<1>0. CacheInv'
  BY FreeFlushEndKeeps DEF OwnInv
<1>1. /\ pc[t] = "flush" /\ L1' = [L1 EXCEPT ![t] = @ \o freed[t]]
      /\ freed' = [freed EXCEPT ![t] = <<>>] /\ pc' = [pc EXCEPT ![t] = "idle"]
      /\ UNCHANGED <<held, L0, root>>
  BY DEF FreeFlushEnd, warming
<1>2. /\ free' = free \union releasing[t] /\ allocated' = allocated
      /\ releasing' = [releasing EXCEPT ![t] = {}]
  BY ReleaseEnds DEF FreeFlushEnd
<1>3. /\ L1'[t] = L1[t] \o freed[t] /\ freed'[t] = <<>> /\ releasing'[t] = {} /\ OthersStay(t)
  BY <1>1, <1>2, Now DEF OthersStay
<1>4. Range(L1'[t]) = Range(L1[t]) \union Range(freed[t]) /\ IsInjective(L1'[t])
  <2> DEFINE x == L1[t]  y == freed[t]
  <2>1. x \in Seq(Blocks) /\ y \in Seq(Blocks)
    BY Now
  <2>2. IsInjective(x) /\ IsInjective(y) /\ Range(x) \intersect Range(y) = {}
    BY Now DEF Whole
  <2>3. L1'[t] = x \o y
    BY <1>3
  <2> HIDE DEF x, y
  <2>4. Range(x \o y) = Range(x) \union Range(y) /\ IsInjective(x \o y)
    BY <2>1, <2>2, Concat
  <2>5. QED
    BY <2>3, <2>4 DEF x, y
<1>5. Whole(t)' /\ Has(t)' = Has(t)
  <2>1. Whole(t)
    BY Now
  <2>2. Whole(t)'
    BY <1>1, <1>3, <1>4, <2>1, NoBlocks DEF Whole
  <2>3. Has(t)' = Has(t)
    BY <1>1, <1>3, <1>4, NoBlocks DEF Has
  <2>4. QED
    BY <2>2, <2>3
<1>6. Apart(t)' /\ free' \intersect held' = {}
  BY <1>1, <1>2, <1>3, <1>5, Now DEF Apart
<1>7. /\ \A x : x \in free' \union held' \union Has(t)' \union releasing'[t] <=>
                x \in free \union held \union Has(t) \union releasing[t]
      /\ \A x : x \in allocated' <=>
                (x \in allocated /\ x \notin held \union Has(t)) \/ x \in held' \union Has(t)'
  BY <1>1, <1>2, <1>3, <1>5, Now
<1>8. QED
  BY <1>0, <1>3, <1>5, <1>6, <1>7, ThreadMoves

LEMMA CreateOwns ==
  ASSUME OwnInv, NEW t \in Threads, NEW max \in CacheSizes, CreateThreadCache(t, max)
  PROVE  OwnInv'
<1>0. CacheInv'
  BY CreateKeeps DEF OwnInv
<1>1. /\ pc[t] = "idle" /\ pc' = [pc EXCEPT ![t] = "warmup"]
      /\ UNCHANGED <<free, allocated, releasing, held, L0, L1, root, freed>>
  BY DEF CreateThreadCache, pool
<1>2. OthersStay(t) /\ releasing'[t] = {} /\ releasing[t] = {}
  BY <1>1, Now DEF OthersStay
<1>3. Whole(t)' /\ Has(t)' = Has(t)
  BY <1>1, Now DEF Whole, Has
<1>4. Apart(t)' /\ free' \intersect held' = {}
  BY <1>1, <1>3, Now DEF Apart
<1>5. \A x : x \in allocated' <=>
             (x \in allocated /\ x \notin held \union Has(t)) \/ x \in held' \union Has(t)'
  BY <1>1, <1>3, Now
<1>6. QED
  BY <1>0, <1>1, <1>2, <1>3, <1>4, <1>5, ThreadMoves

(* Warm-up: a block from the pool is in nobody's hands. *)
LEMMA WarmupAllocOwns ==
  ASSUME OwnInv, NEW t \in Threads, NEW b \in Blocks, WarmupAlloc(t, b)
  PROVE  OwnInv'
<1>0. CacheInv'
  BY WarmupAllocKeeps DEF OwnInv
<1>1. /\ pc[t] = "warmup" /\ b \in free /\ free' = free \ {b} /\ allocated' = allocated \union {b}
      /\ root' = [root EXCEPT ![t] = <<b>> \o @]
      /\ UNCHANGED <<releasing, held, pc, L0, L1, freed>>
  BY DEF WarmupAlloc, Pool!Alloc, cache
<1>2. OthersStay(t) /\ root'[t] = <<b>> \o root[t]
  BY <1>1, Now DEF OthersStay
<1>3. Whole(t) /\ b \notin Has(t)
  BY <1>1, Now DEF Apart
<1>4. IsInjective(root'[t]) /\ Range(root'[t]) = Range(root[t]) \union {b}
  <2> DEFINE x == <<b>>  y == root[t]
  <2>1. x \in Seq(Blocks) /\ Range(x) = {b} /\ IsInjective(x)
    BY Single
  <2>2. y \in Seq(Blocks) /\ IsInjective(y) /\ {b} \intersect Range(y) = {}
    BY <1>3, Now DEF Whole, Has
  <2>3. root'[t] = x \o y
    BY <1>2
  <2> HIDE DEF x, y
  <2>4. Range(x \o y) = Range(x) \union Range(y) /\ IsInjective(x \o y)
    BY <2>1, <2>2, Concat
  <2>5. QED
    BY <2>1, <2>3, <2>4 DEF y
<1>5. Whole(t)'
  BY <1>1, <1>3, <1>4 DEF Whole, Has
<1>6. Has(t)' = Has(t) \union {b}
  BY <1>1, <1>4 DEF Has
<1>7. Apart(t)' /\ free' \intersect held' = {}
  BY <1>1, <1>6, Now DEF Apart
<1>8. /\ \A x : x \in free' \union held' \union Has(t)' \union releasing'[t] <=>
                x \in free \union held \union Has(t) \union releasing[t]
      /\ \A x : x \in allocated' <=>
                (x \in allocated /\ x \notin held \union Has(t)) \/ x \in held' \union Has(t)'
  BY <1>1, <1>6, Now
<1>9. QED
  BY <1>0, <1>1, <1>2, <1>5, <1>7, <1>8, Now, ThreadMoves

LEMMA WarmupEndOwns ==
  ASSUME OwnInv, NEW t \in Threads, WarmupEnd(t)
  PROVE  OwnInv'
<1>0. CacheInv'
  BY WarmupEndKeeps DEF OwnInv
<1>1. /\ pc[t] = "warmup" /\ L1' = [L1 EXCEPT ![t] = @ \o root[t]]
      /\ root' = [root EXCEPT ![t] = <<>>] /\ pc' = [pc EXCEPT ![t] = "warm"]
      /\ UNCHANGED <<free, allocated, releasing, held, L0, freed>>
  BY DEF WarmupEnd, pool
<1>2. /\ L1'[t] = L1[t] \o root[t] /\ root'[t] = <<>> /\ OthersStay(t)
      /\ releasing[t] = {} /\ releasing'[t] = {}
  BY <1>1, Now DEF OthersStay
<1>3. Range(L1'[t]) = Range(L1[t]) \union Range(root[t]) /\ IsInjective(L1'[t])
  <2> DEFINE x == L1[t]  y == root[t]
  <2>1. x \in Seq(Blocks) /\ y \in Seq(Blocks)
    BY Now
  <2>2. IsInjective(x) /\ IsInjective(y) /\ Range(x) \intersect Range(y) = {}
    BY Now DEF Whole
  <2>3. L1'[t] = x \o y
    BY <1>2
  <2> HIDE DEF x, y
  <2>4. Range(x \o y) = Range(x) \union Range(y) /\ IsInjective(x \o y)
    BY <2>1, <2>2, Concat
  <2>5. QED
    BY <2>3, <2>4 DEF x, y
<1>4. Whole(t)' /\ Has(t)' = Has(t)
  <2>1. Whole(t)
    BY Now
  <2>2. Whole(t)'
    BY <1>1, <1>2, <1>3, <2>1, NoBlocks DEF Whole
  <2>3. Has(t)' = Has(t)
    BY <1>1, <1>2, <1>3, NoBlocks DEF Has
  <2>4. QED
    BY <2>2, <2>3
<1>5. Apart(t)' /\ free' \intersect held' = {}
  BY <1>1, <1>4, Now DEF Apart
<1>6. \A x : x \in allocated' <=>
             (x \in allocated /\ x \notin held \union Has(t)) \/ x \in held' \union Has(t)'
  BY <1>1, <1>4, Now
<1>7. QED
  BY <1>0, <1>1, <1>2, <1>4, <1>5, <1>6, ThreadMoves

LEMMA WarmupReturnOwns ==
  ASSUME OwnInv, NEW t \in Threads, WarmupReturn(t)
  PROVE  OwnInv'
<1>0. CacheInv'
  BY WarmupReturnKeeps DEF OwnInv
<1>1. /\ pc[t] = "warm" /\ pc' = [pc EXCEPT ![t] = "idle"]
      /\ UNCHANGED <<free, allocated, releasing, held, L0, L1, root, freed>>
  BY DEF WarmupReturn, pool, cache
<1>2. OthersStay(t) /\ releasing'[t] = {} /\ releasing[t] = {}
  BY <1>1, Now DEF OthersStay
<1>3. Whole(t)' /\ Has(t)' = Has(t)
  BY <1>1, Now DEF Whole, Has
<1>4. Apart(t)' /\ free' \intersect held' = {}
  BY <1>1, <1>3, Now DEF Apart
<1>5. \A x : x \in allocated' <=>
             (x \in allocated /\ x \notin held \union Has(t)) \/ x \in held' \union Has(t)'
  BY <1>1, <1>3, Now
<1>6. QED
  BY <1>0, <1>1, <1>2, <1>3, <1>4, <1>5, ThreadMoves

(* Destroy(): both stacks go back in one interval. *)
LEMMA DestroyOwns ==
  ASSUME OwnInv, NEW t \in Threads, DestroyThreadCache(t)
  PROVE  OwnInv'
<1> DEFINE R == Cached(t)
<1>0. CacheInv'
  BY DestroyKeeps DEF OwnInv
<1>1. /\ pc[t] = "idle" /\ L0' = [L0 EXCEPT ![t] = <<>>] /\ L1' = [L1 EXCEPT ![t] = <<>>]
      /\ pc' = [pc EXCEPT ![t] = "destroy"] /\ UNCHANGED <<held, root, freed>>
  BY DEF DestroyThreadCache, warming
<1>2. /\ free' = free /\ allocated' = allocated \ R
      /\ releasing' = [releasing EXCEPT ![t] = R]
  <2>1. CASE R = {}
    <3>1. releasing[t] = {} /\ UNCHANGED <<free, allocated, releasing>>
      BY <1>1, <2>1, Now DEF DestroyThreadCache, pool
    <3>2. QED
      BY <2>1, <3>1, Now
  <2>2. QED
    BY <2>1 DEF DestroyThreadCache, Pool!FreeBegin
<1>3. /\ OthersStay(t) /\ releasing'[t] = R /\ pc'[t] = "destroy" /\ releasing[t] = {}
      /\ L0'[t] = <<>> /\ L1'[t] = <<>> /\ root[t] = <<>> /\ freed[t] = <<>>
  BY <1>1, <1>2, Now DEF OthersStay
<1>4. Whole(t)' /\ Has(t)' = {}
  BY <1>1, <1>3, NoBlocks DEF Whole, Has
<1>5. R = Has(t)
  BY <1>3, NoBlocks DEF Has, Cached
<1>6. Apart(t)' /\ free' \intersect held' = {}
  BY <1>1, <1>2, <1>3, <1>4, <1>5, Now DEF Apart
<1>7. /\ \A x : x \in free' \union held' \union Has(t)' \union releasing'[t] <=>
                x \in free \union held \union Has(t) \union releasing[t]
      /\ \A x : x \in allocated' <=>
                (x \in allocated /\ x \notin held \union Has(t)) \/ x \in held' \union Has(t)'
  BY <1>1, <1>2, <1>3, <1>4, <1>5, Now DEF Apart
<1>8. QED
  BY <1>0, <1>3, <1>4, <1>6, <1>7, ThreadMoves

LEMMA DestroyEndOwns ==
  ASSUME OwnInv, NEW t \in Threads, DestroyEnd(t)
  PROVE  OwnInv'
<1>0. CacheInv'
  BY DestroyEndKeeps DEF OwnInv
<1>1. pc' = [pc EXCEPT ![t] = "idle"] /\ UNCHANGED <<held, L0, L1, root, freed>>
  BY DEF DestroyEnd, warming
<1>2. /\ free' = free \union releasing[t] /\ allocated' = allocated
      /\ releasing' = [releasing EXCEPT ![t] = {}]
  BY ReleaseEnds DEF DestroyEnd
<1>3. OthersStay(t) /\ releasing'[t] = {}
  BY <1>1, <1>2, Now DEF OthersStay
<1>4. Whole(t)' /\ Has(t)' = Has(t)
  BY <1>1, Now DEF Whole, Has
<1>5. Apart(t)' /\ free' \intersect held' = {}
  BY <1>1, <1>2, <1>3, <1>4, Now DEF Apart
<1>6. /\ \A x : x \in free' \union held' \union Has(t)' \union releasing'[t] <=>
                x \in free \union held \union Has(t) \union releasing[t]
      /\ \A x : x \in allocated' <=>
                (x \in allocated /\ x \notin held \union Has(t)) \/ x \in held' \union Has(t)'
  BY <1>1, <1>2, <1>3, <1>4, Now
<1>7. QED
  BY <1>0, <1>3, <1>4, <1>5, <1>6, ThreadMoves
-----------------------------------------------------------------------------
LEMMA OwnInit == Init => OwnInv
<1> SUFFICES ASSUME Init PROVE OwnInv
  OBVIOUS
<1>1. /\ free = Blocks /\ allocated = {} /\ held = {}
      /\ releasing = [t \in Threads |-> {}]
      /\ L0 = [t \in Threads |-> <<>>] /\ L1 = [t \in Threads |-> <<>>]
      /\ root = [t \in Threads |-> <<>>] /\ freed = [t \in Threads |-> <<>>]
  BY DEF Init, Pool!Init
<1>2. \A t \in Threads : Whole(t) /\ Has(t) = {} /\ releasing[t] = {}
  BY <1>1, NoBlocks DEF Whole, Has
<1>3. PoolTyped /\ Releasing
  BY <1>1 DEF PoolTyped, Releasing
<1>4. Divided /\ Accounted
  BY <1>1, <1>2 DEF Divided, Accounted, Apart
<1>5. QED
  BY <1>2, <1>3, <1>4, CacheInit DEF OwnInv

LEMMA OwnNext ==
  ASSUME OwnInv, [Next]_vars
  PROVE  OwnInv'
<1>1. ASSUME NEW t \in Threads, Call(t) PROVE OwnInv'
  BY <1>1, AllocL0Owns, AllocL1Owns, AllocPoolOwns, FreePoolOwns, FreeL0Owns, FreeL1Owns,
     FreeFlushOwns, CreateOwns, DestroyOwns DEF Call, AllocPool
<1>2. ASSUME NEW t \in Threads, Step(t) PROVE OwnInv'
  BY <1>2, FreePoolEndOwns, FreeFlushEndOwns, WarmupAllocOwns, WarmupEndOwns,
     WarmupReturnOwns, DestroyEndOwns DEF Step
<1>3. CASE UNCHANGED vars
  <2>1. CacheInv'
    BY <1>3, CacheNext DEF OwnInv
  <2>2. \A t \in Threads : Has(t)' = Has(t) /\ Whole(t)'
    BY <1>3 DEF vars, Has, Whole, OwnInv
  <2>3. PoolTyped' /\ Releasing' /\ Divided' /\ Accounted'
    BY <1>3, <2>2 DEF vars, OwnInv, PoolTyped, Releasing, Divided, Accounted, Apart
  <2>4. QED
    BY <2>1, <2>2, <2>3 DEF OwnInv
<1>4. QED
  BY <1>1, <1>2, <1>3 DEF Next

(* Owned(t) and its parts. *)
LEMMA OwnedParts ==
  ASSUME OwnInv, NEW t \in Threads
  PROVE  Range(Owned(t)) = Has(t) /\ IsInjective(Owned(t))
<1> DEFINE a == L0[t]  b == L1[t]  c == root[t]  d == freed[t]
<1>1. a \in Seq(Blocks) /\ b \in Seq(Blocks) /\ c \in Seq(Blocks) /\ d \in Seq(Blocks)
  BY Now
<1>2. /\ IsInjective(a) /\ IsInjective(b) /\ IsInjective(c) /\ IsInjective(d)
      /\ Range(a) \intersect Range(b) = {} /\ Range(a) \intersect Range(c) = {}
      /\ Range(a) \intersect Range(d) = {} /\ Range(b) \intersect Range(c) = {}
      /\ Range(b) \intersect Range(d) = {} /\ Range(c) \intersect Range(d) = {}
  BY Now DEF Whole
<1>3. Owned(t) = a \o b \o c \o d /\ Has(t) = Range(a) \union Range(b) \union Range(c) \union Range(d)
  BY DEF Owned, Has
<1> HIDE DEF a, b, c, d
<1> DEFINE ab == a \o b
<1>4. ab \in Seq(Blocks) /\ Range(ab) = Range(a) \union Range(b) /\ IsInjective(ab)
  BY <1>1, <1>2, Concat
<1> HIDE DEF ab
<1> DEFINE abc == ab \o c
<1>5. abc \in Seq(Blocks) /\ Range(abc) = Range(ab) \union Range(c) /\ IsInjective(abc)
  <2>1. Range(ab) \intersect Range(c) = {}
    BY <1>2, <1>4
  <2>2. QED
    BY <1>1, <1>2, <1>4, <2>1, Concat
<1> HIDE DEF abc
<1>6. Range(abc \o d) = Range(abc) \union Range(d) /\ IsInjective(abc \o d)
  <2>1. Range(abc) \intersect Range(d) = {}
    BY <1>2, <1>4, <1>5
  <2>2. QED
    BY <1>1, <1>2, <1>5, <2>1, Concat
<1>7. QED
  BY <1>3, <1>4, <1>5, <1>6 DEF ab, abc

(* A block outside the pool is with the program or once in one cache: no     *)
(* Alloc() returns what somebody has, and no flush pushes a block twice.     *)
THEOREM BlocksHaveOneOwner == Spec => []OneOwner
<1>1. OwnInv => OneOwner
  <2> SUFFICES ASSUME OwnInv PROVE OneOwner
    OBVIOUS
  <2>1. \A t \in Threads : Range(Owned(t)) = Has(t)
    BY OwnedParts
  <2>2. \A t \in Threads : \A i, j \in DOMAIN Owned(t) : Owned(t)[i] = Owned(t)[j] => i = j
    BY OwnedParts DEF IsInjective
  <2>3. \A t \in Threads : Range(Owned(t)) \intersect held = {}
    BY <2>1 DEF OwnInv, Divided, Apart
  <2>4. \A t, u \in Threads : t # u => Range(Owned(t)) \intersect Range(Owned(u)) = {}
    BY <2>1 DEF OwnInv, Divided
  <2>5. allocated = held \union UNION {Range(Owned(t)) : t \in Threads}
    BY <2>1 DEF OwnInv, Accounted
  <2>6. QED
    BY <2>2, <2>3, <2>4, <2>5 DEF OneOwner
<1>2. OwnInv /\ [Next]_vars => OwnInv'
  BY OwnNext
<1>3. QED
  BY OwnInit, <1>1, <1>2, PTL DEF Spec

(* A thread between its calls and without a cache has nothing. *)
LEMMA BareHasNothing ==
  ASSUME OwnInv, NEW t \in Threads, pc[t] = "idle", maxElementsCount[t] = 0
  PROVE  releasing[t] = {} /\ Has(t) = {}
<1>1. releasing[t] = {} /\ root[t] = <<>> /\ freed[t] = <<>>
  BY Now
<1>2. L0[t] = <<>> /\ L1[t] = <<>>
  <2>1. Mine(t) /\ Counted(t) /\ Len(<<>>) = 0
    BY MineNow DEF OwnInv
  <2>2. Len(L1[t]) = 0 /\ L1[t] \in Seq(Blocks) /\ L0[t] = <<>>
    BY <1>1, <2>1 DEF Mine, Counted
  <2>3. QED
    BY <2>2, EmptySeq
<1>3. QED
  BY <1>1, <1>2, NoBlocks DEF Has

LEMMA OwnIsBack == OwnInv => AllBack
<1> SUFFICES ASSUME OwnInv, held = {},
                    \A t \in Threads : pc[t] = "idle" /\ maxElementsCount[t] = 0
             PROVE  free = Blocks
  BY DEF AllBack
<1>1. \A t \in Threads : releasing[t] = {} /\ Has(t) = {}
  BY BareHasNothing
<1>2. QED
  BY <1>1 DEF OwnInv, Accounted, PoolTyped

(* With the caches destroyed and everything freed the bucket is whole again: *)
(* DestroyThreadCache() leaves nothing behind in either stack.               *)
THEOREM EverythingComesBack == Spec => []AllBack
<1>1. OwnInv /\ [Next]_vars => OwnInv'
  BY OwnNext
<1>2. QED
  BY OwnInit, OwnIsBack, <1>1, PTL DEF Spec
=============================================================================
