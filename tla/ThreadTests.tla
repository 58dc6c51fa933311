----------------------------- MODULE ThreadTests -----------------------------
(***************************************************************************)
(* The programs that the repository runs on its allocator, over one bucket *)
(* with the caches of ThreadCache.tla:                                     *)
(*   StressTest (smmalloc_test02.cpp): workers fill a working set and free *)
(*     it, pass by pass; then the bucket is drained and counted;           *)
(*   PerfTest (smmalloc_test_impl.inl): workers wait for a common start,   *)
(*     then free and allocate slot by slot;                                *)
(*   MegaAlloc (smmalloc_test01.cpp): one thread with a hot cache drains   *)
(*     the bucket, counts and frees it, again and again;                   *)
(*   Benchmark (smmalloc_perf02.cpp): one thread, a ring of pointers.      *)
(* An array that is walked from its first slot to its last is a queue.     *)
(* The patterns that StressTest writes and compares are left out: whether  *)
(* they survive is a matter of the list, which hands out a block twice     *)
(* when a chain races with an Alloc() (PoolBucket_ChainAba.cfg), and not   *)
(* of the caches, which are here over a pool that keeps the promise of     *)
(* BlockPool.tla.                                                          *)
(***************************************************************************)
EXTENDS ThreadCache, FiniteSets

CONSTANTS
  Main,         \* the thread that runs the test; the others are its workers
  WorkingSet,   \* slots in workingSet, ptrsStorage
  Passes,       \* of StressTest and MegaAlloc
  Iterations    \* of PerfTest and Benchmark, over all the slots

ASSUME TestConstants ==
  /\ Main \in Threads
  /\ {WorkingSet, Passes, Iterations} \subseteq Nat \ {0}
  /\ "elsewhere" \notin Blocks

VARIABLES
  test,      \* which program runs
  phase,     \* where each thread is in it
  ptrs,      \* the pointers each thread has, the first to be freed first
  round,     \* per thread, passes or slots so far
  canStart   \* PerfTestGlobals::canStart

cacheVars == vars
testVars == <<cacheVars, test, phase, ptrs, round, canStart>>

Workers == Threads \ {Main}

(* A pointer that is not of this bucket: to a block of a larger one or of   *)
(* malloc, or nullptr.                                                      *)
Elsewhere == "elsewhere"

(* UBENCH_EX(smmalloc_10m) begins with null pointers in all the slots, and  *)
(* allocIndex one slot behind freeIndex.                                    *)
EmptyRing == [k \in 1..(WorkingSet - 1) |-> Elsewhere]

(* TEST(StressTest) and TEST_ENTRYPOINT() begin with their workers, the     *)
(* other two run alone.                                                     *)
TestInit ==
  /\ Init
  /\ test \in {"StressTest", "PerfTest", "MegaAlloc", "Benchmark"}
  /\ phase = [t \in Threads |->
       CASE test \in {"StressTest", "PerfTest"} /\ t # Main -> "start"
         [] test = "StressTest" /\ t = Main -> "join"
         [] test = "PerfTest" /\ t = Main -> "open"
         [] test \in {"MegaAlloc", "Benchmark"} /\ t = Main -> "start"
         [] OTHER -> "done"]
  /\ ptrs = [t \in Threads |-> IF test = "Benchmark" /\ t = Main THEN EmptyRing ELSE <<>>]
  /\ round = [t \in Threads |-> 0]
  /\ canStart = FALSE
-----------------------------------------------------------------------------
Goto(t, there) == phase' = [phase EXCEPT ![t] = there]

Store(t, p) == ptrs' = [ptrs EXCEPT ![t] = Append(@, p)]

(* _sm_malloc() of the size of this bucket's blocks. *)
Malloc(t) ==
  \/ AllocL0(t) /\ Store(t, Last(L0[t]))
  \/ AllocL1(t) /\ Store(t, Last(L1[t]))
  \/ \E b \in Blocks : AllocPool(t, b) /\ Store(t, b)
  \/ /\ pc[t] = "idle"
     /\ L0[t] = <<>> /\ L1[t] = <<>> /\ free = {}
     /\ Store(t, Elsewhere)
     /\ UNCHANGED cacheVars

(* _sm_free() of the pointer in the next slot. *)
FreeNext(t) ==
  /\ pc[t] = "idle"
  /\ LET p == Head(ptrs[t])
     IN  IF p = Elsewhere
         THEN UNCHANGED cacheVars
         ELSE FreePool(t, p) \/ FreeL0(t, p) \/ FreeL1(t, p) \/ FreeFlush(t, p)
  /\ ptrs' = [ptrs EXCEPT ![t] = Tail(@)]

(* A call of the allocator goes on. *)
Work(t) ==
  /\ Step(t)
  /\ UNCHANGED <<test, phase, ptrs, round, canStart>>
-----------------------------------------------------------------------------
(* CACHE_WARM, CACHE_HOT, CACHE_COLD *)
Warmup(max) ==
  CASE test = "MegaAlloc" -> max
    [] test = "Benchmark" -> 0
    [] OTHER -> max \div 2

(* The thread creates its caches. *)
Start(t) ==
  /\ phase[t] = "start"
  /\ \E max \in CacheSizes : CreateThreadCache(t, max) /\ num'[t] = Warmup(max)
  /\ Goto(t, CASE test = "StressTest" -> "fill"
               [] test = "PerfTest" -> "gate"
               [] test = "MegaAlloc" -> "drain"
               [] test = "Benchmark" -> "ring")
  /\ UNCHANGED <<test, ptrs, round, canStart>>

(* Mutant: the first worker to see the flag takes it down. *)
GateClosing(t) ==
  /\ phase[t] = "gate"
  /\ pc[t] = "idle"
  /\ canStart
  /\ Goto(t, "fill")
  /\ canStart' = FALSE
  /\ UNCHANGED <<cacheVars, test, ptrs, round>>

(* TEST_THREADENTRY(): "spin wait" *)
Gate(t) ==
  /\ phase[t] = "gate"
  /\ pc[t] = "idle"
  /\ canStart
  /\ Goto(t, "fill")
  /\ UNCHANGED <<cacheVars, test, ptrs, round, canStart>>

(* A pointer for the next slot of the working set. *)
Fill(t) ==
  /\ phase[t] = "fill"
  /\ Malloc(t)
  /\ Goto(t, CASE Len(ptrs'[t]) < WorkingSet -> "fill"
               [] test = "StressTest" /\ Len(ptrs'[t]) >= WorkingSet -> "release"
               [] test = "PerfTest" /\ Len(ptrs'[t]) >= WorkingSet -> "churn")
  /\ UNCHANGED <<test, round, canStart>>

(* TEST_THREADENTRY(): the pointer of one slot is freed ... *)
ChurnFree(t) ==
  /\ phase[t] = "churn"
  /\ FreeNext(t)
  /\ Goto(t, "refill")
  /\ UNCHANGED <<test, round, canStart>>

(* ... and the slot gets another one, in each iteration every slot. *)
ChurnMalloc(t) ==
  /\ phase[t] = "refill"
  /\ Malloc(t)
  /\ round' = [round EXCEPT ![t] = @ + 1]
  /\ Goto(t, IF round'[t] < Iterations * WorkingSet THEN "churn" ELSE "release")
  /\ UNCHANGED <<test, canStart>>

(* UBENCH_EX(smmalloc_10m): a pointer into the slot at allocIndex ... *)
RingMalloc(t) ==
  /\ phase[t] = "ring"
  /\ Malloc(t)
  /\ Goto(t, "unring")
  /\ UNCHANGED <<test, round, canStart>>

(* ... and the one in the next slot, at freeIndex, is freed. *)
RingFree(t) ==
  /\ phase[t] = "unring"
  /\ FreeNext(t)
  /\ round' = [round EXCEPT ![t] = @ + 1]
  /\ Goto(t, IF round'[t] < Iterations * WorkingSet THEN "ring"
             ELSE IF ptrs'[t] # <<>> THEN "release" ELSE "finish")
  /\ UNCHANGED <<test, canStart>>

(* MegaAlloc, and StressTest when its workers have ended: pointers until    *)
(* one is not of the bucket.                                                *)
Drain(t) ==
  /\ phase[t] = "drain"
  /\ Malloc(t)
  /\ Goto(t, IF Last(ptrs'[t]) = Elsewhere THEN "count" ELSE "drain")
  /\ UNCHANGED <<test, round, canStart>>

(* EXPECT_EQ(availCount, maxCount), EXPECT_EQ(diff, 0) *)
Count(t) ==
  /\ phase[t] = "count"
  /\ Goto(t, "release")
  /\ UNCHANGED <<cacheVars, test, ptrs, round, canStart>>

(* All is freed; then the next pass begins. *)
Release(t) ==
  LET again == round[t] + 1 < Passes
      passes == test = "MegaAlloc" \/ (test = "StressTest" /\ t # Main)
  IN  /\ phase[t] = "release"
      /\ FreeNext(t)
      /\ round' = IF ptrs'[t] = <<>> /\ passes THEN [round EXCEPT ![t] = @ + 1] ELSE round
      /\ Goto(t, CASE ptrs'[t] # <<>> -> "release"
                   [] ptrs'[t] = <<>> /\ passes /\ again -> IF test = "MegaAlloc" THEN "drain" ELSE "fill"
                   [] ptrs'[t] = <<>> /\ ~(passes /\ again) ->
                        IF test = "StressTest" /\ t = Main THEN "end" ELSE "finish")
      /\ UNCHANGED <<test, canStart>>

(* The thread destroys its caches ... *)
Finish(t) ==
  /\ phase[t] = "finish"
  /\ DestroyThreadCache(t)
  /\ Goto(t, "exit")
  /\ UNCHANGED <<test, ptrs, round, canStart>>

(* ... and ends; the test destroys its allocator. *)
Exit(t) ==
  /\ phase[t] = "exit"
  /\ pc[t] = "idle"
  /\ Goto(t, IF t = Main THEN "end" ELSE "done")
  /\ UNCHANGED <<cacheVars, test, ptrs, round, canStart>>
-----------------------------------------------------------------------------
(* TEST_ENTRYPOINT(): "run" *)
Open ==
  /\ phase[Main] = "open"
  /\ canStart' = TRUE
  /\ Goto(Main, "join")
  /\ UNCHANGED <<cacheVars, test, ptrs, round>>

(* "wait all threads" *)
Join ==
  /\ phase[Main] = "join"
  /\ \A t \in Workers : phase[t] = "done"
  /\ canStart' = FALSE
  /\ Goto(Main, IF test = "StressTest" THEN "drain" ELSE "end")
  /\ UNCHANGED <<cacheVars, test, ptrs, round>>
-----------------------------------------------------------------------------
Run(t) ==
  \/ Work(t)
  \/ Start(t)
  \/ Gate(t)
  \/ Fill(t)
  \/ ChurnFree(t)
  \/ ChurnMalloc(t)
  \/ RingMalloc(t)
  \/ RingFree(t)
  \/ Drain(t)
  \/ Count(t)
  \/ Release(t)
  \/ Finish(t)
  \/ Exit(t)
  \/ t = Main /\ (Open \/ Join)

TestNext == \E t \in Threads : Run(t)

(* The operating system runs every thread that can go on. *)
TestSpec ==
  /\ TestInit
  /\ [][TestNext]_testVars
  /\ \A t \in Threads : WF_testVars(Run(t))
-----------------------------------------------------------------------------
(* EXPECT_EQ(availCount, maxCount) in StressTest, EXPECT_EQ(diff, 0) in     *)
(* MegaAlloc: before the bucket is found exhausted all its blocks have been *)
(* handed out, whatever the caches did before, and with a hot cache.        *)
DrainFindsAll ==
  phase[Main] = "count" => Len(ptrs[Main]) = Cardinality(Blocks) + 1

(* When a test destroys its allocator nothing is cached, on the way or with *)
(* the program.                                                             *)
WholeAtEnd ==
  phase[Main] = "end" =>
    free = Blocks /\ held = {} /\ \A t \in Threads : maxElementsCount[t] = 0

(* Every test ends: the workers warm up and pass the gate, no call of the   *)
(* allocator waits for another thread, and main joins them all.             *)
TestEnds == <>(phase[Main] = "end")
=============================================================================
