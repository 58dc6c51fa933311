# A TLA+ model of smmalloc

smmalloc is a proxy allocator: small requests are served from buckets of equal
blocks cut out of one buffer, everything else goes to a generic allocator on
top of `malloc`. Each bucket keeps its free blocks in a lock-free list shared
by all threads; a thread may put a cache in front of each bucket. This project
models the parts whose correctness depends on interleavings, on bounds and on
arithmetic at boundaries, checks them with TLC and proves the main results with
TLAPS for all values of the constants.

Paths below are relative to the repository; `smmalloc.h` stands for
`SmMalloc/smmalloc.h` and so on.

## The system

| Part | State | Operations | Models |
|---|---|---|---|
| `PoolBucket` (smmalloc.h 371-504) | `head` (offset and tag), `globalTag`, a link in each free block | `Alloc`, `FreeInterval` | `PoolBucket`, `BlockPool` |
| Partitioning (smmalloc.h 198-322) | none | `GetBucketIndexBySize`, `GetBucketSizeInBytesByIndex`, `Align`, `IsAligned` | `Partitioning`, `SizeClasses` |
| Layout (smmalloc.cpp 164-275, smmalloc.h 531-560, 795-824) | buffer, bucket size, first and last address of each bucket | `Allocator::Init`, `Create`, `FindBucket`, `GetBucketIndex`, `GetBucketElementsCount` | `PoolLayout` |
| Thread cache (smmalloc.h 847-979, smmalloc.cpp 34-162, smmalloc_tls.cpp) | per thread and bucket: stacks L0 and L1, their limit | `AllocFromCache`, `ReleaseToCache`, `ReturnL1CacheToMaster`, `Init` (warm-up), `Destroy` | `ThreadCache`; over all buckets `Lifecycle` |
| Front end (smmalloc.h 562-793) | none of its own | `Allocate`, `Free`, `Realloc`, `GetUsableSize` | `Allocator`; the choice of the first bucket also in `SizeClasses` |
| `GenericAllocator` (smmalloc_generic.cpp) | a header before each block | `Alloc`, `Free`, `Realloc`, `GetUsableSpace` | `Allocator` |
| Statistics (smmalloc.h 149-181) | relaxed counters | counted in `Allocate` and `Free` | `Allocator` |
| C interface (smmalloc.h 1011-1088, smmalloc_tls.cpp) | allocators, thread-local records, memory from malloc | create, destroy, thread cache create and destroy, `_sm_malloc`, `_sm_free` | `Lifecycle` |
| Threaded programs (smmalloc_test02.cpp, smmalloc_test_impl.inl, MegaAlloc in smmalloc_test01.cpp, smmalloc_10m in smmalloc_perf02.cpp) | working sets, the starting gate | fill, free, drain, join | `ThreadTests` |

How they interact. `Allocate` rounds the request, chooses a bucket, asks the
calling thread's cache and then up to four buckets' lists, and falls back to
the generic allocator. `Free` finds the bucket from the address and gives the
block to the calling thread's cache, whoever allocated it; a full cache returns
half of L1 as one chain, linked in private and published by a single
compare-and-swap. The caches are one thread-local array, the same for every
allocator. Threads share only `head`, `globalTag` and the words inside
blocks that change hands; there are no locks, no messages and no persistent
state.

What is hard: the interleavings of pops and pushes on one list (ABA, stale
reads of a block's link), chains whose links are made outside the list, caches
that run full or are created and destroyed while others drain the pool, records
of a thread that outlive the allocator they were filled from, and the
boundaries of the size and address arithmetic. The list of hazards with their
lines is in `PROJECT.json`.

## Modules

**BlockPool** is what a bucket promises: an atomic pool. A block is free,
allocated, or being released by one thread; an allocation takes a free block at
one instant, and a release makes all its blocks free at one instant. The list
keeps this promise when single blocks are pushed (`PoolRefinement`), and can
break it when a chain is pushed while another thread is inside `Alloc`
(`pool_chain_aba`). The modules above the list, `ThreadCache`, `Allocator`,
`Lifecycle` and `ThreadTests`, assume it, for the chains of flushes too: what
they show is the accounting of the code above the list, and none of it says that
the list is safe under flushes.

**PoolBucket** is the lock-free list. One action is one access to memory that
other threads can see:

| Action | Code |
|---|---|
| `AllocLoad` | `head.load()` in `Alloc`, and the test for an empty list |
| `AllocRead` | the plain read of the next link out of the head block |
| `AllocCas`, `AllocRetry` | the compare-and-swap, successful or failed (a failed one loads the new head) |
| `FreeBegin` | the caller gives up a chain, its inner links written, and `fetch_add` on `globalTag` |
| `FreeLoad`, `FreeLink` | `head.load()` in `FreeInterval`, and the write of the head into the tail's link |
| `FreeCas`, `FreeRetry` | the compare-and-swap |
| `UserWrite` | the program writes into a block it holds |

A word in a block is a link, `Invalid`, or the program's data. `AllocRead` may
see any of them, since the block can have changed hands since the head was
loaded. The inner links of a chain are written in the same action as the
`fetch_add`: the blocks belong to the freeing thread, so only a stale
`AllocRead` could tell, and it sees one word, before or after. `list` and
`frees` are history variables: what the completed calls mean, and how many
pushes there were. Operations on `head` are sequentially consistent in the
code; the relaxed `fetch_add` is atomic, which is all that is used of it.

`ChainsRace` says when a caller may push a chain of more than one block
(`MayPush`). `TRUE` is the code: at any time. `FALSE` is a restriction on the
callers that no code enforces, under which the tags are enough: only while no
other thread is inside `Alloc`.

**Partitioning** holds the arithmetic of the three compile-time schemes
(linear, piecewise linear, small float) as operators, and **SizeClasses** walks
through the requests that `Allocate` may get. Sizes are natural numbers; the
wrap-around of `Align` within 4096 of 2^64 is outside the model.

**PoolLayout** runs `Allocator::Init` and the loop of `PoolBucket::Create` in
bytes, and reads the result back with `FindBucket` (in unsigned arithmetic
modulo the size of the address space), `GetBucketIndex` and
`GetBucketElementsCount`. Offsets, tags and counts are cut to `uint32_t` as in
the code: `Uint`, modulo `UintRange`.

**ThreadCache** has the caches of any number of threads for one bucket, over
a pool that keeps `BlockPool`'s promise. What a thread does to its own cache nobody else sees, so an
action is one access to the pool together with the thread-local work around it;
releases are two actions, as in `BlockPool`, so that others can find the pool
empty while blocks are on their way back. `Allocate` going to other buckets
when this one is empty changes nothing here; one that comes from a smaller,
empty bucket takes a block of the pool past whatever the thread has cached
(`AllocOverflow`). The order in which
`ReturnL1CacheToMaster` lowers `numElementsL1` after `FreeInterval` is not
visible and is folded into the first of the two actions.

**Allocator** is the front end over several buckets and the generic allocator,
with the statistics. A pool keeps `BlockPool`'s promise, a cache is a set of blocks per
thread (what its stacks do is in `ThreadCache`), and the way from an address to
a bucket, which `PoolLayout` shows to be exact, is a field of the pointer.

| Action | Code |
|---|---|
| `AllocZero`, `Alloc` | `Allocate` up to the thread's cache; also `Realloc` of an unreadable pointer |
| `BucketHit`, `BucketMiss` | one round of the overflow loop |
| `CountServed`, `CountHit` | the two counters of a request that a cache or a pool has served, and the return of the block |
| `Route`, `CountRouted`, `Fallback` | the counter of the reason, the counter of routed requests, and `GenericAllocator::Alloc` |
| `FreeUnreadable`, `Free` | `Free`, also called by `Realloc` to no bytes |
| `ReleaseToCache`, `ReleaseToPool`, `ReleaseToMalloc` | where a freed block goes; the end of `Free` and of a moving `Realloc` |
| `ReallocReuse`, `ReallocMove`, `ReallocGeneric` | the three ways through `Realloc`; the second goes on with the steps of `Allocate` |
| `Move` | `memmove` |

Every `fetch_add` on a counter is a step of its own, between which other threads
run; only a miss is counted together with the look at the empty pool, and the
first counter of a call together with the thread's own cache.

`live` holds what the program may expect of each pointer it has: size, the
alignment it was placed for (`align`) and the one asked for last (`asked`,
different after a `Realloc` in place), whose data and how many bytes of it. `mem` is what is really in the
block: freeing one destroys it. malloc has a fixed number of blocks and may fail
whenever it is asked. The null pointer that `Realloc` copies to on one path
ends in the state `crashed`.

**Lifecycle** is the C interface with several allocators, threads and buckets:
what is created, destroyed and created again. `heap` is the memory that
allocators and caches have from malloc for themselves, `tls` the thread-local
records, the same whichever allocator asks. A pool keeps `BlockPool`'s promise
and a cache is a set of blocks, as in `Allocator`. A freed block goes to the
thread's cache if there is one (`ToCache`, which flushes a full one) or to the
pool (`ToPool`).

| Action | Code |
|---|---|
| `AllocatorCreate`, `AllocatorDestroy` | `_sm_allocator_create` with `Allocator::Init`, `_sm_allocator_destroy` with the destructor of `pBuffer` |
| `MallocCached`, `MallocPool`, `MallocGeneric` | `_sm_malloc`, by where its block comes from |
| `Free`, `FreeGeneric` | `_sm_free` |
| `CacheCreate`, `CacheInit` | `CreateThreadCache`, and for each bucket of the options the stack and the record |
| `WarmupAlloc`, `WarmupMiss`, `WarmupGiveBack`, `WarmupEnd` | the warm-up of one bucket: its own block, none, or one of a larger bucket, which is freed to the pool, since that bucket's cache is created later |
| `CacheDestroy`, `BucketDestroy` | `DestroyThreadCache`, and each of its records in turn, used or not |

The loop of `Allocate` looks at its buckets one after the other, and others take
and return blocks in between, so a request may be served by any bucket it tries;
the model lets it miss without recording who emptied the bucket, which allows
more behaviours and not fewer. Three rules are the program's and no code
enforces them: an allocator is destroyed only when nobody has blocks, calls or
caches of it (`MayDestroy`), a thread creates caches when it has none
(`Init` asserts it), and, where the constant `OneAllocator` says so, a thread
with caches calls no other allocator (`MayCall`).

**ThreadTests** extends `ThreadCache` with the programs the repository runs on
several threads or until a bucket is exhausted; the initial state chooses one.
`StressTest` and the harness of the benchmarks have workers and a main thread
that joins them; MegaAlloc and the ring of pointers of smmalloc_10m run alone.
Requests are all of the bucket's size; `Elsewhere` is any pointer that is not of
the bucket, a larger one's, malloc's or null. The patterns that StressTest writes
into its blocks and compares are left out on purpose: they survive if no block is
handed out twice, which over a pool that keeps `BlockPool`'s promise is
`OneOwner`, and which the real list does not promise while caches flush. The
time a benchmark takes, and the counters it prints, are left out too.

`MCThreadCache` and `MCLifecycle` add the symmetry sets for TLC. Definitions
marked "Mutant" are plausible mistakes in the definition that follows them;
each property is checked to fail when one of them takes its place.

## Runs

| Run | Instance | Shows |
|---|---|---|
| `pool_list` | 3 threads, 2 blocks, 3 pushes, single blocks at any time and chains of two while nobody else is inside `Alloc`, fairness | `TypeOK`, `BlocksConserved`, `ListIntact`, `NoInvalidCas`, and what the tags and the locals have to do with it, `TagsUnique` and `LocalsCurrent`; `ImplementsPool`: the list implements `BlockPool`; `CallsReturn` |
| `pool_chain_aba` | 2 threads, 2 blocks, chains of up to two, at any time | violates `NoInvalidCas` |
| `size_classes` | all requests up to 25088 bytes, 7 alignments, 3 schemes | `BestFit`, `FirstBucketAligned`, `BlocksGrow`, `OverflowLoopEnds`, `AsDocumented` |
| `pool_layout` | 1 to 22 buckets of 8192 and 12288 bytes, offsets below 12288 | `ListAsAssumed`, `BlocksInsideBucket`, `CountAsReported`, `BlocksFound`, `StrangersNotFound` |
| `thread_cache` | 2 threads, 6 blocks, L0 of one, L1 of two or four | `OneOwner`, `CacheFits`, `AllBack`, `FlushMakesRoom` |
| `cache_warmup` | 2 threads, 3 blocks | violates `WarmedUp` |
| `allocator` | 2 threads, one with caches, 5 buckets of 2 blocks, 2 generic blocks, 4 calls | `TypeOK`, `BlocksAccounted`, `ContentsKept`, `MovesFit`, `BlocksServe`, `StatsAddUp`, `HitsAddUp` |
| `realloc_move_fails` | as `allocator` | violates `FailureReturns` |
| `realloc_alignment` | as `allocator` | violates `AlignedAsAsked` |
| `lifecycle` | 2 threads, 2 allocators of 2 buckets, caches of one bucket or both, 1 generic block, 2 blocks with the program | `RecordsZeroed`, `CachedWhereFound`, `FromAllocatorAsked`, `NothingDangles`, `NothingLeaks`, `BlocksReturn`, for programs that keep to `OneAllocator` |
| `lifecycle_both` | as `lifecycle`, without that rule | violates `CachedWhereFound` |
| `thread_tests` | main and 2 workers, 4 blocks, L0 of one, L1 of two or five, working sets of 4, 2 passes, fairness | `DrainFindsAll`, `WholeAtEnd`, `TestEnds` |

Bounds. An invalid compare-and-swap needs one thread that pops and another that
pops and pushes the same block in between: two threads, two blocks and two
pushes suffice, and the mutants that drop or freeze the tag fail within these
bounds. `MaxFrees` bounds the pushes, and with them `globalTag`. The tag's
width `TagMod` and the base of the local tags are scaled down; they are far
enough apart that neither wraps into the other. Six blocks are
one more than a thread needs to fill L0 and an L1 of four, so that a flush
happens while another thread has a block. The layout run goes past both
boundaries of the piecewise linear scheme and past the clamp on the number of
buckets (with `SMM_MAX_BUCKET_COUNT` scaled from 62 to 22); its larger buckets
end exactly where the scaled 32 bits of an offset do. In the runs of
`Allocator` requests of 16 bytes go to bucket 0, or to bucket 1 when aligned to
32, and those of 80 to bucket 4, the last, or when aligned to 32 to malloc; four
calls reach overflow past a bucket without the alignment, both reasons for the
fallback, a hit in and a flush of a cache (of one block), every way through
`Realloc`, and failure on each; `MaxOverflow` is two instead of four, so that the
loop ends before the last bucket as well as at it. `MaxCalls` makes the program
stop, which is why these runs do not look for deadlock.

In `lifecycle` the bucket of small blocks has three and that of large ones one:
two threads that warm up exhaust either and overflow from the first into the
second, a hot cache is larger than a bucket, and a thread has caches of one
allocator with both buckets before or after those of another with one only.
A program that has destroyed both allocators stops. In `thread_tests` four
blocks are fewer than two working sets and than a hot cache of five, so that
warm-up stops early and workers run into `Elsewhere`, and enough for a worker to
overfill its cache and flush. The programs end, so neither run looks for
deadlock; that they end by themselves and not stuck is `TestEnds`.

Fairness. `FairSpec` asks that a thread inside a call keeps being scheduled,
and nothing else; no thread has to start a call. The lists are lock-free, not
wait-free: one thread can be overtaken for ever by others. `CallsReturn` holds
because a behaviour has finitely many pushes, so it says that a call can only
be delayed by successful calls of others. `TestSpec` asks that the operating
system keeps running each thread of a test that can go on. Nothing more is
needed for `TestEnds`: a worker at the gate waits for main, and main for the
workers, each in turn.

## What the violations show

1. **Chains repeat tags** (`pool_chain_aba`). `ReturnL1CacheToMaster`
   (smmalloc.h:881) numbers the inner links of every chain from 0xFFFFFF. When
   the head of a chain has been popped, an inner link is the head of the list.
   A thread reads that head and its successor and is suspended; others pop the
   block and push it again inside a chain at the same position; the suspended
   compare-and-swap now matches and installs the old successor, which may be
   allocated. The comment at smmalloc.h:441-443 promises unique tags that
   "prevent invalid CAS operation".
2. **The last assertion of the warm-up** (`cache_warmup`), smmalloc.cpp:99, does
   not hold when the loop above it stops early because the bucket is empty. In
   the run plain allocations empty it before any cache exists, and the first
   cache that is created with a warm-up gets nothing.
3. **A failed move out of the generic allocator** (`realloc_move_fails`):
   smmalloc.h:760 uses the result of `Alloc` unchecked, where the other path has
   the comment "On failure, returns a null pointer. The original pointer ptr
   remains valid" (726-727).
4. **Two allocators share a thread's caches** (`lifecycle_both`).
   `GetTlsBucket` (smmalloc_tls.cpp:30) knows no allocator, so `Free` of a block
   of one puts it into a cache of the other, against the assertion at
   smmalloc.h:945. With assertions off the block is stored as an offset from the
   wrong bucket, cut to 32 bits, and comes out as some other address.
   `lifecycle` shows that a thread is safe as long as it calls only the
   allocator that its caches are of.
5. **A `Realloc` in place ignores the alignment** (`realloc_alignment`): a block
   that is large enough is kept (smmalloc.h:714-717) whatever alignment is asked
   for. The test of realloc expects the alignment of the call after each of them,
   for a block that is kept (smmalloc_test01.cpp:267-270) and with an alignment
   larger than before (335-338), but never both at once. In the run the second
   block of 16 bytes is reallocated to 16 bytes aligned to 32. `BlocksServe`
   therefore speaks of the alignment a block was placed for.

## Proofs

Eight modules hold theorems. They are proved for every value of the constants
that meets the named assumptions of the modules; hypotheses beyond those are
stated in the theorem and discussed here.

| Module | About | Hypotheses |
|---|---|---|
| `PoolBucketProofs` | the lock-free list | `NoThreadCaches` |
| `PartitioningProofs` | lemmas on the arithmetic of the schemes | none |
| `SizeClassesProofs` | the choice of a bucket | `WithinAssertion` |
| `PoolLayoutProofs` | the buffer and the way from addresses to buckets | `BlocksFit`, `OffsetsFit` |
| `ThreadCacheProofs` | the caches | the model's pool: `BlockPool`'s promise, for chains too |
| `ThreadTestsProofs` | the threaded programs | the model's pool, as for the caches |
| `AllocatorProofs` | the front end and the statistics | `WithinAssertion`; the model's pools, as for the caches |
| `LifecycleProofs` | the C interface | `OneAllocator`; the model's pools, as for the caches |

### The list

`PoolBucketProofs` proves, for any number of threads and more than one block,
that the list is safe as long as only single blocks are pushed (no thread
caches) and fewer pushes happen than the tag has values: the assumption
`NoThreadCaches`. `pool_chain_aba` shows that chains at any time cannot be
admitted. Nor
can a bucket of a single block: `Create` leaves tag 0 in its head and
`globalTag` at 0, so the first push repeats a tag (`PoolBucket.cfg` with
`N = 1` violates `TagsUnique` at once and `NoInvalidCas` after it). The
inductive invariant `PoolInv` adds to `TypeOK`, `BlocksConserved` and
`ListIntact`

- `TagsBelow`, which is `TagsUnique` when no link has a local tag: the tag of a push in progress is on no link in the list and in
  no thread's `headValue`. Without it, nothing excludes that a push publishes a
  head that a sleeping `Alloc` remembers;
- `LocalsCurrent`: the successor an `Alloc` has read is right for as long as its
  head is in the list under the same link, and the tail of a push holds the
  head it will compare with.

`AllocCas` then takes the top of the list and installs the second, `FreeCas`
appends a block whose link is the old head, and writes go to blocks outside the
list. From `PoolInv` follow `PoolTyped`, `PoolConservesBlocks`, `PoolListIntact`,
`PoolTagsUnique`, `PoolLocalsCurrent`, `PoolNoInvalidCas` and, since the free list is exactly what nobody holds,
`PoolRefinement`: `Spec => ImplementsPool`.

### Sizes

`SizeClassesProofs` proves all five properties of the run, `BestFit`,
`FirstBucketAligned`, `BlocksGrow`, `OverflowLoopEnds` and `AsDocumented`, for
requests of every size under the linear and the piecewise linear scheme, and
under the float scheme for every size that its own assertion lets through: the
hypothesis `WithinAssertion` is "bytesCount < UINT32_MAX" (smmalloc.h:285), of
the rounded size. It says nothing of the other two schemes.

The lemmas on the arithmetic are in `PartitioningProofs`, which the layout and
the front end use too. For the linear schemes they are quotients by constants,
which the solver knows. For the float scheme the powers of two are the recursive
function `Power`; the provers cannot do induction, so that it exists
(`PowerIs`), and that it is monotone and a multiple of 4096 from the twelfth on,
are arguments by the least counterexample in a set of naturals (`HasLeast`).
Then `RoundsUp` says what `uintToFloatRoundUp` computes (the three highest bits
`q` at place `s`, and whether any lower bit is lost), `FloatValue` what
`floatToUint` makes of it, the carry from the mantissa into the exponent
included, and the size of a block is `q` or `q + 1` times a power of two that,
if a bit is lost, every smaller alignment divides (`FloatAligned`). Four buckets
further blocks are twice as large, which is why the overflow loop ends and how
the documented table is checked entry by entry. Sizes are natural numbers here:
with at most `SMM_MAX_BUCKET_COUNT` buckets the largest is far below 2^32, and
only an index past the last bucket would wrap.

### Layout

`PoolLayoutProofs` proves `ListAsAssumed`, `BlocksInsideBucket`,
`CountAsReported`, `BlocksFound` and `StrangersNotFound` for every base address
and number of buckets and every bucket size that meets two hypotheses. `NoAddressOutsideIsFound` extends the last of
them, for which the run tries the addresses around the buffer, to the whole
address space: the unsigned subtraction in `FindBucket` takes an address below
the buffer to a quotient past the last bucket. It needs the size of the address
space to be a multiple of `kMaxValidAlignment`, as 2^64 is. `BlocksFit` is that a
bucket has room for one block: `Create` writes its first link without looking.
`OffsetsFit` is that a bucket has at most 2^32 bytes, so that the casts to
`uint32_t` (smmalloc.cpp:184, smmalloc.h:823) lose nothing: the code checks
neither, and the run with a smaller `UintRange` violates `ListAsAssumed`. That blocks have at least the 16 bytes that `Create`
asserts is a lemma, `SizesValid`, for all three schemes. The invariant `LayoutInv`
says that the buffer ends within the address space (`Sized`), how far the list
of the bucket at work has grown, with room for the next block (`Growing`), and
that a bucket that is done has no room for another one (`Done`).

### Caches

`ThreadCacheProofs` is about the caches over a pool that keeps `BlockPool`'s
promise, whatever is released into it. It proves `CacheFits` for any number of threads and blocks and
any cache sizes of at least two, the least that `TlsPoolBucket::Init` asserts
(with one, half of it is nothing, and L1 would grow past its limit). The
invariant adds what a thread has in its hands at each point of a call. The
action property `FlushMakesRoom` needs one fact more: during a flush the upper
half of L1 is gone already, so that at most the other half and the block in
hand are left.

It proves `OneOwner` and `AllBack` by the invariant `OwnInv`: besides
the bounds, the pool, the program, each thread's stacks and calls, and the
releases in progress have no block in common (`Divided`), none of the sequences
holds a block twice (`Whole`), every block is in one of these places
(`Accounted`), and only a call that gives blocks back has some on their way
(`Releasing`).

### Threaded programs

`ThreadTestsProofs` proves `DrainFindsAll` and `WholeAtEnd` for any number of
workers, passes and blocks and any cache sizes, over the same pool.
`TestInv` (checked by TLC on the instance of `thread_tests` before it was proved)
puts what the programs know on top of `OwnInv`:

- `PointersInv`: the pointers of all threads are exactly the blocks that are
  held, and no two of them, of one thread or of two, are the same block. This is
  what the allocator gives them: a new pointer is to a block that nobody held;
- `Along(t)`: how far a thread is, and so which of its slots have a pointer, and
  that it has no cache and no call in progress where it starts, waits, joins or
  has ended. While MegaAlloc, or main at the end of StressTest, drains the
  bucket, every pointer is a block of it, so with no alias there are at most as
  many as blocks;
- `MainLast`: main goes past its joins only when every worker is done.

At the end nobody holds a pointer or has a cache, and by `OwnInv` the pool has
everything: the lemma that proves `AllBack`.

### Front end

`AllocatorProofs` proves `TypeOK`, `BlocksAccounted`, `ContentsKept`, `MovesFit`,
`BlocksServe`, `StatsAddUp` and `HitsAddUp` for any number of threads, caches,
buckets, blocks and calls under all three schemes, where the float one is asked
for sizes within its assertion (`WithinAssertion`). None of them is inductive alone; `AllocInv` (checked by TLC on the instance of `allocator`
before it was proved) is

- `Placed`: every block is somewhere and in one place, a block that was found and
  is still being counted and the new block of a `Realloc` in progress included;
- `OneCallEach`: no two calls work on the same old block, so that a `Realloc`
  finds its block as it left it;
- `Working(t)`: what a call may count on at each step. Above all the entry it
  remembers of the old block is still the program's (`was = live[old]`), the
  bucket the loop looks at is large and aligned enough, and a block moved out of
  a pool goes to a request larger than itself, which is why copying the whole of
  it fits;
- `Sound(p)`: the data in a block is no longer than the block was asked to be,
  which is why copying `min(size, bytes)` is enough.

That the overflow loop finds a bucket with the alignment, and that it is the
first, is an argument by the least element of a set of naturals. `CountInv` adds
to `AllocInv` that the counters are numbers. Since each counter is added to in a
step of its own, `StatsAddUp` and `HitsAddUp` are sums corrected for the calls
between two additions: `At` is the set of threads at some stage of a call, and
`Counted` the blocks whose hit is counted and whose free is not. The proof of
`StatsAddUp` follows what each step does to these sets, which a thread enters or
leaves and which gain or lose one block, and counts them with the theorems on
cardinality. It is the reason why `Threads` is assumed finite. `HitsAddUp`
compares a counter with the sum of the buckets' hits, a recursive function. The
proof carries along that some function adds up the hits to the counter less the
threads between the two additions (`Summed`): a step that counts a hit in bucket
`j` adds one to that function's values above `j`, and any two functions that add
up the same hits agree, by the least bucket at which they would not.

### C interface

`LifecycleProofs` proves the six properties of `lifecycle` for any number of
threads, allocators and buckets and any cache sizes, for programs that keep to
`OneAllocator`; `lifecycle_both` shows that it cannot be dropped.
`LifecycleInv` says what a call in progress has and which allocator it is for
(`CallOK`), that a record is zero or wholly about one bucket of that allocator,
and how far creation and destruction have got through the records
(`RecordsOK`), that a thread with caches finds their allocator alive
(`OwnersAlive`), that malloc's memory is that of allocators that are alive and of
records in use (`HeapOK`), that the program's blocks are of the allocator asked
or generic (`HeldOK`), and that no block of an allocator that is alive is lost
(`NoneLost`). `<<>>`, which stands for the null pointer, is assumed to be no
allocator.

### Only model-checked

- `CallsReturn` and `TestEnds`, which need fairness: liveness is out of the
  prover's reach. Every other property of a passing run is stated by a theorem.
- The list with chains: `pool_list` checks chains of two that are pushed while
  nobody else is inside `Alloc`; pushed at any time, as the code does, they
  break it (`pool_chain_aba`).

## Not modelled

- Memory running out while allocators, buffers and caches are created: the code
  does not check for it, and what follows is undefined.
- Programs that break the rules of `Lifecycle`: blocks or caches used after
  their allocator is destroyed, threads that end with a cache.
- Weaker memory orders: the code uses the default order on `head`.
- The patterns of StressTest, see `ThreadTests` above.
- The tests that make single calls with fixed arguments, the benchmarks of
  other allocators, printing of statistics, and what is under `extern/`.

## What is left

`CachedPool`, the caches over the detailed list: the composition in which the
chain violation happens with real flushes. Today `PoolBucket` pushes the chains
that a flush would, and `ThreadCache` flushes into the atomic pool that the list
implements only without them.
