--------------------------- MODULE AllocatorProofs ---------------------------
(***************************************************************************)
(* The front end keeps blocks apart, their contents and their sizes, for   *)
(* any number of threads, buckets, blocks and calls, over pools that keep  *)
(* the promise of BlockPool.tla, as Allocator.tla assumes them.            *)
(***************************************************************************)
EXTENDS Allocator, PartitioningProofs, FiniteSetTheorems

(* The assertion in GetBucketIndexBySize() that the float partitioning      *)
(* makes: a rounded size is below UINT32_MAX.                               *)
WithinAssertion ==
  Scheme = "float" => \A n \in Sizes, a \in Alignments : Align(n, a) < Power[32] - 1

Blocks == PoolBlocks \union GenericBlocks
Entries == [bytes : Nat, align : PowersOfTwo, asked : PowersOfTwo,
            data : Threads \union {"garbage"}, len : Nat]
Operations ==
  [old : Blocks \union {Null}, was : Entries \union {<<>>}, new : Blocks \union {Null},
   bytes : Nat, align : PowersOfTwo, data : Threads \union {"garbage"},
   index : Nat, max : 0..bucketsCount, isValidBucket : BOOLEAN,
   fromCache : BOOLEAN, grow : BOOLEAN]
Stages == {"idle", "buckets", "served", "hit", "routed", "generic", "move", "release", "crashed"}

Typed ==
  /\ free \in SUBSET PoolBlocks
  /\ cached \in [Threads -> SUBSET PoolBlocks]
  /\ unused \in SUBSET GenericBlocks
  /\ header \in [GenericBlocks -> [size : Nat, user : Nat, end : Nat]]
  /\ mem \in [Blocks -> [data : Threads \union {"garbage"}, len : Nat]]
  /\ DOMAIN live \subseteq Blocks \union {Unreadable(a) : a \in Alignments}
  /\ live \in [DOMAIN live -> Entries]
  /\ pc \in [Threads -> Stages]
  /\ op \in [Threads -> Operations]
  /\ calls \in 0..MaxCalls

(* Every block is somewhere, and nowhere else. *)
Somewhere(b) ==
  \/ b \in free \/ b \in unused \/ b \in DOMAIN live
  \/ \E t \in Threads : b \in cached[t] \/ b = op[t].new

Placed ==
  /\ \A b \in Blocks : Somewhere(b)
  /\ \A b \in free \union unused : b \notin DOMAIN live
  /\ \A t \in Threads : op[t].new \notin free \union unused \union DOMAIN live
  /\ \A t \in Threads : \A b \in cached[t] : b \notin free \union DOMAIN live
  /\ \A t, u \in Threads : op[t].new \notin cached[u]
  /\ \A t, u \in Threads : t # u => cached[t] \intersect cached[u] = {}
  /\ \A t, u \in Threads : t # u /\ op[t].new = op[u].new => op[t].new = Null

(* No two calls work on the same block of the program's. *)
OneCallEach ==
  \A t, u \in Threads : t # u /\ op[t].old = op[u].old => op[t].old = Null

(* A block is as large, as aligned and as well inside malloc's as asked. *)
Serves(p, bytes, a) ==
  /\ UsableSize(p) >= bytes
  /\ IsAligned(Address(p), a)
  /\ ~InPool(p) => /\ header[p].user - HeaderSize >= MallocAddress(p)
                   /\ header[p].user + header[p].size <= header[p].end

(* What a call in progress may count on. *)
Working(t) ==
  LET o == op[t]
  IN  /\ pc[t] = "idle" => o = NoOp
      /\ pc[t] \in {"move", "release"} => o.old # Null
      /\ pc[t] \in {"served", "hit", "move"} => o.new # Null
      /\ pc[t] \in {"idle", "buckets", "routed", "generic", "crashed"} => o.new = Null
      /\ o.old # Null => o.old \in DOMAIN live
      /\ o.old # Null /\ (pc[t] \in {"buckets", "routed", "generic"} \/ o.new # Null) =>
           o.was = live[o.old]
      /\ /\ o.old # Null
         /\ pc[t] \in {"buckets", "served", "hit", "routed", "generic", "move"}
         /\ InPool(o.old)
         => ElementSize(o.old.bucket) < o.bytes
      /\ pc[t] \in {"served", "hit"} => o.new \in PoolBlocks /\ o.new.bucket = o.index
      /\ pc[t] = "buckets" /\ o.index < o.max =>
           ElementSize(o.index) >= o.bytes /\ IsAligned(ElementSize(o.index), o.align)
      /\ o.new # Null => Serves(o.new, o.bytes, o.align)
      /\ pc[t] = "release" /\ o.new # Null =>
           mem[o.new].data = o.was.data /\ mem[o.new].len >= Lesser(o.was.len, o.bytes)

(* What the program may count on: its data is no more than it asked for and *)
(* is in the block, and the block serves what it asked for.                 *)
Sound(p) ==
  /\ live[p].len <= live[p].bytes
  /\ IsReadable(p) =>
       /\ mem[p].data = live[p].data
       /\ mem[p].len >= live[p].len
       /\ Serves(p, live[p].bytes, live[p].align)

AllocInv ==
  /\ Typed
  /\ Placed
  /\ OneCallEach
  /\ \A t \in Threads : Working(t)
  /\ \A p \in DOMAIN live : Sound(p)
-----------------------------------------------------------------------------
(* Blocks, and the pointers that are none. *)
LEMMA BlockFacts ==
  /\ Null \notin Blocks
  /\ \A b \in Blocks : IsReadable(b) /\ (InPool(b) <=> b \in PoolBlocks) /\ (~InPool(b) <=> b \in GenericBlocks)
  /\ \A b \in PoolBlocks : b.bucket \in Buckets /\ b.bucket \in Nat /\ b.n \in Nat /\ b \in Blocks
  /\ \A b \in GenericBlocks : b.n \in Nat /\ b \in Blocks
  /\ PoolBlocks \intersect GenericBlocks = {}
  /\ \A a \in Alignments : Unreadable(a) \notin Blocks /\ Unreadable(a) # Null /\ ~IsReadable(Unreadable(a))
<1>1. \A b \in PoolBlocks : b.bucket \in Buckets /\ b.bucket \in Nat /\ b.n \in Nat /\ b \in Blocks
  BY AllocatorConstants DEF PoolBlocks, Buckets, Blocks
<1>2. \A b \in GenericBlocks : b.bucket = -1 /\ b.n \in Nat /\ b \in Blocks
  BY AllocatorConstants DEF GenericBlocks, Blocks
<1>3. \A v : Unreadable(v).bucket = -2 /\ Unreadable(v).n = v
  BY DEF Unreadable
<1>4. \A a \in Alignments : a # 0
  BY AllocatorConstants
<1>5. QED
  BY <1>1, <1>2, <1>3, <1>4 DEF Blocks, Null, IsReadable, InPool

-----------------------------------------------------------------------------
(* The sizes of blocks. *)
LEMMA SizeFacts ==
  /\ \A i \in Nat : ElementSize(i) \in Nat
  /\ \A i, j \in Nat : i <= j => ElementSize(i) <= ElementSize(j)
  /\ \A i \in Nat : \A a \in PowersOfTwo : IsAligned(ElementSize(i), a) =>
       \E k \in 1..256 : IsAligned(ElementSize(i + k), a)
<1>1. CASE Scheme = "linear"
  <2>1. \A i : ElementSize(i) = LinearSize(i)
    BY <1>1 DEF ElementSize, GetBucketSizeInBytesByIndex
  <2>2. QED
    BY <2>1, LinearMonotone, LinearNextAligned DEF IsAligned
<1>2. CASE Scheme = "pl"
  <2>1. \A i : ElementSize(i) = PLSize(i)
    BY <1>2 DEF ElementSize, GetBucketSizeInBytesByIndex
  <2>2. QED
    BY <2>1, PLMonotone, PLNextAligned DEF IsAligned
<1>3. CASE Scheme = "float"
  <2>1. \A i : ElementSize(i) = FloatSize(i)
    BY <1>3 DEF ElementSize, GetBucketSizeInBytesByIndex
  <2>2. QED
    BY <2>1, FloatMonotone, FloatNextAligned DEF IsAligned
<1>4. QED
  BY <1>1, <1>2, <1>3, AllocatorConstants

(* The first bucket that Allocate() tries serves the request ... *)
LEMMA FirstBucket ==
  ASSUME WithinAssertion, NEW bytes \in Sizes \ {0}, NEW a \in Alignments
  PROVE  /\ Bucket(bytes, a) \in Nat
         /\ ElementSize(Bucket(bytes, a)) >= bytes
         /\ IsAligned(ElementSize(Bucket(bytes, a)), a)
<1> DEFINE n == Align(bytes, a)
<1>1. a \in PowersOfTwo /\ bytes \in Nat \ {0} /\ n \in Nat \ {0} /\ n >= bytes /\ n % a = 0
  <2>1. a \in PowersOfTwo /\ bytes \in Nat \ {0}
    BY AllocatorConstants DEF PowersOfTwo
  <2>2. QED
    BY <2>1, AlignUp
<1> HIDE DEF n
<1>2. CASE Scheme = "linear"
  <2>1. Bucket(bytes, a) = LinearIndex(n) /\ \A i : ElementSize(i) = LinearSize(i)
    BY <1>2 DEF Bucket, ElementSize, GetBucketIndexBySize, GetBucketSizeInBytesByIndex, n
  <2>2. QED
    BY <1>1, <2>1, LinearFits, LinearAligned DEF IsAligned
<1>3. CASE Scheme = "pl"
  <2>1. Bucket(bytes, a) = PLIndex(n) /\ \A i : ElementSize(i) = PLSize(i)
    BY <1>3 DEF Bucket, ElementSize, GetBucketIndexBySize, GetBucketSizeInBytesByIndex, n
  <2>2. QED
    BY <1>1, <2>1, PLFits, PLAligned DEF IsAligned
<1>4. CASE Scheme = "float"
  <2>1. Bucket(bytes, a) = FloatIndex(n) /\ \A i : ElementSize(i) = FloatSize(i)
    BY <1>4 DEF Bucket, ElementSize, GetBucketIndexBySize, GetBucketSizeInBytesByIndex, n
  <2>2. n < Power[32] - 1 /\ Power[32] \in Nat
    BY <1>4, PowerType DEF WithinAssertion, n
  <2>3. n < Power[32]
    BY <1>1, <2>2
  <2>4. QED
    BY <1>1, <2>1, <2>3, FloatFits, FloatAligned DEF IsAligned
<1>5. QED
  BY <1>2, <1>3, <1>4, AllocatorConstants

(* ... and so does every one that it overflows into. *)
LEMMA NextBucketFits ==
  ASSUME NEW i \in Nat, NEW a \in PowersOfTwo, IsAligned(ElementSize(i), a)
  PROVE  /\ NextBucket(i, a) \in Nat
         /\ ElementSize(NextBucket(i, a)) >= ElementSize(i)
         /\ IsAligned(ElementSize(NextBucket(i, a)), a)
<1> DEFINE S == {j \in (i + 1)..(i + 256) : IsAligned(ElementSize(j), a)}
<1>1. S \in SUBSET Nat /\ S # {}
  <2>1. PICK k \in 1..256 : IsAligned(ElementSize(i + k), a)
    BY SizeFacts
  <2>2. i + k \in S
    BY <2>1
  <2>3. QED
    BY <2>2
<1>2. PICK m \in S : \A k \in S : m <= k
  BY <1>1, HasLeast
<1>3. m \in (i + 1)..(i + 256) /\ IsAligned(ElementSize(m), a)
  BY <1>2
<1>4. \A k \in (i + 1)..(m - 1) : ~IsAligned(ElementSize(k), a)
  BY <1>2, <1>3
<1>5. /\ NextBucket(i, a) \in (i + 1)..(i + 256)
      /\ IsAligned(ElementSize(NextBucket(i, a)), a)
  BY <1>3, <1>4 DEF NextBucket
<1>6. QED
  BY <1>5, SizeFacts

(* Blocks of a pool are of the size of its bucket and aligned to it. *)
LEMMA PoolBlockServes ==
  ASSUME NEW b \in PoolBlocks, NEW bytes \in Nat, NEW a \in PowersOfTwo,
         ElementSize(b.bucket) >= bytes, IsAligned(ElementSize(b.bucket), a)
  PROVE  Serves(b, bytes, a) /\ Serves(b, bytes, a)'
<1>1. b.n \in Nat /\ ElementSize(b.bucket) \in Nat /\ InPool(b) /\ IsReadable(b)
  BY BlockFacts, SizeFacts
<1>2. IsAligned(b.n * ElementSize(b.bucket), a)
  BY <1>1, Multiples DEF IsAligned
<1>3. QED
  BY <1>1, <1>2 DEF Serves, UsableSize, Address

(* The arithmetic of GenericAllocator::Alloc(). *)
LEMMA GenericArithmetic ==
  ASSUME NEW p \in Nat, NEW a \in PowersOfTwo
  PROVE  /\ GenericAddress(p, a) \in Nat
         /\ GenericOffset(a) \in Nat
         /\ GenericAddress(p, a) - HeaderSize >= p
         /\ GenericAddress(p, a) <= p + GenericOffset(a)
         /\ IsAligned(GenericAddress(p, a), a)
BY SMTT(60) DEF PowersOfTwo, GenericAddress, GenericOffset, GenericAlignment, HeaderSize, IsAligned

LEMMA GenericBlockServes ==
  ASSUME NEW g \in GenericBlocks, NEW bytes \in Nat, NEW a \in PowersOfTwo,
         header'[g] = [size |-> bytes,
                       user |-> GenericAddress(MallocAddress(g), a),
                       end  |-> MallocAddress(g) + bytes + GenericOffset(a)]
  PROVE  header'[g] \in [size : Nat, user : Nat, end : Nat] /\ Serves(g, bytes, a)'
<1>1. ~InPool(g) /\ IsReadable(g) /\ g.n \in Nat
  BY BlockFacts
<1>2. MallocAddress(g) \in Nat
  BY <1>1 DEF MallocAddress
<1>3. QED
  BY <1>1, <1>2, GenericArithmetic DEF Serves, UsableSize, Address, HeaderSize

LEMMA ServesKept ==
  ASSUME NEW p \in Blocks, NEW bytes, NEW a, Serves(p, bytes, a),
         p \in GenericBlocks => header'[p] = header[p]
  PROVE  Serves(p, bytes, a)'
<1>1. IsReadable(p) /\ (~InPool(p) => header'[p] = header[p])
  BY BlockFacts
<1>2. QED
  BY <1>1 DEF Serves, UsableSize, Address
-----------------------------------------------------------------------------
(* What a step leaves alone. *)
LEMMA OthersKeep ==
  ASSUME NEW u \in Threads, Typed, Working(u), op'[u] = op[u], pc'[u] = pc[u],
         op[u].old # Null => op[u].old \in DOMAIN live' /\ live'[op[u].old] = live[op[u].old],
         op[u].new # Null => /\ mem'[op[u].new] = mem[op[u].new]
                             /\ op[u].new \in GenericBlocks =>
                                  header'[op[u].new] = header[op[u].new]
  PROVE  Working(u)'
<1> DEFINE o == op[u]
<1>1. o.new \in Blocks \union {Null}
  BY DEF Typed, Operations
<1>2. o.new # Null => Serves(o.new, o.bytes, o.align)'
  <2>1. SUFFICES ASSUME o.new # Null PROVE Serves(o.new, o.bytes, o.align)'
    OBVIOUS
  <2>2. Serves(o.new, o.bytes, o.align)
    BY <2>1 DEF Working
  <2>3. QED
    BY <1>1, <2>1, <2>2, ServesKept
<1>3. QED
  BY <1>2 DEF Working

LEMMA SoundKept ==
  ASSUME NEW p, p \in DOMAIN live, Typed, Sound(p), live'[p] = live[p],
         p \in Blocks => mem'[p] = mem[p],
         p \in GenericBlocks => header'[p] = header[p]
  PROVE  Sound(p)'
<1>1. CASE p \in Blocks
  <2>1. IsReadable(p)
    BY <1>1, BlockFacts
  <2>2. Serves(p, live[p].bytes, live[p].align)'
    BY <1>1, <2>1, ServesKept DEF Sound
  <2>3. QED
    BY <1>1, <2>2 DEF Sound
<1>2. CASE p \notin Blocks
  <2>1. ~IsReadable(p)
    BY <1>2, BlockFacts DEF Typed
  <2>2. QED
    BY <2>1 DEF Sound
<1>3. QED
  BY <1>1, <1>2

LEMMA NoOpFacts ==
  /\ NoOp \in Operations
  /\ NoOp.old = Null /\ NoOp.new = Null
<1>1. 0 \in 0..bucketsCount /\ 1 \in PowersOfTwo
  BY AllocatorConstants DEF PowersOfTwo
<1>2. QED
  BY <1>1 DEF NoOp, Operations, Garbage

(* A thread between calls. *)
LEMMA IdleWorks ==
  ASSUME NEW t \in Threads, pc'[t] = "idle", op'[t] = NoOp
  PROVE  Working(t)'
BY NoOpFacts DEF Working

(* The block that an allocation is to replace, and the operation that it    *)
(* works on.                                                                *)
Replaces(t, o) ==
  o.old # Null => /\ o.old \in DOMAIN live
                  /\ o.was = live[o.old]
                  /\ InPool(o.old) => ElementSize(o.old.bucket) < o.bytes
                  /\ \A u \in Threads : u # t => op[u].old # o.old

Ready(t, o) ==
  /\ o.new = Null
  /\ Replaces(t, o)
  /\ o.index < o.max => ElementSize(o.index) >= o.bytes /\ IsAligned(ElementSize(o.index), o.align)

LEMMA RequestReady ==
  ASSUME WithinAssertion, Typed, NEW t \in Threads, NEW bytes \in Sizes \ {0}, NEW a \in Alignments,
         NEW old, old = Null \/ (old \in Blocks /\ Held(old)),
         old # Null /\ InPool(old) => ElementSize(old.bucket) < bytes
  PROVE  \E o \in Operations :
           /\ o = Request(t, old, bytes, a) /\ Ready(t, o)
           /\ ElementSize(o.index) >= o.bytes /\ IsAligned(ElementSize(o.index), o.align)
<1> DEFINE i == Bucket(bytes, a)
           was == IF old = Null THEN <<>> ELSE live[old]
<1>1. a \in PowersOfTwo /\ bytes \in Nat
  <2>1. a \in PowersOfTwo
    BY AllocatorConstants DEF PowersOfTwo
  <2>2. bytes \in Nat
    BY AllocatorConstants
  <2>3. QED
    BY <2>1, <2>2
<1>2. i \in Nat /\ ElementSize(i) >= bytes /\ IsAligned(ElementSize(i), a)
  BY FirstBucket
<1>3. MaxBucketIndex(i) \in 0..bucketsCount
  BY <1>2, AllocatorConstants DEF MaxBucketIndex, Lesser
<1>4. was \in Entries \union {<<>>}
  BY DEF Held, Typed
<1>5. Request(t, old, bytes, a) =
        [old |-> old, was |-> was, new |-> Null, bytes |-> bytes, align |-> a, data |-> t,
         index |-> i, max |-> MaxBucketIndex(i), isValidBucket |-> (i < bucketsCount),
         fromCache |-> FALSE, grow |-> FALSE]
  BY DEF Request
<1> HIDE DEF i, was
<1>6. Request(t, old, bytes, a) \in Operations
  BY <1>1, <1>2, <1>3, <1>4, <1>5 DEF Operations
<1>7. Ready(t, Request(t, old, bytes, a))
  BY <1>2, <1>5 DEF Ready, Replaces, Held, was
<1> DEFINE r == Request(t, old, bytes, a)
<1>8. r.bytes = bytes /\ r.align = a /\ r.index = i
  BY <1>5
<1> HIDE DEF r
<1>9. ElementSize(r.index) >= r.bytes /\ IsAligned(ElementSize(r.index), r.align)
  BY <1>2, <1>8
<1>10. QED
  BY <1>6, <1>7, <1>9 DEF r
-----------------------------------------------------------------------------
(* A call takes block r, or goes on with it, for a request of the program's *)
(* or in place of an old block: everything that is not about r or the       *)
(* thread stays, whichever place the block came from.                       *)
LEMMA TakesBlock ==
  ASSUME AllocInv, NEW t \in Threads, NEW q \in Operations, NEW s \in Stages, NEW r \in Blocks,
         q.new = r, op[t].new \in {Null, r}, r \notin DOMAIN live,
         \A u \in Threads : u # t => op[u].new # r,
         q.old # Null => \A u \in Threads : u # t => op[u].old # q.old,
         free' = free \ {r}, unused' = unused \ {r},
         cached' = [u \in Threads |-> cached[u] \ {r}],
         header' \in [GenericBlocks -> [size : Nat, user : Nat, end : Nat]],
         \A g \in GenericBlocks : g # r => header'[g] = header[g],
         UNCHANGED <<mem, live>>, op' = [op EXCEPT ![t] = q], pc' = [pc EXCEPT ![t] = s],
         Working(t)', calls' \in 0..MaxCalls
  PROVE  AllocInv'
<1>1. /\ pc'[t] = s /\ op'[t] = q
      /\ \A u \in Threads : u # t => pc'[u] = pc[u] /\ op'[u] = op[u]
  BY DEF AllocInv, Typed
<1>2. \A u \in Threads : op[u].old \in Blocks \union {Null} /\ op[u].new \in Blocks \union {Null}
  BY DEF AllocInv, Typed, Operations
<1>3. \A u \in Threads : op[u].old # Null => op[u].old \in DOMAIN live
  BY DEF AllocInv, Working
<1>4. r # Null
  BY BlockFacts
<1>5. Typed'
  <2>1. free' \in SUBSET PoolBlocks /\ unused' \in SUBSET GenericBlocks
        /\ cached' \in [Threads -> SUBSET PoolBlocks]
    BY DEF AllocInv, Typed
  <2>2. op' \in [Threads -> Operations] /\ pc' \in [Threads -> Stages]
    BY DEF AllocInv, Typed
  <2>3. QED
    BY <2>1, <2>2 DEF AllocInv, Typed
<1>6. Placed'
  <2>1. \A b \in Blocks : Somewhere(b)'
    BY <1>1, <1>4, BlockFacts DEF AllocInv, Placed, Somewhere
  <2>2. QED
    BY <1>1, <1>4, <2>1 DEF AllocInv, Placed
<1>7. OneCallEach'
  <2>1. ASSUME NEW x \in Threads, NEW y \in Threads, x # y, op'[x].old = op'[y].old
        PROVE  op'[x].old = Null
    <3>1. CASE x = t \/ y = t
      BY <1>1, <2>1, <3>1
    <3>2. CASE x # t /\ y # t
      BY <1>1, <2>1, <3>2 DEF AllocInv, OneCallEach
    <3>3. QED
      BY <3>1, <3>2
  <2>2. QED
    BY <2>1 DEF OneCallEach
<1>8. ASSUME NEW u \in Threads PROVE Working(u)'
  <2>1. CASE u # t
    <3>1. /\ op'[u] = op[u] /\ pc'[u] = pc[u]
          /\ op[u].old # Null => op[u].old \in DOMAIN live' /\ live'[op[u].old] = live[op[u].old]
          /\ op[u].new # Null => /\ mem'[op[u].new] = mem[op[u].new]
                                 /\ op[u].new \in GenericBlocks =>
                                      header'[op[u].new] = header[op[u].new]
      BY <1>1, <1>2, <1>3, <2>1
    <3>2. QED
      BY <3>1, OthersKeep DEF AllocInv
  <2>2. QED
    BY <2>1
<1>9. ASSUME NEW p \in DOMAIN live' PROVE Sound(p)'
  <2>1. p \in DOMAIN live /\ live'[p] = live[p] /\ p # r /\ mem' = mem
    OBVIOUS
  <2>2. p \in GenericBlocks => header'[p] = header[p]
    BY <2>1
  <2>3. QED
    BY <2>1, <2>2, SoundKept DEF AllocInv
<1>10. QED
  BY <1>5, <1>6, <1>7, <1>8, <1>9 DEF AllocInv

(* An allocation ends with block r. *)
LEMMA DeliverBlock ==
  ASSUME AllocInv, NEW t \in Threads, NEW o \in Operations, NEW r \in Blocks,
         pc[t] \in {"idle", "generic", "hit"}, Replaces(t, o), op[t].new \in {Null, r},
         r \notin DOMAIN live, \A u \in Threads : u # t => op[u].new # r,
         free' = free \ {r}, unused' = unused \ {r},
         cached' = [u \in Threads |-> cached[u] \ {r}],
         header' \in [GenericBlocks -> [size : Nat, user : Nat, end : Nat]],
         \A g \in GenericBlocks : g # r => header'[g] = header[g],
         Serves(r, o.bytes, o.align)',
         Deliver(t, o, r), calls' \in 0..MaxCalls
  PROVE  AllocInv'
<1>1. r # Null /\ Null \notin DOMAIN live /\ IsReadable(r)
  BY BlockFacts DEF AllocInv, Typed
<1>2. Null \notin free /\ Null \notin unused /\ \A u \in Threads : Null \notin cached[u]
  BY BlockFacts DEF AllocInv, Typed
<1>3. \A u \in Threads : op[u].old \in Blocks \union {Null} /\ op[u].new \in Blocks \union {Null}
  BY DEF AllocInv, Typed, Operations
<1>4. \A u \in Threads : op[u].old # Null => op[u].old \in DOMAIN live
  BY DEF AllocInv, Working
<1>5. CASE o.old = Null
  <2>1. /\ pc' = [pc EXCEPT ![t] = "idle"] /\ op' = [op EXCEPT ![t] = NoOp]
        /\ live' = With(r, Filled(o))
        /\ mem' = [mem EXCEPT ![r] = [data |-> o.data, len |-> o.bytes]]
    BY <1>1, <1>5 DEF Deliver, Idle
  <2>2. /\ pc'[t] = "idle" /\ op'[t] = NoOp
        /\ \A u \in Threads : u # t => pc'[u] = pc[u] /\ op'[u] = op[u]
    BY <2>1 DEF AllocInv, Typed
  <2>3. /\ DOMAIN live' = DOMAIN live \union {r}
        /\ live'[r] = Filled(o)
        /\ \A p \in DOMAIN live : live'[p] = live[p]
    BY <2>1 DEF With
  <2>4. /\ mem'[r].data = o.data /\ mem'[r].len = o.bytes
        /\ \A p \in Blocks : p # r => mem'[p] = mem[p]
    BY <2>1 DEF AllocInv, Typed
  <2>5. Typed'
    <3>1. Filled(o) \in Entries
      BY DEF Filled, Operations, Entries
    <3>2. /\ DOMAIN live' \subseteq Blocks \union {Unreadable(a) : a \in Alignments}
          /\ live' \in [DOMAIN live' -> Entries]
      BY <2>1, <2>3, <3>1 DEF AllocInv, Typed, With
    <3>3. mem' \in [Blocks -> [data : Threads \union {"garbage"}, len : Nat]]
      BY <2>1 DEF AllocInv, Typed, Operations
    <3>4. free' \in SUBSET PoolBlocks /\ unused' \in SUBSET GenericBlocks
          /\ cached' \in [Threads -> SUBSET PoolBlocks]
      BY DEF AllocInv, Typed
    <3>5. op' \in [Threads -> Operations]
      BY <2>1, NoOpFacts DEF AllocInv, Typed
    <3>6. pc' \in [Threads -> Stages]
      BY <2>1 DEF AllocInv, Typed, Stages
    <3>7. QED
      BY <3>2, <3>3, <3>4, <3>5, <3>6 DEF Typed
  <2>6. Placed'
    <3>1. op'[t].new = Null /\ \A u \in Threads : u # t => op'[u].new = op[u].new
      BY <2>2, NoOpFacts
    <3>2. \A b \in Blocks : Somewhere(b)'
      BY <2>3, <3>1, BlockFacts DEF AllocInv, Placed, Somewhere
    <3>3. \A u \in Threads : op'[u].new = Null \/ (u # t /\ op'[u].new = op[u].new /\ op[u].new # r)
      BY <3>1
    <3>4. \A u \in Threads : op'[u].new \notin free' \union unused' \union DOMAIN live'
      BY <1>1, <1>2, <2>3, <3>3 DEF AllocInv, Placed
    <3>5. \A u, v \in Threads : op'[u].new \notin cached'[v]
      BY <1>2, <3>3 DEF AllocInv, Placed
    <3>6. \A u, v \in Threads : u # v /\ op'[u].new = op'[v].new => op'[u].new = Null
      BY <3>3 DEF AllocInv, Placed
    <3>7. QED
      BY <2>3, <3>2, <3>4, <3>5, <3>6 DEF AllocInv, Placed
  <2>7. OneCallEach'
    BY <2>2, NoOpFacts DEF AllocInv, OneCallEach
  <2>8. ASSUME NEW u \in Threads PROVE Working(u)'
    <3>1. CASE u = t
      BY <2>2, <3>1, IdleWorks
    <3>2. CASE u # t
      <4>1. /\ op'[u] = op[u] /\ pc'[u] = pc[u]
            /\ op[u].old # Null => op[u].old \in DOMAIN live' /\ live'[op[u].old] = live[op[u].old]
            /\ op[u].new # Null => /\ mem'[op[u].new] = mem[op[u].new]
                                   /\ op[u].new \in GenericBlocks =>
                                        header'[op[u].new] = header[op[u].new]
        BY <1>3, <1>4, <2>2, <2>3, <2>4, <3>2
      <4>2. QED
        BY <4>1, OthersKeep DEF AllocInv
    <3>3. QED
      BY <3>1, <3>2
  <2>9. ASSUME NEW p \in DOMAIN live' PROVE Sound(p)'
    <3>1. CASE p = r
      BY <2>3, <2>4, <3>1 DEF Sound, Filled, Operations
    <3>2. CASE p # r
      <4>1. p \in DOMAIN live /\ live'[p] = live[p]
        BY <2>3, <3>2
      <4>2. /\ p \in Blocks => mem'[p] = mem[p]
            /\ p \in GenericBlocks => header'[p] = header[p]
        BY <2>4, <3>2
      <4>3. QED
        BY <4>1, <4>2, SoundKept DEF AllocInv
    <3>3. QED
      BY <3>1, <3>2
  <2>10. QED
    BY <2>5, <2>6, <2>7, <2>8, <2>9 DEF AllocInv
<1>6. CASE o.old # Null
  <2>1. PICK q : q = [o EXCEPT !.new = r]
    OBVIOUS
  <2>2. /\ pc' = [pc EXCEPT ![t] = "move"] /\ op' = [op EXCEPT ![t] = q]
        /\ UNCHANGED <<mem, live>>
    BY <1>1, <1>6, <2>1 DEF Deliver
  <2>3. pc'[t] = "move" /\ op'[t] = q
    BY <2>2 DEF AllocInv, Typed
  <2>4. /\ q \in Operations /\ q.new = r /\ q.old = o.old /\ q.was = o.was
        /\ q.bytes = o.bytes /\ q.align = o.align
    BY <2>1 DEF Operations
  <2>5. Serves(r, o.bytes, o.align)'
    OBVIOUS
  <2>6. Working(t)'
    BY <1>1, <1>6, <2>2, <2>3, <2>4, <2>5 DEF Working, Replaces
  <2>7. q.old # Null => \A u \in Threads : u # t => op[u].old # q.old
    BY <2>4 DEF Replaces
  <2>8. PICK s \in Stages : s = "move"
    BY DEF Stages
  <2>9. pc' = [pc EXCEPT ![t] = s]
    BY <2>2, <2>8
  <2>10. QED
    BY <2>2, <2>4, <2>6, <2>7, <2>9, TakesBlock
<1>7. QED
  BY <1>5, <1>6

(* An allocation fails.  Nothing but the call changes; a move out of the    *)
(* generic allocator, which goes on with nullptr, ends the process.         *)
LEMMA DeliverNull ==
  ASSUME AllocInv, NEW t \in Threads, NEW o \in Operations,
         pc[t] \in {"idle", "generic"}, o = op[t] \/ o.grow,
         UNCHANGED places, Deliver(t, o, Null), calls' \in 0..MaxCalls
  PROVE  AllocInv'
<1>1. UNCHANGED <<mem, live, free, cached, unused, header>>
  BY DEF Deliver, places
<1>2. op[t].new = Null
  BY DEF AllocInv, Working
<1>3. \/ pc' = [pc EXCEPT ![t] = "idle"] /\ op' = [op EXCEPT ![t] = NoOp]
      \/ pc' = [pc EXCEPT ![t] = "crashed"] /\ op' = op
  BY DEF Deliver, Idle
<1>4. \A u \in Threads : u # t => pc'[u] = pc[u] /\ op'[u] = op[u]
  BY <1>3 DEF AllocInv, Typed
<1>5. op'[t] \in Operations /\ op'[t].new = Null /\ (op'[t].old = Null \/ op'[t] = op[t])
  BY <1>2, <1>3, NoOpFacts DEF AllocInv, Typed
<1>6. Typed'
  <2>1. op' \in [Threads -> Operations]
    BY <1>3, NoOpFacts DEF AllocInv, Typed
  <2>2. pc' \in [Threads -> Stages]
    BY <1>3 DEF AllocInv, Typed, Stages
  <2>3. QED
    BY <1>1, <2>1, <2>2 DEF AllocInv, Typed
<1>7. Placed'
  <2>1. \A u \in Threads : op'[u].new = op[u].new
    BY <1>2, <1>4, <1>5
  <2>2. \A b \in Blocks : Somewhere(b)'
    BY <1>1, <2>1 DEF AllocInv, Placed, Somewhere
  <2>3. QED
    BY <1>1, <2>1, <2>2 DEF AllocInv, Placed
<1>8. OneCallEach'
  BY <1>4, <1>5 DEF AllocInv, OneCallEach
<1>9. ASSUME NEW u \in Threads PROVE Working(u)'
  <2>1. CASE u = t /\ pc'[t] = "idle" /\ op'[t] = NoOp
    BY <2>1, IdleWorks
  <2>2. CASE u = t /\ pc'[t] = "crashed" /\ op'[t] = op[t]
    BY <1>1, <1>2, <2>2 DEF AllocInv, Working
  <2>3. CASE u # t
    BY <1>1, <1>4, <2>3, OthersKeep DEF AllocInv, Working
  <2>4. QED
    BY <1>3, <2>1, <2>2, <2>3 DEF AllocInv, Typed
<1>10. ASSUME NEW p \in DOMAIN live' PROVE Sound(p)'
  BY <1>1, SoundKept DEF AllocInv
<1>11. QED
  BY <1>6, <1>7, <1>8, <1>9, <1>10 DEF AllocInv

(* A step that touches neither blocks nor pointers: only the thread goes on *)
(* with an operation that is still without a new block.                     *)
LEMMA OnlyTheThread ==
  ASSUME AllocInv, NEW t \in Threads, NEW o \in Operations, NEW s,
         s \in Stages,
         UNCHANGED <<places, mem, live>>,
         op' = [op EXCEPT ![t] = o], pc' = [pc EXCEPT ![t] = s],
         op[t].new = Null, o.new = Null,
         o.old # Null => \A u \in Threads : u # t => op[u].old # o.old,
         Working(t)', calls' \in 0..MaxCalls
  PROVE  AllocInv'
<1>1. UNCHANGED <<mem, live, free, cached, unused, header>>
  BY DEF places
<1>2. /\ pc'[t] = s /\ op'[t] = o
      /\ \A u \in Threads : u # t => pc'[u] = pc[u] /\ op'[u] = op[u]
  BY DEF AllocInv, Typed
<1>3. Typed'
  BY <1>1 DEF AllocInv, Typed
<1>4. Placed'
  <2>1. \A u \in Threads : op'[u].new = op[u].new
    BY <1>2
  <2>2. \A b \in Blocks : Somewhere(b)'
    BY <1>1, <2>1 DEF AllocInv, Placed, Somewhere
  <2>3. QED
    BY <1>1, <2>1, <2>2 DEF AllocInv, Placed
<1>5. OneCallEach'
  BY <1>2 DEF AllocInv, OneCallEach
<1>6. ASSUME NEW u \in Threads PROVE Working(u)'
  <2>1. CASE u # t
    BY <1>1, <1>2, <2>1, OthersKeep DEF AllocInv, Working
  <2>2. QED
    BY <2>1
<1>7. ASSUME NEW p \in DOMAIN live' PROVE Sound(p)'
  BY <1>1, SoundKept DEF AllocInv
<1>8. QED
  BY <1>3, <1>4, <1>5, <1>6, <1>7 DEF AllocInv
-----------------------------------------------------------------------------
(* Allocate() has found a block in a cache or in a pool. *)
LEMMA FoundKeeps ==
  ASSUME AllocInv, NEW t \in Threads, NEW o \in Operations, NEW b \in PoolBlocks, NEW c \in BOOLEAN,
         op[t].new = Null, Replaces(t, o), b.bucket = o.index,
         b \notin DOMAIN live, \A u \in Threads : op[u].new # b,
         free' = free \ {b}, unused' = unused, header' = header,
         cached' = [u \in Threads |-> cached[u] \ {b}],
         Serves(b, o.bytes, o.align)', Found(t, o, b, c), calls' \in 0..MaxCalls
  PROVE  AllocInv'
<1>1. b \in Blocks /\ b # Null /\ b \notin GenericBlocks
  BY BlockFacts
<1>2. PICK q : q = [o EXCEPT !.new = b, !.fromCache = c]
  OBVIOUS
<1>3. /\ pc' = [pc EXCEPT ![t] = "served"] /\ op' = [op EXCEPT ![t] = q]
      /\ UNCHANGED <<mem, live>>
  BY <1>2 DEF Found
<1>4. /\ q \in Operations /\ q.new = b /\ q.old = o.old /\ q.was = o.was
      /\ q.bytes = o.bytes /\ q.align = o.align /\ q.index = o.index
  BY <1>1, <1>2 DEF Operations
<1>5. pc'[t] = "served" /\ op'[t] = q
  BY <1>3 DEF AllocInv, Typed
<1>6. Serves(b, o.bytes, o.align)'
  OBVIOUS
<1>7. Working(t)'
  BY <1>1, <1>3, <1>4, <1>5, <1>6 DEF Working, Replaces
<1>8. q.old # Null => \A u \in Threads : u # t => op[u].old # q.old
  BY <1>4 DEF Replaces
<1>9. PICK s \in Stages : s = "served"
  BY DEF Stages
<1>10. pc' = [pc EXCEPT ![t] = s]
  BY <1>3, <1>9
<1>11. unused' = unused \ {b}
  BY <1>1 DEF AllocInv, Typed
<1>12. header' \in [GenericBlocks -> [size : Nat, user : Nat, end : Nat]]
       /\ \A g \in GenericBlocks : header'[g] = header[g]
  BY DEF AllocInv, Typed
<1>13. op[t].new \in {Null, b} /\ \A u \in Threads : u # t => op[u].new # b
  OBVIOUS
<1>14. QED
  BY <1>1, <1>3, <1>4, <1>7, <1>8, <1>9, <1>10, <1>11, <1>12, <1>13, TakesBlock

LEMMA AllocateKeeps ==
  ASSUME AllocInv, NEW t \in Threads, NEW o \in Operations,
         pc[t] = "idle", Ready(t, o), calls' \in 0..MaxCalls,
         ElementSize(o.index) >= o.bytes, IsAligned(ElementSize(o.index), o.align),
         Allocate(t, o)
  PROVE  AllocInv'
<1>1. op[t].new = Null /\ o.new = Null /\ Replaces(t, o)
  BY DEF AllocInv, Working, Ready
<1>2. CASE AllocateFromCache(t, o)
  <2>1. PICK b \in cached[t] :
          /\ b.bucket = o.index
          /\ cached' = [cached EXCEPT ![t] = @ \ {b}]
          /\ Found(t, o, b, TRUE)
    BY <1>2 DEF AllocateFromCache
  <2>2. UNCHANGED <<free, unused, header>>
    BY <1>2 DEF AllocateFromCache
  <2>3. b \in PoolBlocks
    BY DEF AllocInv, Typed
  <2>4. b \notin DOMAIN live /\ b \notin free
    BY <2>3 DEF AllocInv, Placed, Typed
  <2>5. \A u \in Threads : op[u].new # b
    BY DEF AllocInv, Placed
  <2>6. \A u \in Threads : u # t => b \notin cached[u]
    BY DEF AllocInv, Placed
  <2>7. cached' = [u \in Threads |-> cached[u] \ {b}]
    BY <2>1, <2>6 DEF AllocInv, Typed
  <2>8. free' = free \ {b}
    BY <2>2, <2>4
  <2>9. Serves(b, o.bytes, o.align)'
    BY <2>1, <2>3, PoolBlockServes DEF Operations
  <2>10. QED
    BY <1>1, <2>1, <2>2, <2>3, <2>4, <2>5, <2>7, <2>8, <2>9, FoundKeeps
<1>3. CASE AllocateFromPools(t, o)
  <2>1. /\ pc' = [pc EXCEPT ![t] = "buckets"] /\ op' = [op EXCEPT ![t] = o]
        /\ UNCHANGED <<places, mem, live>>
    BY <1>3 DEF AllocateFromPools
  <2>2. pc'[t] = "buckets" /\ op'[t] = o
    BY <2>1 DEF AllocInv, Typed
  <2>3. Working(t)'
    BY <2>1, <2>2 DEF Working, Ready, Replaces
  <2>4. o.old # Null => \A u \in Threads : u # t => op[u].old # o.old
    BY <1>1 DEF Replaces
  <2>5. QED
    BY <1>1, <2>1, <2>3, <2>4, OnlyTheThread DEF Stages
<1>4. QED
  BY <1>2, <1>3 DEF Allocate

(* GenericAllocator::Alloc() in either of its two uses. *)
LEMMA GenericAllocKeeps ==
  ASSUME AllocInv, NEW t \in Threads, NEW o \in Operations,
         pc[t] \in {"idle", "generic"}, Replaces(t, o), o = op[t] \/ o.grow,
         calls' \in 0..MaxCalls, UNCHANGED <<free, cached>>, GenericAlloc(t, o)
  PROVE  AllocInv'
<1>1. CASE \E g \in unused :
             /\ unused' = unused \ {g}
             /\ header' = [header EXCEPT ![g] =
                  [size |-> o.bytes,
                   user |-> GenericAddress(MallocAddress(g), o.align),
                   end  |-> MallocAddress(g) + o.bytes + GenericOffset(o.align)]]
             /\ Deliver(t, o, g)
  <2>1. PICK g \in unused :
             /\ unused' = unused \ {g}
             /\ header' = [header EXCEPT ![g] =
                  [size |-> o.bytes,
                   user |-> GenericAddress(MallocAddress(g), o.align),
                   end  |-> MallocAddress(g) + o.bytes + GenericOffset(o.align)]]
             /\ Deliver(t, o, g)
    BY <1>1
  <2>2. g \in GenericBlocks /\ g \in Blocks /\ g \notin PoolBlocks
    BY BlockFacts DEF AllocInv, Typed
  <2>3. g \notin DOMAIN live /\ \A u \in Threads : op[u].new # g
    BY DEF AllocInv, Placed
  <2>4. g \notin free /\ \A u \in Threads : g \notin cached[u]
    BY <2>2 DEF AllocInv, Typed
  <2>5. free' = free \ {g} /\ cached' = [u \in Threads |-> cached[u] \ {g}]
    BY <2>4 DEF AllocInv, Typed
  <2>6. header'[g] = [size |-> o.bytes,
                      user |-> GenericAddress(MallocAddress(g), o.align),
                      end  |-> MallocAddress(g) + o.bytes + GenericOffset(o.align)]
        /\ \A h \in GenericBlocks : h # g => header'[h] = header[h]
    BY <2>1, <2>2 DEF AllocInv, Typed
  <2>7. header'[g] \in [size : Nat, user : Nat, end : Nat] /\ Serves(g, o.bytes, o.align)'
    BY <2>2, <2>6, GenericBlockServes DEF Operations
  <2>8. header' \in [GenericBlocks -> [size : Nat, user : Nat, end : Nat]]
    BY <2>1, <2>6, <2>7 DEF AllocInv, Typed
  <2>9. op[t].new = Null
    BY DEF AllocInv, Working
  <2>10. QED
    BY <2>1, <2>2, <2>3, <2>5, <2>6, <2>7, <2>8, <2>9, DeliverBlock
<1>2. CASE Deliver(t, o, Null) /\ UNCHANGED <<unused, header>>
  BY <1>2, DeliverNull DEF places
<1>3. QED
  BY <1>1, <1>2 DEF GenericAlloc

LEMMA BucketHitKeeps ==
  ASSUME AllocInv, NEW t \in Threads, BucketHit(t)
  PROVE  AllocInv'
<1>1. PICK b \in free : b.bucket = op[t].index /\ free' = free \ {b} /\ Found(t, op[t], b, FALSE)
  BY DEF BucketHit
<1>2. pc[t] = "buckets" /\ op[t].index < op[t].max /\ UNCHANGED <<cached, unused, header, calls>>
  BY DEF BucketHit
<1>3. b \in PoolBlocks
  BY DEF AllocInv, Typed
<1>4. b \notin DOMAIN live /\ \A u \in Threads : op[u].new # b /\ b \notin cached[u]
  BY <1>3 DEF AllocInv, Placed, Typed
<1>5. cached' = [u \in Threads |-> cached[u] \ {b}]
  BY <1>2, <1>4 DEF AllocInv, Typed
<1>6. PICK o \in Operations : o = op[t]
  BY DEF AllocInv, Typed
<1>7. /\ Replaces(t, o) /\ op[t].new = Null
      /\ ElementSize(o.index) >= o.bytes /\ IsAligned(ElementSize(o.index), o.align)
  BY <1>2, <1>6 DEF AllocInv, Working, Replaces, OneCallEach
<1>8. Serves(b, o.bytes, o.align)'
  BY <1>1, <1>3, <1>6, <1>7, PoolBlockServes DEF Operations
<1>9. calls' \in 0..MaxCalls
  BY <1>2 DEF AllocInv, Typed
<1>10. b.bucket = o.index /\ Found(t, o, b, FALSE)
  BY <1>1, <1>6
<1>11. QED
  BY <1>1, <1>2, <1>3, <1>4, <1>5, <1>7, <1>8, <1>9, <1>10, FoundKeeps

(* A block that a call has found is in none of the places, and the call may *)
(* still replace the old one by it.                                         *)
LEMMA InHand ==
  ASSUME AllocInv, NEW t \in Threads, pc[t] \in {"served", "hit"}, UNCHANGED places
  PROVE  \E o \in Operations, r \in Blocks :
           /\ o = op[t] /\ r = o.new /\ r # Null /\ Replaces(t, o)
           /\ r \in PoolBlocks /\ r.bucket = o.index
           /\ r \notin DOMAIN live /\ \A u \in Threads : u # t => op[u].new # r
           /\ free' = free \ {r} /\ unused' = unused \ {r}
           /\ cached' = [u \in Threads |-> cached[u] \ {r}]
           /\ header' \in [GenericBlocks -> [size : Nat, user : Nat, end : Nat]]
           /\ \A g \in GenericBlocks : header'[g] = header[g]
           /\ Serves(r, o.bytes, o.align)'
<1>1. PICK o \in Operations : o = op[t]
  BY DEF AllocInv, Typed
<1>2. /\ o.new # Null /\ o.new \in PoolBlocks /\ o.new.bucket = o.index
      /\ Serves(o.new, o.bytes, o.align)
  BY <1>1 DEF AllocInv, Working
<1>3. PICK r \in Blocks : r = o.new
  BY <1>2, BlockFacts
<1>4. Replaces(t, o)
  BY <1>1, <1>2 DEF AllocInv, Working, Replaces, OneCallEach
<1>5. /\ r \notin DOMAIN live /\ r \notin free /\ r \notin unused
      /\ \A u \in Threads : r \notin cached[u]
      /\ \A u \in Threads : u # t => op[u].new # r
  BY <1>1, <1>2, <1>3 DEF AllocInv, Placed
<1>6. UNCHANGED <<free, cached, unused, header>>
  BY DEF places
<1>7. /\ free' = free \ {r} /\ unused' = unused \ {r}
      /\ cached' = [u \in Threads |-> cached[u] \ {r}]
  BY <1>5, <1>6 DEF AllocInv, Typed
<1>8. /\ header' \in [GenericBlocks -> [size : Nat, user : Nat, end : Nat]]
      /\ \A g \in GenericBlocks : header'[g] = header[g]
  BY <1>6 DEF AllocInv, Typed
<1>9. Serves(r, o.bytes, o.align)'
  BY <1>2, <1>3, <1>6, ServesKept
<1>10. QED
  BY <1>1, <1>2, <1>3, <1>4, <1>5, <1>7, <1>8, <1>9

LEMMA CountServedKeeps ==
  ASSUME AllocInv, NEW t \in Threads, CountServed(t)
  PROVE  AllocInv'
<1>1. /\ pc[t] = "served" /\ pc' = [pc EXCEPT ![t] = "hit"]
      /\ UNCHANGED <<places, mem, live, op, calls>>
  BY DEF CountServed
<1>2. PICK o \in Operations, r \in Blocks :
           /\ o = op[t] /\ r = o.new /\ r # Null /\ Replaces(t, o)
           /\ r \in PoolBlocks /\ r.bucket = o.index
           /\ r \notin DOMAIN live /\ \A u \in Threads : u # t => op[u].new # r
           /\ free' = free \ {r} /\ unused' = unused \ {r}
           /\ cached' = [u \in Threads |-> cached[u] \ {r}]
           /\ header' \in [GenericBlocks -> [size : Nat, user : Nat, end : Nat]]
           /\ \A g \in GenericBlocks : header'[g] = header[g]
           /\ Serves(r, o.bytes, o.align)'
  BY <1>1, InHand
<1>3. pc'[t] = "hit" /\ op'[t] = o
  BY <1>1, <1>2 DEF AllocInv, Typed
<1>4. op' = [op EXCEPT ![t] = o]
  BY <1>1, <1>2 DEF AllocInv, Typed
<1>5. Working(t)'
  BY <1>1, <1>2, <1>3 DEF Working, Replaces
<1>6. o.old # Null => \A u \in Threads : u # t => op[u].old # o.old
  BY <1>2 DEF Replaces
<1>7. PICK s \in Stages : s = "hit"
  BY DEF Stages
<1>8. pc' = [pc EXCEPT ![t] = s] /\ calls' \in 0..MaxCalls
  BY <1>1, <1>7 DEF AllocInv, Typed
<1>9. op[t].new \in {Null, r} /\ UNCHANGED <<mem, live>>
  BY <1>1, <1>2
<1>10. QED
  BY <1>2, <1>4, <1>5, <1>6, <1>8, <1>9, TakesBlock

LEMMA CountHitKeeps ==
  ASSUME AllocInv, NEW t \in Threads, CountHit(t)
  PROVE  AllocInv'
<1>1. pc[t] = "hit" /\ UNCHANGED <<places, calls>> /\ Deliver(t, op[t], op[t].new)
  BY DEF CountHit
<1>2. PICK o \in Operations, r \in Blocks :
           /\ o = op[t] /\ r = o.new /\ r # Null /\ Replaces(t, o)
           /\ r \in PoolBlocks /\ r.bucket = o.index
           /\ r \notin DOMAIN live /\ \A u \in Threads : u # t => op[u].new # r
           /\ free' = free \ {r} /\ unused' = unused \ {r}
           /\ cached' = [u \in Threads |-> cached[u] \ {r}]
           /\ header' \in [GenericBlocks -> [size : Nat, user : Nat, end : Nat]]
           /\ \A g \in GenericBlocks : header'[g] = header[g]
           /\ Serves(r, o.bytes, o.align)'
  BY <1>1, InHand
<1>3. Deliver(t, o, r) /\ op[t].new \in {Null, r} /\ calls' \in 0..MaxCalls
  BY <1>1, <1>2 DEF AllocInv, Typed
<1>4. QED
  BY <1>1, <1>2, <1>3, DeliverBlock

LEMMA RouteKeeps ==
  ASSUME AllocInv, NEW t \in Threads, Route(t)
  PROVE  AllocInv'
<1>1. /\ pc[t] = "buckets" /\ pc' = [pc EXCEPT ![t] = "routed"]
      /\ UNCHANGED <<places, mem, live, op, calls>>
  BY DEF Route
<1>2. PICK o \in Operations : o = op[t]
  BY DEF AllocInv, Typed
<1>3. pc'[t] = "routed" /\ op'[t] = o /\ op' = [op EXCEPT ![t] = o] /\ calls' \in 0..MaxCalls
  BY <1>1, <1>2 DEF AllocInv, Typed
<1>4. op[t].new = Null /\ o.new = Null
  BY <1>1, <1>2 DEF AllocInv, Working
<1>5. Working(t)'
  BY <1>1, <1>2, <1>3, <1>4 DEF AllocInv, Working
<1>6. o.old # Null => \A u \in Threads : u # t => op[u].old # o.old
  BY <1>2 DEF AllocInv, OneCallEach
<1>7. QED
  BY <1>1, <1>3, <1>4, <1>5, <1>6, OnlyTheThread DEF Stages

LEMMA CountRoutedKeeps ==
  ASSUME AllocInv, NEW t \in Threads, CountRouted(t)
  PROVE  AllocInv'
<1>1. /\ pc[t] = "routed" /\ pc' = [pc EXCEPT ![t] = "generic"]
      /\ UNCHANGED <<places, mem, live, op, calls>>
  BY DEF CountRouted
<1>2. PICK o \in Operations : o = op[t]
  BY DEF AllocInv, Typed
<1>3. pc'[t] = "generic" /\ op'[t] = o /\ op' = [op EXCEPT ![t] = o] /\ calls' \in 0..MaxCalls
  BY <1>1, <1>2 DEF AllocInv, Typed
<1>4. op[t].new = Null /\ o.new = Null
  BY <1>1, <1>2 DEF AllocInv, Working
<1>5. Working(t)'
  BY <1>1, <1>2, <1>3, <1>4 DEF AllocInv, Working
<1>6. o.old # Null => \A u \in Threads : u # t => op[u].old # o.old
  BY <1>2 DEF AllocInv, OneCallEach
<1>7. QED
  BY <1>1, <1>3, <1>4, <1>5, <1>6, OnlyTheThread DEF Stages

LEMMA FallbackKeeps ==
  ASSUME AllocInv, NEW t \in Threads, Fallback(t)
  PROVE  AllocInv'
<1>1. pc[t] = "generic" /\ UNCHANGED <<free, cached, calls>> /\ GenericAlloc(t, op[t])
  BY DEF Fallback
<1>2. PICK o \in Operations : o = op[t]
  BY DEF AllocInv, Typed
<1>3. Replaces(t, o) /\ calls' \in 0..MaxCalls
  BY <1>1, <1>2 DEF AllocInv, Typed, Working, Replaces, OneCallEach
<1>4. GenericAlloc(t, o)
  BY <1>1, <1>2
<1>5. QED
  BY <1>1, <1>2, <1>3, <1>4, GenericAllocKeeps

LEMMA BucketMissKeeps ==
  ASSUME AllocInv, NEW t \in Threads, BucketMiss(t)
  PROVE  AllocInv'
<1> DEFINE j == NextBucket(op[t].index, op[t].align)
           o == [op[t] EXCEPT !.index = j]
<1>1. /\ pc[t] = "buckets" /\ op[t].index < op[t].max
      /\ op' = [op EXCEPT ![t].index = j]
      /\ UNCHANGED <<places, mem, live, pc, calls>>
  BY DEF BucketMiss
<1>2. op[t] \in Operations /\ op[t].index \in Nat /\ op[t].align \in PowersOfTwo /\ op[t].bytes \in Nat
  BY DEF AllocInv, Typed, Operations
<1>3. ElementSize(op[t].index) >= op[t].bytes /\ IsAligned(ElementSize(op[t].index), op[t].align)
      /\ op[t].new = Null
  BY <1>1 DEF AllocInv, Working
<1>4. j \in Nat /\ ElementSize(j) >= ElementSize(op[t].index) /\ IsAligned(ElementSize(j), op[t].align)
  BY <1>2, <1>3, NextBucketFits
<1>5. ElementSize(j) >= op[t].bytes
  <2>1. ElementSize(j) \in Nat /\ ElementSize(op[t].index) \in Nat
    BY <1>2, <1>4, SizeFacts
  <2>2. QED
    BY <1>2, <1>3, <1>4, <2>1
<1> HIDE DEF j
<1>6. /\ o \in Operations /\ o.old = op[t].old /\ o.was = op[t].was /\ o.new = op[t].new
      /\ o.bytes = op[t].bytes /\ o.align = op[t].align /\ o.index = j /\ o.max = op[t].max
  BY <1>2, <1>4 DEF Operations
<1>7. op' = [op EXCEPT ![t] = o] /\ pc' = [pc EXCEPT ![t] = "buckets"]
  BY <1>1 DEF AllocInv, Typed
<1>8. op'[t] = o /\ pc'[t] = "buckets"
  BY <1>7 DEF AllocInv, Typed
<1> HIDE DEF o
<1>9. Working(t)'
  BY <1>1, <1>3, <1>4, <1>5, <1>6, <1>8 DEF AllocInv, Working
<1>10. o.old # Null => \A u \in Threads : u # t => op[u].old # o.old
  BY <1>6 DEF AllocInv, OneCallEach
<1>11. calls' \in 0..MaxCalls
  BY <1>1 DEF AllocInv, Typed
<1>12. QED
  BY <1>1, <1>3, <1>6, <1>7, <1>9, <1>10, <1>11, OnlyTheThread DEF Stages
-----------------------------------------------------------------------------
(* A step that changes only what the program knows of its pointers. *)
LEMMA OnlyThePointers ==
  ASSUME AllocInv, UNCHANGED <<places, mem, pc, op>>, calls' \in 0..MaxCalls,
         DOMAIN live' \subseteq Blocks \union {Unreadable(a) : a \in Alignments},
         live' \in [DOMAIN live' -> Entries],
         \A b \in Blocks : b \in DOMAIN live' <=> b \in DOMAIN live,
         \A u \in Threads : op[u].old # Null => live'[op[u].old] = live[op[u].old],
         \A p \in DOMAIN live' : Sound(p)'
  PROVE  AllocInv'
<1>1. UNCHANGED <<mem, pc, op, free, cached, unused, header>>
  BY DEF places
<1>2. \A u \in Threads : op[u].new \in Blocks \union {Null} /\ op[u].old \in Blocks \union {Null}
  BY DEF AllocInv, Typed, Operations
<1>3. Typed'
  BY <1>1 DEF AllocInv, Typed
<1>4. Placed'
  <2>1. \A b \in Blocks : Somewhere(b)'
    BY <1>1 DEF AllocInv, Placed, Somewhere
  <2>2. \A b \in free \union unused : b \in Blocks
    BY BlockFacts DEF AllocInv, Typed
  <2>3. \A u \in Threads : \A b \in cached[u] : b \in Blocks
    BY BlockFacts DEF AllocInv, Typed
  <2>4. Null \notin DOMAIN live'
    BY BlockFacts
  <2>5. QED
    BY <1>1, <1>2, <2>1, <2>2, <2>3, <2>4 DEF AllocInv, Placed
<1>5. OneCallEach'
  BY <1>1 DEF AllocInv, OneCallEach
<1>6. ASSUME NEW u \in Threads PROVE Working(u)'
  <2>1. op[u].old # Null => op[u].old \in DOMAIN live' /\ live'[op[u].old] = live[op[u].old]
    BY <1>2 DEF AllocInv, Working
  <2>2. QED
    BY <1>1, <2>1, OthersKeep DEF AllocInv
<1>7. QED
  BY <1>3, <1>4, <1>5, <1>6 DEF AllocInv

LEMMA CallCounted ==
  ASSUME Typed, NEW t \in Threads, Call(t)
  PROVE  pc[t] = "idle" /\ calls' \in 0..MaxCalls
BY AllocatorConstants DEF Typed, Call

LEMMA AllocZeroKeeps ==
  ASSUME AllocInv, NEW t \in Threads, NEW a \in Alignments, AllocZero(t, a)
  PROVE  AllocInv'
<1> DEFINE z == Unreadable(a)
           entry == Filled([NoOp EXCEPT !.align = a])
<1>1. calls' \in 0..MaxCalls /\ UNCHANGED <<places, mem, pc, op>> /\ live' = With(z, entry)
  BY CallCounted DEF AllocZero, AllocInv
<1>2. z \notin Blocks /\ ~IsReadable(z) /\ z # Null
  BY BlockFacts
<1>3. entry \in Entries /\ entry.len <= entry.bytes
  <2>1. a \in PowersOfTwo
    BY AllocatorConstants DEF PowersOfTwo
  <2>2. entry = [bytes |-> 0, align |-> a, asked |-> a, data |-> "garbage", len |-> 0]
    BY DEF Filled, NoOp, Garbage
  <2>3. QED
    BY <2>1, <2>2 DEF Entries
<1> HIDE DEF entry
<1>4. /\ DOMAIN live' = DOMAIN live \union {z} /\ live'[z] = entry
      /\ \A p \in DOMAIN live : p # z => live'[p] = live[p]
  BY <1>1 DEF With
<1>5. live' \in [DOMAIN live' -> Entries]
  BY <1>1, <1>3, <1>4 DEF With, AllocInv, Typed
<1>6. DOMAIN live' \subseteq Blocks \union {Unreadable(x) : x \in Alignments}
  BY <1>4 DEF AllocInv, Typed
<1>7. \A u \in Threads : op[u].old # Null => live'[op[u].old] = live[op[u].old]
  BY <1>2, <1>4 DEF AllocInv, Typed, Operations, Working
<1>8. ASSUME NEW p \in DOMAIN live' PROVE Sound(p)'
  <2>1. CASE p = z
    BY <1>2, <1>3, <1>4, <2>1 DEF Sound
  <2>2. CASE p # z
    <3>1. p \in DOMAIN live /\ live'[p] = live[p] /\ mem' = mem /\ header' = header
      BY <1>1, <1>4, <2>2 DEF places
    <3>2. QED
      BY <3>1, SoundKept DEF AllocInv
  <2>3. QED
    BY <2>1, <2>2
<1>9. QED
  BY <1>1, <1>2, <1>4, <1>5, <1>6, <1>7, <1>8, OnlyThePointers

LEMMA FreeUnreadableKeeps ==
  ASSUME AllocInv, NEW t \in Threads, NEW p \in DOMAIN live, FreeUnreadable(t, p)
  PROVE  AllocInv'
<1>1. /\ calls' \in 0..MaxCalls /\ UNCHANGED <<places, mem, pc, op>> /\ ~IsReadable(p)
      /\ live' = [q \in DOMAIN live \ {p} |-> live[q]]
      /\ \A u \in Threads : op[u].old # p
  BY CallCounted DEF FreeUnreadable, AllocInv, Held
<1>2. p \notin Blocks
  BY <1>1, BlockFacts
<1>3. DOMAIN live' = DOMAIN live \ {p} /\ \A q \in DOMAIN live' : live'[q] = live[q]
  BY <1>1
<1>4. live' \in [DOMAIN live' -> Entries]
  BY <1>1 DEF AllocInv, Typed
<1>5. DOMAIN live' \subseteq Blocks \union {Unreadable(x) : x \in Alignments}
  BY <1>3 DEF AllocInv, Typed
<1>6. \A u \in Threads : op[u].old # Null => live'[op[u].old] = live[op[u].old]
  BY <1>1, <1>3 DEF AllocInv, Working
<1>7. ASSUME NEW q \in DOMAIN live' PROVE Sound(q)'
  <2>1. q \in DOMAIN live /\ live'[q] = live[q] /\ mem' = mem /\ header' = header
    BY <1>1, <1>3 DEF places
  <2>2. QED
    BY <2>1, SoundKept DEF AllocInv
<1>8. QED
  BY <1>1, <1>2, <1>3, <1>4, <1>5, <1>6, <1>7, OnlyThePointers

LEMMA ReallocReuseKeeps ==
  ASSUME AllocInv, NEW t \in Threads, NEW p \in DOMAIN live, NEW bytes \in Sizes,
         NEW a \in Alignments, ReallocReuse(t, p, bytes, a)
  PROVE  AllocInv'
<1> DEFINE e == live[p]
           f == [e EXCEPT !.bytes = bytes, !.asked = a, !.len = Lesser(e.len, bytes)]
<1>1. /\ calls' \in 0..MaxCalls /\ UNCHANGED <<places, mem, pc, op>>
      /\ InPool(p) /\ bytes > 0 /\ bytes <= ElementSize(p.bucket)
      /\ live' = [live EXCEPT ![p].bytes = bytes, ![p].asked = a, ![p].len = Lesser(@, bytes)]
      /\ \A u \in Threads : op[u].old # p
  BY CallCounted DEF ReallocReuse, AllocInv, Held, Fits
<1>2. bytes \in Nat /\ a \in PowersOfTwo
  <2>1. a \in PowersOfTwo
    BY AllocatorConstants DEF PowersOfTwo
  <2>2. bytes \in Nat
    BY AllocatorConstants
  <2>3. QED
    BY <2>1, <2>2
<1>3. e \in Entries /\ e.len \in Nat /\ e.bytes \in Nat
  BY DEF AllocInv, Typed, Entries
<1>4. f \in Entries /\ f.bytes = bytes /\ f.align = e.align /\ f.data = e.data
      /\ f.len <= bytes /\ f.len <= e.len
  <2>1. PICK n \in Nat : n = Lesser(e.len, bytes) /\ n <= bytes /\ n <= e.len
    BY <1>2, <1>3 DEF Lesser
  <2>2. f = [e EXCEPT !.bytes = bytes, !.asked = a, !.len = n]
    BY <2>1
  <2>3. [e EXCEPT !.bytes = bytes, !.asked = a, !.len = n] \in Entries
    BY <1>2, <1>3 DEF Entries
  <2>4. f.bytes = bytes /\ f.align = e.align /\ f.data = e.data /\ f.len = n
    BY <1>3, <2>2 DEF Entries
  <2>5. QED
    BY <2>1, <2>2, <2>3, <2>4
<1>5. live' = [live EXCEPT ![p] = f]
  BY <1>1
<1> HIDE DEF f
<1>6. DOMAIN live' = DOMAIN live /\ live'[p] = f /\ \A q \in DOMAIN live : q # p => live'[q] = live[q]
  BY <1>5 DEF AllocInv, Typed
<1>7. live' \in [DOMAIN live' -> Entries]
  BY <1>4, <1>5 DEF AllocInv, Typed
<1>8. \A u \in Threads : op[u].old # Null => live'[op[u].old] = live[op[u].old]
  BY <1>1, <1>6 DEF AllocInv, Working
<1>9. ASSUME NEW q \in DOMAIN live' PROVE Sound(q)'
  <2>1. mem' = mem /\ header' = header
    BY <1>1 DEF places
  <2>2. CASE q = p
    <3>1. CASE p \in Blocks
      <4>1. IsReadable(p) /\ p \in PoolBlocks /\ Sound(p)
        BY <1>1, <3>1, BlockFacts DEF AllocInv
      <4>2. Serves(p, e.bytes, e.align)
        BY <4>1 DEF Sound
      <4>3. /\ mem[p].data = e.data /\ mem[p].len >= e.len /\ mem[p].len \in Nat
        BY <3>1, <4>1 DEF Sound, AllocInv, Typed
      <4>4. IsAligned(Address(p), e.align)
        BY <4>2 DEF Serves
      <4>5. PICK al : al = e.align
        OBVIOUS
      <4>6. Serves(p, bytes, al)'
        BY <1>1, <4>1, <4>4, <4>5 DEF Serves, UsableSize, Address
      <4>7. f.len \in Nat
        BY <1>4 DEF Entries
      <4>8. QED
        BY <1>3, <1>4, <1>6, <2>1, <2>2, <4>3, <4>5, <4>6, <4>7 DEF Sound
    <3>2. CASE p \notin Blocks
      <4>1. ~IsReadable(p)
        BY <3>2, BlockFacts DEF AllocInv, Typed
      <4>2. QED
        BY <1>1, <4>1 DEF IsReadable, InPool
    <3>3. QED
      BY <3>1, <3>2
  <2>3. CASE q # p
    BY <1>6, <2>1, <2>3, SoundKept DEF AllocInv
  <2>4. QED
    BY <2>2, <2>3
<1>10. QED
  <2>1. DOMAIN live' \subseteq Blocks \union {Unreadable(x) : x \in Alignments}
    BY <1>6 DEF AllocInv, Typed
  <2>2. QED
    BY <1>1, <1>6, <1>7, <1>8, <1>9, <2>1, OnlyThePointers

LEMMA FreeKeeps ==
  ASSUME AllocInv, NEW t \in Threads, NEW p \in DOMAIN live, Free(t, p)
  PROVE  AllocInv'
<1> DEFINE o == [NoOp EXCEPT !.old = p]
<1>1. /\ pc[t] = "idle" /\ calls' \in 0..MaxCalls /\ UNCHANGED <<places, mem, live>> /\ IsReadable(p)
      /\ pc' = [pc EXCEPT ![t] = "release"]
      /\ op' = [op EXCEPT ![t] = o]
      /\ \A u \in Threads : op[u].old # p
  BY CallCounted DEF Free, AllocInv, Held
<1>2. p \in Blocks /\ p # Null
  BY <1>1, BlockFacts DEF AllocInv, Typed
<1>3. o \in Operations /\ o.old = p /\ o.new = Null
  BY <1>2, NoOpFacts DEF Operations
<1> HIDE DEF o
<1>4. op'[t] = o /\ pc'[t] = "release"
  BY <1>1 DEF AllocInv, Typed
<1>5. Working(t)'
  BY <1>1, <1>2, <1>3, <1>4 DEF Working
<1>6. op[t].new = Null
  BY <1>1 DEF AllocInv, Working
<1>7. QED
  BY <1>1, <1>3, <1>5, <1>6, OnlyTheThread DEF Stages
-----------------------------------------------------------------------------
(* memmove() copies all that the program may expect, from inside the old    *)
(* block to inside the new one.                                             *)
LEMMA CopyFits ==
  ASSUME AllocInv, NEW t \in Threads, pc[t] = "move"
  PROVE  /\ CopyCount(op[t]) \in Nat
         /\ CopyCount(op[t]) >= Lesser(op[t].was.len, op[t].bytes)
         /\ CopyCount(op[t]) <= UsableSize(op[t].old)
         /\ CopyCount(op[t]) <= UsableSize(op[t].new)
         /\ op[t].was.len \in Nat /\ op[t].bytes \in Nat
<1> DEFINE o == op[t]
<1>1. /\ o.old \in DOMAIN live /\ o.was = live[o.old] /\ o.old # Null
      /\ InPool(o.old) => ElementSize(o.old.bucket) < o.bytes
      /\ Serves(o.new, o.bytes, o.align)
  BY DEF AllocInv, Working
<1>2. o.old \in Blocks /\ o.bytes \in Nat /\ o.new \in Blocks \union {Null}
  BY <1>1 DEF AllocInv, Typed, Operations
<1>3. o.was \in Entries /\ o.was.len \in Nat /\ o.was.bytes \in Nat
  BY <1>1 DEF AllocInv, Typed, Entries
<1>4. IsReadable(o.old) /\ Sound(o.old)
  BY <1>1, <1>2, BlockFacts DEF AllocInv
<1>5. UsableSize(o.old) >= o.was.bytes /\ o.was.len <= o.was.bytes
  BY <1>1, <1>4 DEF Sound, Serves
<1>6. UsableSize(o.new) >= o.bytes /\ UsableSize(o.new) \in Nat
  <2>1. UsableSize(o.new) >= o.bytes
    BY <1>1 DEF Serves
  <2>2. o.new \in Blocks
    BY <1>2 DEF AllocInv, Working
  <2>3. CASE o.new \in PoolBlocks
    BY <2>1, <2>2, <2>3, BlockFacts, SizeFacts DEF UsableSize
  <2>4. CASE o.new \in GenericBlocks
    <3>1. ~InPool(o.new) /\ IsReadable(o.new)
      BY <2>2, <2>4, BlockFacts
    <3>2. QED
      BY <2>1, <2>4, <3>1 DEF UsableSize, AllocInv, Typed
  <2>5. QED
    BY <2>1, <2>2, <2>3, <2>4 DEF Blocks
<1>7. CASE InPool(o.old)
  <2>1. CopyCount(o) = ElementSize(o.old.bucket) /\ UsableSize(o.old) = ElementSize(o.old.bucket)
    BY <1>4, <1>7 DEF CopyCount, UsableSize
  <2>2. ElementSize(o.old.bucket) \in Nat
    BY <1>2, <1>7, BlockFacts, SizeFacts
  <2>3. QED
    BY <1>1, <1>2, <1>3, <1>5, <1>6, <1>7, <2>1, <2>2 DEF Lesser
<1>8. CASE ~InPool(o.old)
  <2>1. CopyCount(o) = Lesser(header[o.old].size, o.bytes) /\ UsableSize(o.old) = header[o.old].size
    BY <1>4, <1>8 DEF CopyCount, UsableSize
  <2>2. header[o.old].size \in Nat
    BY <1>2, <1>8, BlockFacts DEF AllocInv, Typed
  <2>3. QED
    BY <1>2, <1>3, <1>5, <1>6, <2>1, <2>2 DEF Lesser
<1>9. QED
  BY <1>7, <1>8

LEMMA MoveKeeps ==
  ASSUME AllocInv, NEW t \in Threads, Move(t)
  PROVE  AllocInv'
<1>1. /\ pc[t] = "move"
      /\ mem' = [mem EXCEPT ![op[t].new] = [mem[op[t].old] EXCEPT !.len = Lesser(@, CopyCount(op[t]))]]
      /\ pc' = [pc EXCEPT ![t] = "release"]
      /\ UNCHANGED <<free, cached, unused, header, live, op, calls>>
  BY DEF Move, places
<1>2. PICK o \in Operations : o = op[t]
  BY DEF AllocInv, Typed
<1>3. /\ o.old # Null /\ o.new # Null /\ o.old \in DOMAIN live /\ o.was = live[o.old]
      /\ Serves(o.new, o.bytes, o.align)
  BY <1>1, <1>2 DEF AllocInv, Working
<1>4. o.old \in Blocks /\ o.new \in Blocks
  BY <1>3 DEF Operations
<1>5. o.new \notin DOMAIN live /\ \A u \in Threads : u # t => op[u].new # o.new
  BY <1>2, <1>3 DEF AllocInv, Placed
<1>6. PICK c \in Nat : c = CopyCount(o) /\ c >= Lesser(o.was.len, o.bytes)
                       /\ o.was.len \in Nat /\ o.bytes \in Nat
  BY <1>1, <1>2, CopyFits
<1>7. /\ mem[o.old] \in [data : Threads \union {"garbage"}, len : Nat]
      /\ mem[o.old].data = o.was.data /\ mem[o.old].len >= o.was.len /\ mem[o.old].len \in Nat
  BY <1>3, <1>4, BlockFacts DEF AllocInv, Sound, Typed
<1>8. PICK n \in Nat : n = Lesser(mem[o.old].len, c) /\ n >= Lesser(o.was.len, o.bytes)
  BY <1>6, <1>7 DEF Lesser
<1>9. mem' = [mem EXCEPT ![o.new] = [mem[o.old] EXCEPT !.len = n]]
  BY <1>1, <1>2, <1>6, <1>8
<1>10. /\ mem' \in [Blocks -> [data : Threads \union {"garbage"}, len : Nat]]
       /\ mem'[o.new].data = o.was.data /\ mem'[o.new].len = n
       /\ \A b \in Blocks : b # o.new => mem'[b] = mem[b]
  BY <1>4, <1>7, <1>9 DEF AllocInv, Typed
<1>11. Typed'
  BY <1>1, <1>10 DEF AllocInv, Typed, Stages
<1>12. Placed'
  <2>1. \A b \in Blocks : Somewhere(b)'
    BY <1>1 DEF AllocInv, Placed, Somewhere
  <2>2. QED
    BY <1>1, <2>1 DEF AllocInv, Placed
<1>13. OneCallEach'
  BY <1>1 DEF AllocInv, OneCallEach
<1>14. ASSUME NEW u \in Threads PROVE Working(u)'
  <2>1. CASE u = t
    <3>1. pc'[t] = "release" /\ op'[t] = o
      BY <1>1, <1>2 DEF AllocInv, Typed
    <3>2. Serves(o.new, o.bytes, o.align)'
      BY <1>1, <1>3, <1>4, ServesKept
    <3>3. mem'[o.new].len >= Lesser(o.was.len, o.bytes)
      BY <1>8, <1>10
    <3>4. QED
      BY <1>1, <1>3, <1>10, <2>1, <3>1, <3>2, <3>3 DEF Working
  <2>2. CASE u # t
    <3>1. op'[u] = op[u] /\ pc'[u] = pc[u]
      BY <1>1, <2>2 DEF AllocInv, Typed
    <3>2. op[u].new \in Blocks \union {Null}
      BY DEF AllocInv, Typed, Operations
    <3>3. op[u].old # Null => op[u].old \in DOMAIN live' /\ live'[op[u].old] = live[op[u].old]
      BY <1>1 DEF AllocInv, Working
    <3>4. op[u].new # Null => mem'[op[u].new] = mem[op[u].new] /\ header' = header
      BY <1>1, <1>5, <1>10, <2>2, <3>2
    <3>5. QED
      BY <3>1, <3>3, <3>4, OthersKeep DEF AllocInv
  <2>3. QED
    BY <2>1, <2>2
<1>15. ASSUME NEW p \in DOMAIN live' PROVE Sound(p)'
  <2>1. p \in DOMAIN live /\ live'[p] = live[p] /\ p # o.new /\ header' = header
    BY <1>1, <1>5
  <2>2. QED
    BY <1>10, <2>1, SoundKept DEF AllocInv
<1>16. QED
  BY <1>11, <1>12, <1>13, <1>14, <1>15 DEF AllocInv

(* A call ends and its old block has gone to one place, which the caller of *)
(* this lemma names.                                                        *)
InPlace(b) == b \in free \/ b \in unused \/ \E u \in Threads : b \in cached[u]

LEMMA ReleasedKeeps ==
  ASSUME AllocInv, NEW t \in Threads, pc[t] = "release", Released(t), header' = header,
         free' \in SUBSET PoolBlocks, unused' \in SUBSET GenericBlocks,
         cached' \in [Threads -> SUBSET PoolBlocks],
         \A b \in Blocks : InPlace(b)' <=> InPlace(b) \/ b = op[t].old,
         \A u \in Threads : cached'[u] \intersect free' = {},
         \A u, v \in Threads : u # v => cached'[u] \intersect cached'[v] = {}
  PROVE  AllocInv'
<1>1. PICK o \in Operations : o = op[t]
  BY DEF AllocInv, Typed
<1>2. o.old # Null /\ o.old \in DOMAIN live /\ o.old \in Blocks
  BY <1>1 DEF AllocInv, Working, Operations
<1>3. o.new \in Blocks \union {Null} /\ o.new # o.old /\ o.new \notin DOMAIN live /\ Null \notin Blocks
  BY <1>1, <1>2, BlockFacts DEF AllocInv, Placed, Operations
<1>4. /\ live' = [q \in (DOMAIN live \ {o.old}) \union ({o.new} \ {Null}) |->
                    IF q = o.new THEN Moved(o) ELSE live[q]]
      /\ mem' = [mem EXCEPT ![o.old] = Garbage]
      /\ pc' = [pc EXCEPT ![t] = "idle"] /\ op' = [op EXCEPT ![t] = NoOp]
      /\ calls' = calls
  BY <1>1 DEF Released, Idle
<1>5. /\ pc'[t] = "idle" /\ op'[t] = NoOp
      /\ \A u \in Threads : u # t => pc'[u] = pc[u] /\ op'[u] = op[u]
  BY <1>4 DEF AllocInv, Typed
<1>6. /\ DOMAIN live' = (DOMAIN live \ {o.old}) \union ({o.new} \ {Null})
      /\ \A q \in DOMAIN live : q # o.old => live'[q] = live[q]
      /\ o.new # Null => live'[o.new] = Moved(o)
  BY <1>3, <1>4
<1>7. \A b \in Blocks : b # o.old => mem'[b] = mem[b]
  BY <1>4 DEF AllocInv, Typed
<1>8. o.new # Null => /\ o.was \in Entries /\ Serves(o.new, o.bytes, o.align)
                      /\ mem[o.new].data = o.was.data
                      /\ mem[o.new].len >= Lesser(o.was.len, o.bytes)
  BY <1>1, <1>2 DEF AllocInv, Typed, Working
<1>9. o.new # Null => /\ Moved(o) \in Entries
                      /\ Moved(o).bytes = o.bytes /\ Moved(o).align = o.align
                      /\ Moved(o).data = o.was.data
                      /\ Moved(o).len = Lesser(o.was.len, o.bytes) /\ Moved(o).len <= o.bytes
  BY <1>8 DEF Moved, Entries, Lesser, Operations
<1>10. Typed'
  <2>1. mem' \in [Blocks -> [data : Threads \union {"garbage"}, len : Nat]]
    BY <1>4 DEF AllocInv, Typed, Garbage
  <2>2. DOMAIN live' \subseteq Blocks \union {Unreadable(a) : a \in Alignments}
    BY <1>3, <1>6 DEF AllocInv, Typed
  <2>3. live' \in [DOMAIN live' -> Entries]
    BY <1>4, <1>6, <1>9 DEF AllocInv, Typed
  <2>4. /\ pc' \in [Threads -> Stages]
        /\ op' \in [Threads -> Operations]
    BY <1>4, NoOpFacts DEF AllocInv, Typed, Stages
  <2>5. QED
    BY <1>4, <2>1, <2>2, <2>3, <2>4 DEF AllocInv, Typed
<1>11. Placed'
  <2>1. op'[t].new = Null /\ \A u \in Threads : u # t => op'[u].new = op[u].new
    BY <1>5, NoOpFacts
  <2>2. \A b \in Blocks : InPlace(b) => b \notin DOMAIN live /\ \A u \in Threads : op[u].new # b
    BY DEF AllocInv, Placed, InPlace
  <2>3. \A u \in Threads : op[u].new \in Blocks \union {Null} /\ op[u].new \notin DOMAIN live
    BY DEF AllocInv, Typed, Operations, Placed
  <2>4. \A u \in Threads : u # t /\ op[u].new = o.new => o.new = Null
    BY <1>1 DEF AllocInv, Placed
  <2>5. \A b \in Blocks : Somewhere(b) <=> InPlace(b) \/ b \in DOMAIN live \/ \E u \in Threads : b = op[u].new
    BY DEF Somewhere, InPlace
  <2>6. \A b \in Blocks : InPlace(b)' \/ b \in DOMAIN live' \/ \E u \in Threads : b = op'[u].new
    BY <1>1, <1>3, <1>6, <2>1, <2>5 DEF AllocInv, Placed
  <2>7. \A b \in Blocks : Somewhere(b)'
    BY <2>6 DEF Somewhere, InPlace
  <2>8. \A b \in Blocks : InPlace(b)' => b \notin DOMAIN live' /\ \A u \in Threads : op'[u].new # b
    BY <1>1, <1>2, <1>3, <1>6, <2>1, <2>2, <2>3
  <2>9. \A u \in Threads : op'[u].new \in Blocks \union {Null} /\ op'[u].new \notin DOMAIN live'
    BY <1>3, <1>6, <2>1, <2>3, <2>4, BlockFacts DEF AllocInv, Typed
  <2>10. \A b \in free' \union unused' : b \in Blocks /\ InPlace(b)'
    BY BlockFacts DEF InPlace
  <2>11. \A u \in Threads : \A b \in cached'[u] : b \in Blocks /\ InPlace(b)'
    BY BlockFacts DEF InPlace
  <2>12. \A u, v \in Threads : u # v /\ op'[u].new = op'[v].new => op'[u].new = Null
    BY <2>1 DEF AllocInv, Placed
  <2>13. QED
    BY <2>7, <2>8, <2>9, <2>10, <2>11, <2>12 DEF Placed
<1>12. OneCallEach'
  BY <1>5, NoOpFacts DEF AllocInv, OneCallEach
<1>13. ASSUME NEW u \in Threads PROVE Working(u)'
  <2>1. CASE u = t
    BY <1>5, <2>1, IdleWorks
  <2>2. CASE u # t
    <3>1. op[u].old # Null => op[u].old \in DOMAIN live' /\ live'[op[u].old] = live[op[u].old]
      <4>1. op[u].old # Null => op[u].old \in DOMAIN live /\ op[u].old # o.old
        BY <1>1, <1>2, <2>2 DEF AllocInv, Working, OneCallEach
      <4>2. QED
        BY <1>6, <4>1
    <3>2. op[u].new # Null => mem'[op[u].new] = mem[op[u].new]
      <4>1. op[u].new # o.old /\ op[u].new \in Blocks \union {Null}
        BY <1>2 DEF AllocInv, Placed, Typed, Operations
      <4>2. QED
        BY <1>7, <4>1
    <3>3. QED
      BY <1>5, <2>2, <3>1, <3>2, OthersKeep DEF AllocInv
  <2>3. QED
    BY <2>1, <2>2
<1>14. ASSUME NEW p \in DOMAIN live' PROVE Sound(p)'
  <2>1. CASE p = o.new
    <3>1. o.new # Null /\ o.new \in Blocks
      BY <1>3, <1>6, <2>1 DEF AllocInv, Placed
    <3>2. Serves(o.new, o.bytes, o.align)'
      BY <1>8, <3>1, ServesKept
    <3>3. live'[o.new] = Moved(o) /\ mem'[o.new] = mem[o.new]
      BY <1>3, <1>6, <1>7, <3>1
    <3>4. QED
      BY <1>8, <1>9, <2>1, <3>1, <3>2, <3>3 DEF Sound
  <2>2. CASE p # o.new
    <3>1. p \in DOMAIN live /\ p # o.old /\ live'[p] = live[p]
      BY <1>3, <1>6, <2>2
    <3>2. QED
      BY <1>7, <3>1, SoundKept DEF AllocInv
  <2>3. QED
    BY <2>1, <2>2
<1>15. QED
  BY <1>10, <1>11, <1>12, <1>13, <1>14 DEF AllocInv

LEMMA OldIsNowhere ==
  ASSUME AllocInv, NEW t \in Threads, pc[t] = "release"
  PROVE  /\ op[t].old \in Blocks
         /\ op[t].old \notin free /\ op[t].old \notin unused
         /\ \A u \in Threads : op[t].old \notin cached[u]
BY DEF AllocInv, Placed, Working, Typed, Operations

LEMMA ReleaseToCacheKeeps ==
  ASSUME AllocInv, NEW t \in Threads, ReleaseToCache(t)
  PROVE  AllocInv'
<1>1. /\ pc[t] = "release" /\ InPool(op[t].old) /\ Released(t) /\ UNCHANGED <<unused, header>>
      /\ \E S \in SUBSET cached[t] :
           /\ free' = free \union S
           /\ cached' = [cached EXCEPT ![t] = (@ \ S) \union {op[t].old}]
  BY DEF ReleaseToCache
<1>2. PICK S \in SUBSET cached[t] :
           /\ free' = free \union S
           /\ cached' = [cached EXCEPT ![t] = (@ \ S) \union {op[t].old}]
  BY <1>1
<1>3. PICK b \in Blocks : b = op[t].old /\ b \in PoolBlocks
  BY <1>1, OldIsNowhere, BlockFacts
<1>4. b \notin free /\ b \notin unused /\ \A u \in Threads : b \notin cached[u]
  BY <1>1, <1>3, OldIsNowhere
<1>5. cached'[t] = (cached[t] \ S) \union {b} /\ \A u \in Threads : u # t => cached'[u] = cached[u]
  BY <1>2, <1>3 DEF AllocInv, Typed
<1>6. /\ free' \in SUBSET PoolBlocks /\ unused' \in SUBSET GenericBlocks
      /\ cached' \in [Threads -> SUBSET PoolBlocks]
  BY <1>1, <1>2, <1>3 DEF AllocInv, Typed
<1>7. \A u \in Threads : cached[u] \intersect free = {}
  BY DEF AllocInv, Placed
<1>8. \A u, v \in Threads : u # v => cached[u] \intersect cached[v] = {}
  BY DEF AllocInv, Placed
<1>9. \A u \in Threads : cached'[u] \intersect free' = {}
  BY <1>2, <1>4, <1>5, <1>7, <1>8
<1>10. \A u, v \in Threads : u # v => cached'[u] \intersect cached'[v] = {}
  BY <1>4, <1>5, <1>8
<1>11. \A c \in Blocks : InPlace(c)' <=> InPlace(c) \/ c = b
  BY <1>1, <1>2, <1>5 DEF InPlace
<1>12. QED
  BY <1>1, <1>3, <1>6, <1>9, <1>10, <1>11, ReleasedKeeps

LEMMA ReleaseToPoolKeeps ==
  ASSUME AllocInv, NEW t \in Threads, ReleaseToPool(t)
  PROVE  AllocInv'
<1>1. /\ pc[t] = "release" /\ InPool(op[t].old) /\ Released(t) /\ UNCHANGED <<cached, unused, header>>
      /\ free' = free \union {op[t].old}
  BY DEF ReleaseToPool
<1>2. PICK b \in Blocks : b = op[t].old /\ b \in PoolBlocks
  BY <1>1, OldIsNowhere, BlockFacts
<1>3. \A u \in Threads : b \notin cached[u]
  BY <1>1, <1>2, OldIsNowhere
<1>4. /\ free' \in SUBSET PoolBlocks /\ unused' \in SUBSET GenericBlocks
      /\ cached' \in [Threads -> SUBSET PoolBlocks]
  BY <1>1, <1>2 DEF AllocInv, Typed
<1>5. /\ \A u \in Threads : cached'[u] \intersect free' = {}
      /\ \A u, v \in Threads : u # v => cached'[u] \intersect cached'[v] = {}
  BY <1>1, <1>2, <1>3 DEF AllocInv, Placed
<1>6. \A c \in Blocks : InPlace(c)' <=> InPlace(c) \/ c = b
  BY <1>1, <1>2 DEF InPlace
<1>7. QED
  BY <1>1, <1>2, <1>4, <1>5, <1>6, ReleasedKeeps

LEMMA ReleaseToMallocKeeps ==
  ASSUME AllocInv, NEW t \in Threads, ReleaseToMalloc(t)
  PROVE  AllocInv'
<1>1. /\ pc[t] = "release" /\ ~InPool(op[t].old) /\ Released(t) /\ UNCHANGED <<free, cached, header>>
      /\ unused' = unused \union {op[t].old}
  BY DEF ReleaseToMalloc
<1>2. PICK b \in Blocks : b = op[t].old /\ b \in GenericBlocks
  BY <1>1, OldIsNowhere, BlockFacts
<1>3. /\ free' \in SUBSET PoolBlocks /\ unused' \in SUBSET GenericBlocks
      /\ cached' \in [Threads -> SUBSET PoolBlocks]
  BY <1>1, <1>2 DEF AllocInv, Typed
<1>4. /\ \A u \in Threads : cached'[u] \intersect free' = {}
      /\ \A u, v \in Threads : u # v => cached'[u] \intersect cached'[v] = {}
  BY <1>1 DEF AllocInv, Placed
<1>5. \A c \in Blocks : InPlace(c)' <=> InPlace(c) \/ c = b
  BY <1>1, <1>2 DEF InPlace
<1>6. QED
  BY <1>1, <1>2, <1>3, <1>4, <1>5, ReleasedKeeps

LEMMA AllocKeeps ==
  ASSUME WithinAssertion, AllocInv, NEW t \in Threads, NEW bytes \in Sizes, NEW a \in Alignments,
         Alloc(t, bytes, a)
  PROVE  AllocInv'
<1>1. pc[t] = "idle" /\ calls' \in 0..MaxCalls /\ Allocate(t, Request(t, Null, bytes, a))
  BY CallCounted DEF Alloc, AllocInv
<1>2. bytes \in Nat \ {0} /\ Typed
  BY AllocatorConstants DEF Alloc, AllocInv
<1>3. PICK o \in Operations :
        /\ o = Request(t, Null, bytes, a) /\ Ready(t, o)
        /\ ElementSize(o.index) >= o.bytes /\ IsAligned(ElementSize(o.index), o.align)
  BY <1>2, RequestReady
<1>4. QED
  BY <1>1, <1>3, AllocateKeeps

LEMMA ReallocMoveKeeps ==
  ASSUME WithinAssertion, AllocInv, NEW t \in Threads, NEW p \in DOMAIN live,
         NEW bytes \in Sizes, NEW a \in Alignments, ReallocMove(t, p, bytes, a)
  PROVE  AllocInv'
<1>1. /\ pc[t] = "idle" /\ calls' \in 0..MaxCalls /\ Held(p) /\ IsReadable(p)
      /\ InPool(p) => ~Fits(p, bytes)
      /\ Allocate(t, Request(t, p, bytes, a))
  BY CallCounted DEF ReallocMove, AllocInv
<1>2. bytes \in Nat \ {0} /\ Typed
  BY AllocatorConstants DEF ReallocMove, AllocInv
<1>3. p \in Blocks
  BY <1>1, BlockFacts DEF AllocInv, Typed
<1>4. InPool(p) => ElementSize(p.bucket) < bytes
  BY <1>1, <1>2, <1>3, BlockFacts, SizeFacts DEF Fits
<1>5. PICK o \in Operations :
        /\ o = Request(t, p, bytes, a) /\ Ready(t, o)
        /\ ElementSize(o.index) >= o.bytes /\ IsAligned(ElementSize(o.index), o.align)
  BY <1>1, <1>2, <1>3, <1>4, RequestReady
<1>6. QED
  BY <1>1, <1>5, AllocateKeeps

LEMMA ReallocGenericKeeps ==
  ASSUME WithinAssertion, AllocInv, NEW t \in Threads, NEW p \in DOMAIN live,
         NEW bytes \in Sizes, NEW a \in Alignments, ReallocGeneric(t, p, bytes, a)
  PROVE  AllocInv'
<1> DEFINE r == [Request(t, p, bytes, a) EXCEPT !.grow = TRUE]
<1>1. /\ pc[t] = "idle" /\ calls' \in 0..MaxCalls /\ Held(p) /\ IsReadable(p) /\ ~InPool(p)
      /\ GenericAlloc(t, r)
      /\ UNCHANGED <<free, cached>>
  BY CallCounted DEF ReallocGeneric, AllocInv
<1>2. bytes \in Nat \ {0} /\ Typed
  BY AllocatorConstants DEF ReallocGeneric, AllocInv
<1>3. p \in Blocks
  BY <1>1, BlockFacts DEF AllocInv, Typed
<1>4. PICK o \in Operations : o = Request(t, p, bytes, a) /\ Ready(t, o)
  BY <1>1, <1>2, <1>3, RequestReady
<1>5. r = [o EXCEPT !.grow = TRUE]
  BY <1>4
<1>6. /\ r \in Operations /\ r.grow = TRUE /\ r.old = o.old /\ r.was = o.was /\ r.new = o.new
      /\ r.bytes = o.bytes /\ r.align = o.align /\ r.index = o.index /\ r.max = o.max
  BY <1>5 DEF Operations
<1> HIDE DEF r
<1>7. Replaces(t, r)
  BY <1>4, <1>6 DEF Ready, Replaces
<1>8. r.grow
  BY <1>6
<1>9. QED
  BY <1>1, <1>6, <1>7, <1>8, GenericAllocKeeps
-----------------------------------------------------------------------------
LEMMA InitInv == Init => AllocInv
<1> SUFFICES ASSUME Init PROVE AllocInv
  OBVIOUS
<1>1. DOMAIN live = {} /\ \A t \in Threads : pc[t] = "idle" /\ op[t] = NoOp /\ cached[t] = {}
  BY DEF Init
<1>2. Typed
  <2>1. header \in [GenericBlocks -> [size : Nat, user : Nat, end : Nat]]
    BY DEF Init
  <2>2. mem \in [Blocks -> [data : Threads \union {"garbage"}, len : Nat]]
    BY DEF Init, Garbage, Blocks
  <2>3. op \in [Threads -> Operations]
    BY NoOpFacts DEF Init
  <2>4. live \in [DOMAIN live -> Entries]
    BY DEF Init
  <2>5. QED
    BY <1>1, <2>1, <2>2, <2>3, <2>4, AllocatorConstants DEF Init, Typed, Stages
<1>3. Placed
  <2>1. \A t \in Threads : op[t].new = Null /\ op[t].new \notin free \union unused
    BY <1>1, NoOpFacts, BlockFacts DEF Init, Blocks
  <2>2. \A b \in Blocks : Somewhere(b)
    BY DEF Init, Somewhere, Blocks
  <2>3. QED
    BY <1>1, <2>1, <2>2 DEF Placed
<1>4. OneCallEach
  BY <1>1, NoOpFacts DEF OneCallEach
<1>5. \A t \in Threads : Working(t)
  BY <1>1, NoOpFacts DEF Working
<1>6. QED
  BY <1>1, <1>2, <1>3, <1>4, <1>5 DEF AllocInv

LEMMA NextInv ==
  ASSUME WithinAssertion, AllocInv, [Next]_vars
  PROVE  AllocInv'
<1>1. CASE UNCHANGED vars
  BY <1>1 DEF vars, AllocInv, Typed, Placed, Somewhere, OneCallEach, Working, Sound, Serves,
              UsableSize, Address
<1>2. ASSUME NEW t \in Threads, Start(t) PROVE AllocInv'
  BY <1>2, AllocZeroKeeps, AllocKeeps, FreeUnreadableKeeps, FreeKeeps, ReallocReuseKeeps,
     ReallocMoveKeeps, ReallocGenericKeeps DEF Start
<1>3. ASSUME NEW t \in Threads, Step(t) PROVE AllocInv'
  BY <1>3, BucketHitKeeps, BucketMissKeeps, CountServedKeeps, CountHitKeeps, RouteKeeps,
     CountRoutedKeeps, FallbackKeeps, MoveKeeps, ReleaseToCacheKeeps, ReleaseToPoolKeeps,
     ReleaseToMallocKeeps DEF Step
<1>4. QED
  BY <1>1, <1>2, <1>3 DEF Next

(* All of it holds in every state of the front end, however calls of several *)
(* threads interleave.                                                       *)
THEOREM AllocatorInvariant ==
  ASSUME WithinAssertion
  PROVE  Spec => []AllocInv
<1>1. AllocInv /\ [Next]_vars => AllocInv'
  BY NextInv
<1>2. QED
  BY <1>1, InitInv, PTL DEF Spec

(* The state is of its types: above all, Allocate() never tries a bucket    *)
(* that does not exist, whatever the size and the number of buckets.        *)
THEOREM AllocatorTyped ==
  ASSUME WithinAssertion
  PROVE  Spec => []TypeOK
<1>1. AllocInv => TypeOK
  BY DEF AllocInv, Typed, TypeOK, Operations, Blocks, Stages
<1>2. QED
  BY <1>1, AllocatorInvariant, PTL

(* Realloc() preserves contents up to the smaller size, and no call on      *)
(* another block touches them.                                              *)
THEOREM ContentsAreKept ==
  ASSUME WithinAssertion
  PROVE  Spec => []ContentsKept
<1>1. AllocInv => ContentsKept
  BY DEF AllocInv, ContentsKept, Readable, Sound
<1>2. QED
  BY <1>1, AllocatorInvariant, PTL

(* The memmove() of Realloc() stays inside both blocks, for moves between   *)
(* pools and the generic allocator in either direction.                     *)
THEOREM MovesAlwaysFit ==
  ASSUME WithinAssertion
  PROVE  Spec => []MovesFit
<1>1. AllocInv => MovesFit
  BY CopyFits DEF MovesFit
<1>2. QED
  BY <1>1, AllocatorInvariant, PTL

(* A block is as large as was asked for and as aligned as was asked of the  *)
(* Alloc() or Realloc() that placed it, also after overflow into a larger   *)
(* bucket; a generic block and its header are inside what malloc gave.  Of  *)
(* a Realloc() that keeps its block it says nothing about alignment: that   *)
(* one ignores it (AlignedAsAsked, which does not hold).                    *)
THEOREM BlocksAlwaysServe ==
  ASSUME WithinAssertion
  PROVE  Spec => []BlocksServe
<1>1. AllocInv => BlocksServe
  BY DEF AllocInv, BlocksServe, Readable, Sound, Serves
<1>2. QED
  BY <1>1, AllocatorInvariant, PTL

(* No block is lost or in two places. *)
THEOREM BlocksAreAccounted ==
  ASSUME WithinAssertion
  PROVE  Spec => []BlocksAccounted
<1>1. ASSUME AllocInv PROVE BlocksAccounted
  <2>1. Readable = {p \in DOMAIN live : p \in Blocks}
    BY <1>1, BlockFacts DEF AllocInv, Typed, Readable
  <2>2. \A t \in Threads : op[t].new \in Blocks \union {Null} /\ (op[t].new = Null <=> op[t].new \notin Blocks)
    BY <1>1, BlockFacts DEF AllocInv, Typed, Operations
  <2>3. InHands \subseteq Blocks /\ \A b \in Blocks : b \in InHands <=> \E t \in Threads : b = op[t].new
    BY <2>2, BlockFacts DEF InHands
  <2>4. \A b : b \in UNION {cached[t] : t \in Threads} <=> \E t \in Threads : b \in cached[t]
    OBVIOUS
  <2>5. free \subseteq Blocks /\ unused \subseteq Blocks /\ \A t \in Threads : cached[t] \subseteq Blocks
    BY <1>1, BlockFacts DEF AllocInv, Typed
  <2>6. Blocks = free \union unused \union Readable \union InHands \union UNION {cached[t] : t \in Threads}
    <3>1. \A b \in Blocks : Somewhere(b)
      BY <1>1 DEF AllocInv, Placed
    <3>2. QED
      BY <2>1, <2>3, <2>4, <2>5, <3>1 DEF Somewhere
  <2>7. (free \union unused) \intersect (Readable \union InHands) = {}
    BY <1>1, <2>1, <2>3 DEF AllocInv, Placed
  <2>8. Readable \intersect InHands = {}
    BY <1>1, <2>1, <2>3 DEF AllocInv, Placed
  <2>9. \A t \in Threads : cached[t] \intersect (free \union Readable \union InHands) = {}
    BY <1>1, <2>1, <2>3 DEF AllocInv, Placed
  <2>10. QED
    BY <1>1, <2>6, <2>7, <2>8, <2>9 DEF BlocksAccounted, AllocInv, Placed, Blocks
<1>2. QED
  BY <1>1, AllocatorInvariant, PTL
-----------------------------------------------------------------------------
(* The statistics: how each step changes what they count. *)
Underway == At({"buckets", "served", "routed"})
BeingRouted == At({"routed"})
Hitting == At({"hit"})
OutOf(i) == {p \in Counted : p.bucket = i}

Counters ==
  /\ globalStats \in [attempts : Nat, served : Nat, routed : Nat, bySize : Nat, saturation : Nat]
  /\ bucketStats \in [Buckets -> [cacheHit : Nat, hit : Nat, miss : Nat, free : Nat]]

CountInv == AllocInv /\ Counters /\ StatsAddUp

(* One thread enters some stages, leaves them or stays. *)
LEMMA AtFinite ==
  ASSUME NEW S
  PROVE  IsFiniteSet(At(S)) /\ Cardinality(At(S)) \in Nat
BY AllocatorConstants, FS_Subset, FS_CardinalityType DEF At

LEMMA AtLeft ==
  ASSUME NEW S, NEW t \in Threads, pc[t] \in S, pc'[t] \notin S,
         \A u \in Threads : u # t => pc'[u] = pc[u]
  PROVE  Cardinality(At(S))' = Cardinality(At(S)) - 1 /\ Cardinality(At(S)) \in Nat
<1>1. At(S)' = At(S) \ {t} /\ t \in At(S)
  BY DEF At
<1>2. Cardinality(At(S) \ {t}) = Cardinality(At(S)) - 1
  BY <1>1, AtFinite, FS_RemoveElement
<1>3. QED
  BY <1>1, <1>2, AtFinite

LEMMA AtEntered ==
  ASSUME NEW S, NEW t \in Threads, pc[t] \notin S, pc'[t] \in S,
         \A u \in Threads : u # t => pc'[u] = pc[u]
  PROVE  Cardinality(At(S))' = Cardinality(At(S)) + 1 /\ Cardinality(At(S)) \in Nat
<1>1. At(S)' = At(S) \union {t} /\ t \notin At(S)
  BY DEF At
<1>2. Cardinality(At(S) \union {t}) = Cardinality(At(S)) + 1
  BY <1>1, AtFinite, FS_AddElement
<1>3. QED
  BY <1>1, <1>2, AtFinite

LEMMA AtSame ==
  ASSUME NEW S, NEW t \in Threads, pc[t] \in S <=> pc'[t] \in S,
         \A u \in Threads : u # t => pc'[u] = pc[u]
  PROVE  At(S)' = At(S)
BY DEF At

(* What is counted, block by block: what the program has and no call is     *)
(* releasing, and what a call brings in its place.                          *)
Releases(t, b) == pc[t] = "release" /\ op[t].old = b
Brings(t, b) == pc[t] \in {"move", "release"} /\ op[t].new = b
IsCounted(b) ==
  \/ b \in DOMAIN live /\ \A t \in Threads : ~Releases(t, b)
  \/ \E t \in Threads : Brings(t, b)

LEMMA CountedBlocks ==
  ASSUME AllocInv
  PROVE  /\ Counted \subseteq Blocks
         /\ \A b \in Blocks : b \in Counted <=> IsCounted(b)
<1>1. \A p \in DOMAIN live : IsReadable(p) <=> p \in Blocks
  BY BlockFacts DEF AllocInv, Typed
<1>2. \A t \in Threads : op[t].new \in Blocks \union {Null}
  BY DEF AllocInv, Typed, Operations
<1>3. QED
  BY <1>1, <1>2, BlockFacts DEF Counted, Readable, At, IsCounted, Releases, Brings

LEMMA CountedBlocksNext ==
  ASSUME AllocInv'
  PROVE  /\ Counted' \subseteq Blocks
         /\ \A b \in Blocks : b \in Counted' <=> IsCounted(b)'
<1>1. \A p \in DOMAIN live' : IsReadable(p) <=> p \in Blocks
  BY BlockFacts DEF AllocInv, Typed
<1>2. \A t \in Threads : op'[t].new \in Blocks \union {Null}
  BY DEF AllocInv, Typed, Operations
<1>3. QED
  BY <1>1, <1>2, BlockFacts DEF Counted, Readable, At, IsCounted, Releases, Brings

(* A block that the program has is not being brought. *)
LEMMA NotBrought ==
  ASSUME AllocInv, NEW u \in Threads
  PROVE  /\ op[u].old # Null => op[u].old \in DOMAIN live
         /\ op[u].new \notin DOMAIN live
         /\ pc[u] \in {"move", "release"} => op[u].old # Null
BY DEF AllocInv, Working, Placed

(* A step of a thread that neither brings nor releases a block. *)
LEMMA CountedSame ==
  ASSUME AllocInv, AllocInv', NEW t \in Threads,
         pc[t] \notin {"move", "release"}, pc'[t] \notin {"move", "release"},
         \A u \in Threads : u # t => pc'[u] = pc[u] /\ op'[u] = op[u],
         \A b \in Blocks : b \in DOMAIN live' <=> b \in DOMAIN live
  PROVE  Counted' = Counted
<1>1. ASSUME NEW b \in Blocks, NEW u \in Threads
      PROVE  (Releases(u, b)' <=> Releases(u, b)) /\ (Brings(u, b)' <=> Brings(u, b))
  BY DEF Releases, Brings
<1>2. \A b \in Blocks : IsCounted(b)' <=> IsCounted(b)
  BY <1>1 DEF IsCounted
<1>3. QED
  BY <1>2, CountedBlocks, CountedBlocksNext

(* A call begins to release the block it works on. *)
LEMMA CountedLess ==
  ASSUME AllocInv, AllocInv', NEW t \in Threads, NEW p \in Blocks, p \in DOMAIN live, live' = live,
         pc[t] # "release", pc'[t] = "release", op'[t].old = p,
         op'[t].new = op[t].new, pc[t] = "move" \/ op[t].new = Null,
         \A u \in Threads : u # t => pc'[u] = pc[u] /\ op'[u] = op[u] /\ op[u].old # p
  PROVE  Counted' = Counted \ {p} /\ p \in Counted
<1>1. Null \notin Blocks
  BY BlockFacts
<1>2. ASSUME NEW b \in Blocks, NEW u \in Threads
      PROVE  Brings(u, b)' <=> Brings(u, b)
  BY <1>1 DEF Brings
<1>3. ASSUME NEW b \in Blocks, b # p, NEW u \in Threads
      PROVE  Releases(u, b)' <=> Releases(u, b)
  BY <1>3 DEF Releases
<1>4. ASSUME NEW b \in Blocks, b # p PROVE IsCounted(b)' <=> IsCounted(b)
  BY <1>2, <1>3, <1>4 DEF IsCounted
<1>5. IsCounted(p)
  <2>1. \A u \in Threads : ~Releases(u, p)
    BY DEF Releases
  <2>2. QED
    BY <2>1 DEF IsCounted
<1>6. ~IsCounted(p)'
  <2>1. Releases(t, p)'
    BY DEF Releases
  <2>2. \A u \in Threads : ~Brings(u, p)
    BY NotBrought DEF Brings
  <2>3. \A u \in Threads : ~Brings(u, p)'
    BY <1>2, <2>2
  <2>4. QED
    BY <2>1, <2>3 DEF IsCounted
<1>7. QED
  BY <1>4, <1>5, <1>6, CountedBlocks, CountedBlocksNext

LEMMA OutFinite ==
  ASSUME AllocInv, NEW i \in Buckets
  PROVE  IsFiniteSet(OutOf(i)) /\ Cardinality(OutOf(i)) \in Nat
<1> DEFINE N == 0..(Elements - 1)
           T == {b \in PoolBlocks : b.bucket = i}
           f == [n \in N |-> [bucket |-> i, n |-> n]]
<1>1. IsFiniteSet(N)
  BY AllocatorConstants, FS_Interval
<1>2. f \in Surjection(N, T)
  <2>1. f \in [N -> T]
    BY DEF PoolBlocks
  <2>2. ASSUME NEW b \in T PROVE \E n \in N : f[n] = b
    <3>1. b \in [bucket : Buckets, n : N] /\ b.bucket = i
      BY DEF PoolBlocks
    <3>2. b.n \in N /\ b = [bucket |-> i, n |-> b.n]
      BY <3>1
    <3>3. f[b.n] = b
      BY <3>2
    <3>4. QED
      BY <3>2, <3>3
  <2>3. QED
    BY <2>1, <2>2 DEF Surjection
<1>3. IsFiniteSet(T)
  BY <1>1, <1>2, FS_Surjection
<1>4. OutOf(i) \in SUBSET T
  <2>1. i >= 0
    BY DEF Buckets
  <2>2. QED
    BY <2>1, CountedBlocks, BlockFacts DEF OutOf, InPool
<1>5. QED
  BY <1>3, <1>4, FS_Subset, FS_CardinalityType

(* One block more out, or one less. *)
LEMMA OneOut ==
  ASSUME AllocInv, NEW b \in PoolBlocks, b \notin Counted, Counted' = Counted \union {b}, NEW i \in Buckets
  PROVE  Cardinality(OutOf(i))' = Cardinality(OutOf(i)) + (IF b.bucket = i THEN 1 ELSE 0)
         /\ Cardinality(OutOf(i)) \in Nat
<1>1. IsFiniteSet(OutOf(i)) /\ Cardinality(OutOf(i)) \in Nat
  BY OutFinite
<1>2. CASE b.bucket = i
  <2>1. OutOf(i)' = OutOf(i) \union {b} /\ b \notin OutOf(i)
    BY <1>2 DEF OutOf
  <2>2. QED
    BY <1>1, <1>2, <2>1, FS_AddElement
<1>3. CASE b.bucket # i
  <2>1. OutOf(i)' = OutOf(i)
    BY <1>3 DEF OutOf
  <2>2. QED
    BY <1>1, <1>3, <2>1
<1>4. QED
  BY <1>2, <1>3

LEMMA OneBack ==
  ASSUME AllocInv, NEW b \in PoolBlocks, b \in Counted, Counted' = Counted \ {b}, NEW i \in Buckets
  PROVE  Cardinality(OutOf(i))' = Cardinality(OutOf(i)) - (IF b.bucket = i THEN 1 ELSE 0)
         /\ Cardinality(OutOf(i)) \in Nat
<1>1. IsFiniteSet(OutOf(i)) /\ Cardinality(OutOf(i)) \in Nat
  BY OutFinite
<1>2. CASE b.bucket = i
  <2>1. OutOf(i)' = OutOf(i) \ {b} /\ b \in OutOf(i)
    BY <1>2 DEF OutOf
  <2>2. Cardinality(OutOf(i) \ {b}) = Cardinality(OutOf(i)) - 1
    BY <1>1, <2>1, FS_RemoveElement
  <2>3. QED
    BY <1>1, <1>2, <2>1, <2>2
<1>3. CASE b.bucket # i
  <2>1. OutOf(i)' = OutOf(i)
    BY <1>3 DEF OutOf
  <2>2. QED
    BY <1>1, <1>3, <2>1
<1>4. QED
  BY <1>2, <1>3

(* A generic block counts for no bucket. *)
LEMMA GenericOut ==
  ASSUME NEW g \in GenericBlocks, Counted' \ {g} = Counted \ {g}, NEW i \in Buckets
  PROVE  OutOf(i)' = OutOf(i)
<1>1. g.bucket # i
  BY DEF GenericBlocks, Buckets
<1>2. QED
  BY <1>1 DEF OutOf

(* What a delivery counts: the block, and nothing when it failed. *)
LEMMA CountedDelivered ==
  ASSUME AllocInv, AllocInv', NEW t \in Threads, NEW o \in Operations, NEW r \in Blocks \union {Null},
         pc[t] \in {"idle", "generic", "hit"}, r \notin DOMAIN live,
         \A u \in Threads : u # t => r = Null \/ op[u].new # r, Deliver(t, o, r)
  PROVE  /\ Counted' = Counted \union ({r} \ {Null}) /\ r \notin Counted
         /\ pc'[t] \in {"idle", "move", "crashed"} /\ \A u \in Threads : u # t => pc'[u] = pc[u]
<1>1. \A u \in Threads : u # t => pc'[u] = pc[u] /\ op'[u] = op[u]
  BY DEF AllocInv, Typed, Deliver, Idle
<1>2. pc'[t] \in {"idle", "move", "crashed"}
  BY DEF AllocInv, Typed, Deliver, Idle
<1>3. Null \notin Blocks /\ Null \notin Counted
  BY BlockFacts, CountedBlocks
<1>4. \A u \in Threads : op[u].old \in Blocks \union {Null}
  BY DEF AllocInv, Typed, Operations
<1>5. CASE r # Null
  <2>1. \A u \in Threads : ~Brings(u, r) /\ ~Releases(u, r)
    BY <1>3, <1>5, NotBrought DEF Brings, Releases
  <2>2. ~IsCounted(r)
    BY <2>1 DEF IsCounted
  <2>3. r \in Blocks /\ r \notin Counted
    BY <1>5, <2>2, CountedBlocks
  <2>4. CASE o.old = Null
    <3>1. live' = With(r, Filled(o)) /\ pc'[t] = "idle"
      BY <1>5, <2>4 DEF Deliver, Idle, AllocInv, Typed
    <3>2. DOMAIN live' = DOMAIN live \union {r}
      BY <3>1 DEF With
    <3>3. ASSUME NEW b \in Blocks, NEW u \in Threads
          PROVE  (Releases(u, b)' <=> Releases(u, b)) /\ (Brings(u, b)' <=> Brings(u, b))
      BY <1>1, <3>1 DEF Releases, Brings
    <3>4. ASSUME NEW b \in Blocks, b # r PROVE IsCounted(b)' <=> IsCounted(b)
      BY <3>2, <3>3, <3>4 DEF IsCounted
    <3>5. IsCounted(r)'
      BY <2>1, <2>3, <3>2, <3>3 DEF IsCounted
    <3>6. QED
      BY <1>1, <1>2, <1>3, <1>5, <2>3, <3>4, <3>5, CountedBlocks, CountedBlocksNext
  <2>5. CASE o.old # Null
    <3>1. live' = live /\ pc'[t] = "move" /\ op' = [op EXCEPT ![t] = [o EXCEPT !.new = r]]
      BY <1>5, <2>5 DEF Deliver, AllocInv, Typed
    <3>2. op'[t].new = r
      BY <3>1 DEF AllocInv, Typed, Operations
    <3>3. ASSUME NEW b \in Blocks, b # r, NEW u \in Threads
          PROVE  (Releases(u, b)' <=> Releases(u, b)) /\ (Brings(u, b)' <=> Brings(u, b))
      BY <1>1, <3>1, <3>2, <3>3 DEF Releases, Brings
    <3>4. ASSUME NEW b \in Blocks, b # r PROVE IsCounted(b)' <=> IsCounted(b)
      BY <3>1, <3>3, <3>4 DEF IsCounted
    <3>5. IsCounted(r)'
      BY <3>1, <3>2 DEF IsCounted, Brings
    <3>6. QED
      BY <1>1, <1>2, <1>3, <1>5, <2>3, <3>4, <3>5, CountedBlocks, CountedBlocksNext
  <2>6. QED
    BY <2>4, <2>5
<1>6. CASE r = Null
  <2>1. live' = live /\ pc'[t] \notin {"move", "release"}
    BY <1>6 DEF Deliver, Idle, AllocInv, Typed
  <2>2. Counted' = Counted
    BY <1>1, <2>1, CountedSame
  <2>3. QED
    BY <1>1, <1>2, <1>3, <1>6, <2>2
<1>7. QED
  BY <1>5, <1>6

(* What the end of a call leaves counted: the block that it brought is the  *)
(* program's, the one that it released was not counted any more.            *)
LEMMA CountedReleased ==
  ASSUME AllocInv, AllocInv', NEW t \in Threads, pc[t] = "release", Released(t)
  PROVE  /\ Counted' = Counted
         /\ pc'[t] = "idle" /\ \A u \in Threads : u # t => pc'[u] = pc[u]
<1>1. /\ pc'[t] = "idle"
      /\ \A u \in Threads : u # t => pc'[u] = pc[u] /\ op'[u] = op[u]
  BY DEF AllocInv, Typed, Released, Idle
<1>2. PICK p, n : p = op[t].old /\ n = op[t].new
  OBVIOUS
<1>3. DOMAIN live' = (DOMAIN live \ {p}) \union ({n} \ {Null})
  BY <1>2 DEF Released
<1>4. /\ p \in DOMAIN live /\ p \in Blocks /\ n \notin DOMAIN live /\ n \in Blocks \union {Null}
      /\ \A u \in Threads : u # t => op[u].old # p
  BY <1>2 DEF AllocInv, Working, Typed, Operations, Placed, OneCallEach
<1>5. Null \notin Blocks
  BY BlockFacts
<1>6. ASSUME NEW b \in Blocks, b # p, b # n, NEW u \in Threads
      PROVE  (Releases(u, b)' <=> Releases(u, b)) /\ (Brings(u, b)' <=> Brings(u, b))
  BY <1>1, <1>2, <1>6 DEF Releases, Brings
<1>7. ASSUME NEW b \in Blocks, b # p, b # n PROVE IsCounted(b)' <=> IsCounted(b)
  BY <1>3, <1>6, <1>7 DEF IsCounted
<1>8. ~IsCounted(p) /\ ~IsCounted(p)'
  <2>1. Releases(t, p) /\ \A u \in Threads : ~Brings(u, p)
    BY <1>2, <1>4, NotBrought DEF Releases, Brings
  <2>2. \A u \in Threads : ~Brings(u, p)'
    BY <1>1, <1>4, <2>1 DEF Brings
  <2>3. p \notin DOMAIN live'
    BY <1>3, <1>4
  <2>4. QED
    BY <2>1, <2>2, <2>3 DEF IsCounted
<1>9. n # Null => IsCounted(n) /\ IsCounted(n)'
  <2>1. SUFFICES ASSUME n # Null PROVE IsCounted(n) /\ IsCounted(n)'
    OBVIOUS
  <2>2. Brings(t, n)
    BY <1>2 DEF Brings
  <2>3. \A u \in Threads : ~Releases(u, n)'
    BY <1>1, <1>4, <2>1, NotBrought DEF Releases
  <2>4. n \in DOMAIN live'
    BY <1>3, <2>1
  <2>5. QED
    BY <2>2, <2>3, <2>4 DEF IsCounted
<1>10. QED
  BY <1>1, <1>4, <1>5, <1>7, <1>8, <1>9, CountedBlocks, CountedBlocksNext

(* The counters in terms of what they count. *)
LEMMA StatsMeaning ==
  StatsAddUp <=>
    /\ globalStats.attempts = globalStats.served + globalStats.routed + Cardinality(Underway)
    /\ globalStats.bySize + globalStats.saturation = globalStats.routed + Cardinality(BeingRouted)
    /\ \A i \in Buckets :
         bucketStats[i].hit + bucketStats[i].cacheHit - bucketStats[i].free = Cardinality(OutOf(i))
BY DEF StatsAddUp, Underway, BeingRouted, OutOf

LEMMA StatsMeaningNext ==
  StatsAddUp' <=>
    /\ globalStats'.attempts = globalStats'.served + globalStats'.routed + Cardinality(Underway)'
    /\ globalStats'.bySize + globalStats'.saturation = globalStats'.routed + Cardinality(BeingRouted)'
    /\ \A i \in Buckets :
         bucketStats'[i].hit + bucketStats'[i].cacheHit - bucketStats'[i].free = Cardinality(OutOf(i))'
BY DEF StatsAddUp, Underway, BeingRouted, OutOf

(* Steps that count nothing globally and add no call to those under way. *)
LEMMA NothingCounted ==
  ASSUME CountInv, globalStats' = globalStats, Underway' = Underway, BeingRouted' = BeingRouted,
         bucketStats' \in [Buckets -> [cacheHit : Nat, hit : Nat, miss : Nat, free : Nat]],
         \A i \in Buckets :
           bucketStats'[i].hit + bucketStats'[i].cacheHit - bucketStats'[i].free = Cardinality(OutOf(i))'
  PROVE  Counters' /\ StatsAddUp'
<1>1. StatsAddUp'
  BY StatsMeaning, StatsMeaningNext DEF CountInv
<1>2. QED
  BY <1>1 DEF CountInv, Counters

(* The buckets' share when they count nothing. *)
LEMMA BucketsSame ==
  ASSUME CountInv, bucketStats' = bucketStats, \A i \in Buckets : OutOf(i)' = OutOf(i)
  PROVE  /\ bucketStats' \in [Buckets -> [cacheHit : Nat, hit : Nat, miss : Nat, free : Nat]]
         /\ \A i \in Buckets :
              bucketStats'[i].hit + bucketStats'[i].cacheHit - bucketStats'[i].free = Cardinality(OutOf(i))'
BY StatsMeaning DEF CountInv, Counters

LEMMA SameOut ==
  ASSUME Counted' = Counted
  PROVE  \A i \in Buckets : OutOf(i)' = OutOf(i)
BY DEF OutOf

(* The same for a thread between two stages that are neither. *)
LEMMA StagesSame ==
  ASSUME NEW t \in Threads, \A u \in Threads : u # t => pc'[u] = pc[u],
         pc[t] \notin {"buckets", "served", "routed"}, pc'[t] \notin {"buckets", "served", "routed"}
  PROVE  Underway' = Underway /\ BeingRouted' = BeingRouted
<1>1. PICK S : S = {"buckets", "served", "routed"}
  OBVIOUS
<1>2. At(S)' = At(S)
  BY <1>1, AtSame
<1>3. PICK R : R = {"routed"}
  OBVIOUS
<1>4. At(R)' = At(R)
  BY <1>3, AtSame
<1>5. QED
  BY <1>1, <1>2, <1>3, <1>4 DEF Underway, BeingRouted

(* A step between calls that touches no block. *)
LEMMA QuietCounts ==
  ASSUME CountInv, AllocInv', NEW t \in Threads, pc[t] = "idle", UNCHANGED <<pc, op, stats>>,
         \A b \in Blocks : b \in DOMAIN live' <=> b \in DOMAIN live
  PROVE  Counters' /\ StatsAddUp'
<1>1. Counted' = Counted
  BY CountedSame DEF CountInv
<1>2. Underway' = Underway /\ BeingRouted' = BeingRouted
  BY DEF Underway, BeingRouted, At
<1>3. globalStats' = globalStats /\ bucketStats' = bucketStats
  BY DEF stats
<1>4. QED
  BY <1>1, <1>2, <1>3, SameOut, BucketsSame, NothingCounted

LEMMA AllocZeroCounts ==
  ASSUME CountInv, AllocInv', NEW t \in Threads, NEW a \in Alignments, AllocZero(t, a)
  PROVE  Counters' /\ StatsAddUp'
<1>1. /\ pc[t] = "idle" /\ UNCHANGED <<pc, op, stats>>
      /\ live' = With(Unreadable(a), Filled([NoOp EXCEPT !.align = a]))
  BY DEF AllocZero, Call
<1>2. DOMAIN live' = DOMAIN live \union {Unreadable(a)} /\ Unreadable(a) \notin Blocks
  BY <1>1, BlockFacts DEF With
<1>3. QED
  BY <1>1, <1>2, QuietCounts

LEMMA FreeUnreadableCounts ==
  ASSUME CountInv, AllocInv', NEW t \in Threads, NEW p \in DOMAIN live, FreeUnreadable(t, p)
  PROVE  Counters' /\ StatsAddUp'
<1>1. /\ pc[t] = "idle" /\ UNCHANGED <<pc, op, stats>> /\ ~IsReadable(p)
      /\ live' = [q \in DOMAIN live \ {p} |-> live[q]]
  BY DEF FreeUnreadable, Call
<1>2. DOMAIN live' = DOMAIN live \ {p} /\ p \notin Blocks
  BY <1>1, BlockFacts
<1>3. QED
  BY <1>1, <1>2, QuietCounts

LEMMA ReallocReuseCounts ==
  ASSUME CountInv, AllocInv', NEW t \in Threads, NEW p \in DOMAIN live, NEW bytes, NEW a,
         ReallocReuse(t, p, bytes, a)
  PROVE  Counters' /\ StatsAddUp'
<1>1. pc[t] = "idle" /\ UNCHANGED <<pc, op, stats>> /\ DOMAIN live' = DOMAIN live
  BY DEF ReallocReuse, Call
<1>2. QED
  BY <1>1, QuietCounts

(* Free() counts a block that is counted as the program's no longer. *)
LEMMA FreeCounted ==
  ASSUME CountInv, AllocInv', NEW p \in Blocks, p \in Counted, Counted' = Counted \ {p}, CountFree(p)
  PROVE  /\ bucketStats' \in [Buckets -> [cacheHit : Nat, hit : Nat, miss : Nat, free : Nat]]
         /\ \A i \in Buckets :
              bucketStats'[i].hit + bucketStats'[i].cacheHit - bucketStats'[i].free = Cardinality(OutOf(i))'
<1>1. CASE p \in GenericBlocks
  <2>1. ~InPool(p) /\ Counted' \ {p} = Counted \ {p}
    BY <1>1, BlockFacts
  <2>2. bucketStats' = bucketStats
    BY <2>1 DEF CountFree
  <2>3. \A i \in Buckets : OutOf(i)' = OutOf(i)
    BY <1>1, <2>1, GenericOut
  <2>4. QED
    BY <2>2, <2>3, BucketsSame
<1>2. CASE p \in PoolBlocks
  <2>1. AllocInv /\ InPool(p) /\ p.bucket \in Buckets
    BY <1>2, BlockFacts DEF CountInv
  <2>2. bucketStats \in [Buckets -> [cacheHit : Nat, hit : Nat, miss : Nat, free : Nat]]
    BY DEF CountInv, Counters
  <2>3. bucketStats' = [bucketStats EXCEPT ![p.bucket].free = @ + 1]
    BY <2>1 DEF CountFree
  <2>4. bucketStats' \in [Buckets -> [cacheHit : Nat, hit : Nat, miss : Nat, free : Nat]]
    BY <2>1, <2>2, <2>3
  <2>5. ASSUME NEW i \in Buckets
        PROVE  bucketStats'[i].hit + bucketStats'[i].cacheHit - bucketStats'[i].free = Cardinality(OutOf(i))'
    <3>1. /\ Cardinality(OutOf(i))' = Cardinality(OutOf(i)) - (IF p.bucket = i THEN 1 ELSE 0)
          /\ Cardinality(OutOf(i)) \in Nat
      BY <1>2, <2>1, OneBack
    <3>2. bucketStats[i].hit + bucketStats[i].cacheHit - bucketStats[i].free = Cardinality(OutOf(i))
      BY StatsMeaning DEF CountInv
    <3>3. CASE p.bucket = i
      <4>1. /\ bucketStats[i].hit \in Nat /\ bucketStats[i].cacheHit \in Nat /\ bucketStats[i].free \in Nat
            /\ bucketStats'[i].free = bucketStats[i].free + 1
            /\ bucketStats'[i].hit = bucketStats[i].hit
            /\ bucketStats'[i].cacheHit = bucketStats[i].cacheHit
        BY <2>2, <2>3, <3>3
      <4>2. Cardinality(OutOf(i))' = Cardinality(OutOf(i)) - 1
        BY <3>1, <3>3
      <4>3. QED
        BY <3>1, <3>2, <4>1, <4>2
    <3>4. CASE p.bucket # i
      <4>1. bucketStats'[i] = bucketStats[i]
        BY <2>1, <2>2, <2>3, <3>4
      <4>2. Cardinality(OutOf(i))' = Cardinality(OutOf(i))
        BY <3>1, <3>4
      <4>3. QED
        BY <3>2, <4>1, <4>2
    <3>5. QED
      BY <3>3, <3>4
  <2>6. QED
    BY <2>4, <2>5
<1>3. QED
  BY <1>1, <1>2 DEF Blocks

LEMMA FreeCounts ==
  ASSUME CountInv, AllocInv', NEW t \in Threads, NEW p \in DOMAIN live, Free(t, p)
  PROVE  Counters' /\ StatsAddUp'
<1>1. PICK o : o = [NoOp EXCEPT !.old = p]
  OBVIOUS
<1>2. /\ live' = live /\ globalStats' = globalStats /\ CountFree(p) /\ IsReadable(p)
      /\ pc[t] = "idle" /\ pc' = [pc EXCEPT ![t] = "release"]
      /\ op' = [op EXCEPT ![t] = o] /\ \A u \in Threads : op[u].old # p
  BY <1>1 DEF Free, Call, Held
<1>3. AllocInv /\ op[t].new = Null /\ o.new = Null /\ o.old = p
  BY <1>1, <1>2, NoOpFacts DEF CountInv, AllocInv, Working, NoOp
<1>4. p \in Blocks
  BY <1>2, <1>3, BlockFacts DEF AllocInv, Typed
<1>5. /\ pc'[t] = "release" /\ op'[t] = o
      /\ \A u \in Threads : u # t => pc'[u] = pc[u] /\ op'[u] = op[u]
  BY <1>2, <1>3 DEF AllocInv, Typed
<1>6. Counted' = Counted \ {p} /\ p \in Counted
  BY <1>2, <1>3, <1>4, <1>5, CountedLess
<1>7. Underway' = Underway /\ BeingRouted' = BeingRouted
  BY <1>2, <1>5, StagesSame
<1>8. QED
  BY <1>2, <1>4, <1>6, <1>7, FreeCounted, NothingCounted

LEMMA MoveCounts ==
  ASSUME CountInv, AllocInv', NEW t \in Threads, Move(t)
  PROVE  Counters' /\ StatsAddUp'
<1>1. PICK p : p = op[t].old
  OBVIOUS
<1>2. /\ live' = live /\ op' = op /\ globalStats' = globalStats /\ CountFree(p)
      /\ pc[t] = "move" /\ pc' = [pc EXCEPT ![t] = "release"]
  BY <1>1 DEF Move
<1>3. /\ AllocInv /\ p \in DOMAIN live /\ p \in Blocks
      /\ \A u \in Threads : u # t => op[u].old # p
  BY <1>1, <1>2 DEF CountInv, AllocInv, Working, Typed, Operations, OneCallEach
<1>4. /\ pc'[t] = "release" /\ op'[t].old = p /\ op'[t].new = op[t].new
      /\ \A u \in Threads : u # t => pc'[u] = pc[u] /\ op'[u] = op[u]
  BY <1>1, <1>2, <1>3 DEF AllocInv, Typed
<1>5. Counted' = Counted \ {p} /\ p \in Counted
  BY <1>2, <1>3, <1>4, CountedLess
<1>6. Underway' = Underway /\ BeingRouted' = BeingRouted
  BY <1>2, <1>4, StagesSame
<1>7. QED
  BY <1>2, <1>3, <1>5, <1>6, FreeCounted, NothingCounted

LEMMA BucketMissCounts ==
  ASSUME CountInv, AllocInv', NEW t \in Threads, BucketMiss(t)
  PROVE  Counters' /\ StatsAddUp'
<1> DEFINE x == op[t].index
           j == NextBucket(op[t].index, op[t].align)
<1>1. /\ live' = live /\ pc' = pc /\ globalStats' = globalStats /\ op' = [op EXCEPT ![t].index = j]
      /\ bucketStats' = [bucketStats EXCEPT ![x].miss = @ + 1] /\ pc[t] = "buckets"
  BY DEF BucketMiss
<1> HIDE DEF j
<1>2. \A u \in Threads : u # t => op'[u] = op[u]
  BY <1>1 DEF CountInv, AllocInv, Typed
<1>3. Counted' = Counted
  BY <1>1, <1>2, CountedSame DEF CountInv
<1>4. Underway' = Underway /\ BeingRouted' = BeingRouted
  BY <1>1 DEF Underway, BeingRouted, At
<1>5. bucketStats' \in [Buckets -> [cacheHit : Nat, hit : Nat, miss : Nat, free : Nat]]
  <2>1. x \in Buckets
    <3>1. x \in Nat /\ op[t].max \in 0..bucketsCount /\ x < op[t].max
      BY DEF BucketMiss, CountInv, AllocInv, Typed, Operations
    <3>2. QED
      BY <3>1, AllocatorConstants DEF Buckets
  <2>2. bucketStats \in [Buckets -> [cacheHit : Nat, hit : Nat, miss : Nat, free : Nat]]
    BY DEF CountInv, Counters
  <2> HIDE DEF x
  <2>3. QED
    BY <1>1, <2>1, <2>2
<1>6. \A i \in Buckets : /\ bucketStats'[i].hit = bucketStats[i].hit
                         /\ bucketStats'[i].cacheHit = bucketStats[i].cacheHit
                         /\ bucketStats'[i].free = bucketStats[i].free
  BY <1>1 DEF CountInv, Counters
<1>7. \A i \in Buckets : OutOf(i)' = OutOf(i)
  BY <1>3, SameOut
<1>8. \A i \in Buckets :
        bucketStats'[i].hit + bucketStats'[i].cacheHit - bucketStats'[i].free = Cardinality(OutOf(i))'
  BY <1>6, <1>7, StatsMeaning DEF CountInv
<1>9. QED
  BY <1>1, <1>4, <1>5, <1>8, NothingCounted

(* A bucket counts one served request, and its block is out. *)
LEMMA BucketCounted ==
  ASSUME CountInv, NEW b \in PoolBlocks, b \notin Counted, Counted' = Counted \union {b},
         \/ bucketStats' = [bucketStats EXCEPT ![b.bucket].hit = @ + 1]
         \/ bucketStats' = [bucketStats EXCEPT ![b.bucket].cacheHit = @ + 1]
  PROVE  /\ bucketStats' \in [Buckets -> [cacheHit : Nat, hit : Nat, miss : Nat, free : Nat]]
         /\ \A i \in Buckets :
              bucketStats'[i].hit + bucketStats'[i].cacheHit - bucketStats'[i].free = Cardinality(OutOf(i))'
<1>1. /\ b.bucket \in Buckets
      /\ bucketStats \in [Buckets -> [cacheHit : Nat, hit : Nat, miss : Nat, free : Nat]]
  BY BlockFacts DEF CountInv, Counters
<1>2. bucketStats' \in [Buckets -> [cacheHit : Nat, hit : Nat, miss : Nat, free : Nat]]
  BY <1>1
<1>3. ASSUME NEW i \in Buckets
      PROVE  bucketStats'[i].hit + bucketStats'[i].cacheHit - bucketStats'[i].free = Cardinality(OutOf(i))'
  <2>1. /\ Cardinality(OutOf(i))' = Cardinality(OutOf(i)) + (IF b.bucket = i THEN 1 ELSE 0)
        /\ Cardinality(OutOf(i)) \in Nat
    BY OneOut DEF CountInv
  <2>2. bucketStats[i].hit + bucketStats[i].cacheHit - bucketStats[i].free = Cardinality(OutOf(i))
    BY StatsMeaning DEF CountInv
  <2>3. CASE b.bucket = i
    <3>1. /\ bucketStats[i].hit \in Nat /\ bucketStats[i].cacheHit \in Nat /\ bucketStats[i].free \in Nat
          /\ bucketStats'[i].free = bucketStats[i].free
          /\ \/ /\ bucketStats'[i].hit = bucketStats[i].hit + 1
                /\ bucketStats'[i].cacheHit = bucketStats[i].cacheHit
             \/ /\ bucketStats'[i].hit = bucketStats[i].hit
                /\ bucketStats'[i].cacheHit = bucketStats[i].cacheHit + 1
      BY <1>1, <2>3
    <3>2. Cardinality(OutOf(i))' = Cardinality(OutOf(i)) + 1
      BY <2>1, <2>3
    <3>3. QED
      BY <2>1, <2>2, <3>1, <3>2
  <2>4. CASE b.bucket # i
    <3>1. bucketStats'[i] = bucketStats[i]
      BY <1>1, <2>4
    <3>2. Cardinality(OutOf(i))' = Cardinality(OutOf(i))
      BY <2>1, <2>4
    <3>3. QED
      BY <2>2, <3>1, <3>2
  <2>5. QED
    BY <2>3, <2>4
<1>4. QED
  BY <1>2, <1>3

(* A step that adds to one global counter and moves the thread from stage   *)
(* to stage, with n and m what it adds to the calls under way and to those  *)
(* being routed.                                                            *)
LEMMA GlobalCounted ==
  ASSUME CountInv, AllocInv', NEW t \in Threads,
         pc[t] \notin {"move", "release"}, pc'[t] \notin {"move", "release"},
         \A u \in Threads : u # t => pc'[u] = pc[u] /\ op'[u] = op[u],
         DOMAIN live' = DOMAIN live, bucketStats' = bucketStats,
         globalStats' \in [attempts : Nat, served : Nat, routed : Nat, bySize : Nat, saturation : Nat],
         NEW n \in Int, NEW m \in Int,
         Cardinality(Underway)' = Cardinality(Underway) + n,
         Cardinality(BeingRouted)' = Cardinality(BeingRouted) + m,
         globalStats'.attempts - globalStats'.served - globalStats'.routed =
           globalStats.attempts - globalStats.served - globalStats.routed + n,
         globalStats'.bySize + globalStats'.saturation - globalStats'.routed =
           globalStats.bySize + globalStats.saturation - globalStats.routed + m
  PROVE  Counters' /\ StatsAddUp'
<1>1. Counted' = Counted
  BY CountedSame DEF CountInv
<1>2. /\ bucketStats' \in [Buckets -> [cacheHit : Nat, hit : Nat, miss : Nat, free : Nat]]
      /\ \A i \in Buckets :
           bucketStats'[i].hit + bucketStats'[i].cacheHit - bucketStats'[i].free = Cardinality(OutOf(i))'
  BY <1>1, SameOut, BucketsSame
<1>3. Cardinality(Underway) \in Nat /\ Cardinality(BeingRouted) \in Nat
  BY AtFinite DEF Underway, BeingRouted
<1>4. globalStats \in [attempts : Nat, served : Nat, routed : Nat, bySize : Nat, saturation : Nat]
  BY DEF CountInv, Counters
<1>5. /\ globalStats.attempts = globalStats.served + globalStats.routed + Cardinality(Underway)
      /\ globalStats.bySize + globalStats.saturation = globalStats.routed + Cardinality(BeingRouted)
  BY StatsMeaning DEF CountInv
<1>6. /\ globalStats'.attempts = globalStats'.served + globalStats'.routed + Cardinality(Underway)'
      /\ globalStats'.bySize + globalStats'.saturation = globalStats'.routed + Cardinality(BeingRouted)'
  BY <1>3, <1>4, <1>5
<1>7. QED
  BY <1>2, <1>6, StatsMeaningNext DEF Counters

(* How a thread's step from stage to stage changes those sets. *)
LEMMA StagesChange ==
  ASSUME NEW t \in Threads, \A u \in Threads : u # t => pc'[u] = pc[u]
  PROVE  /\ pc[t] = "idle" /\ pc'[t] \in {"served", "buckets"} =>
              /\ Cardinality(Underway)' = Cardinality(Underway) + 1
              /\ Cardinality(BeingRouted)' = Cardinality(BeingRouted)
         /\ pc[t] = "served" /\ pc'[t] = "hit" =>
              /\ Cardinality(Underway)' = Cardinality(Underway) - 1
              /\ Cardinality(BeingRouted)' = Cardinality(BeingRouted)
         /\ pc[t] = "buckets" /\ pc'[t] = "served" =>
              /\ Cardinality(Underway)' = Cardinality(Underway)
              /\ Cardinality(BeingRouted)' = Cardinality(BeingRouted)
         /\ pc[t] = "buckets" /\ pc'[t] = "routed" =>
              /\ Cardinality(Underway)' = Cardinality(Underway)
              /\ Cardinality(BeingRouted)' = Cardinality(BeingRouted) + 1
         /\ pc[t] = "routed" /\ pc'[t] = "generic" =>
              /\ Cardinality(Underway)' = Cardinality(Underway) - 1
              /\ Cardinality(BeingRouted)' = Cardinality(BeingRouted) - 1
<1>1. PICK S : S = {"buckets", "served", "routed"}
  OBVIOUS
<1>2. PICK R : R = {"routed"}
  OBVIOUS
<1>3. /\ Underway = At(S) /\ Underway' = At(S)' /\ BeingRouted = At(R) /\ BeingRouted' = At(R)'
  BY <1>1, <1>2 DEF Underway, BeingRouted
<1>4. /\ pc[t] \notin S /\ pc'[t] \in S => Cardinality(At(S))' = Cardinality(At(S)) + 1
      /\ pc[t] \in S /\ pc'[t] \notin S => Cardinality(At(S))' = Cardinality(At(S)) - 1
      /\ (pc[t] \in S <=> pc'[t] \in S) => At(S)' = At(S)
  BY AtLeft, AtEntered, AtSame
<1>5. /\ pc[t] \notin R /\ pc'[t] \in R => Cardinality(At(R))' = Cardinality(At(R)) + 1
      /\ pc[t] \in R /\ pc'[t] \notin R => Cardinality(At(R))' = Cardinality(At(R)) - 1
      /\ (pc[t] \in R <=> pc'[t] \in R) => At(R)' = At(R)
  BY AtLeft, AtEntered, AtSame
<1>6. QED
  BY <1>1, <1>2, <1>3, <1>4, <1>5

LEMMA AllocateCounts ==
  ASSUME CountInv, AllocInv', NEW t \in Threads, NEW o \in Operations, pc[t] = "idle", Allocate(t, o)
  PROVE  Counters' /\ StatsAddUp'
<1>1. globalStats \in [attempts : Nat, served : Nat, routed : Nat, bySize : Nat, saturation : Nat]
      /\ AllocInv
  BY DEF CountInv, Counters
<1>2. /\ globalStats' = [globalStats EXCEPT !.attempts = @ + 1] /\ bucketStats' = bucketStats
      /\ live' = live
      /\ \E s \in {"served", "buckets"} : pc' = [pc EXCEPT ![t] = s]
      /\ \E q : op' = [op EXCEPT ![t] = q]
  BY DEF Allocate, AllocateFromCache, AllocateFromPools, Found
<1>3. /\ pc'[t] \in {"served", "buckets"}
      /\ \A u \in Threads : u # t => pc'[u] = pc[u] /\ op'[u] = op[u]
  BY <1>1, <1>2 DEF AllocInv, Typed
<1>4. /\ globalStats'.attempts = globalStats.attempts + 1 /\ globalStats'.served = globalStats.served
      /\ globalStats'.routed = globalStats.routed
      /\ globalStats'.bySize = globalStats.bySize /\ globalStats'.saturation = globalStats.saturation
      /\ globalStats' \in [attempts : Nat, served : Nat, routed : Nat, bySize : Nat, saturation : Nat]
  BY <1>1, <1>2
<1>5. /\ Cardinality(Underway)' = Cardinality(Underway) + 1
      /\ Cardinality(BeingRouted)' = Cardinality(BeingRouted)
  BY <1>3, StagesChange
<1>6. Cardinality(BeingRouted) \in Nat
  BY AtFinite DEF BeingRouted
<1>7. PICK n \in Int, m \in Int : n = 1 /\ m = 0
  OBVIOUS
<1>8. /\ Cardinality(Underway)' = Cardinality(Underway) + n
      /\ Cardinality(BeingRouted)' = Cardinality(BeingRouted) + m
      /\ globalStats'.attempts - globalStats'.served - globalStats'.routed =
           globalStats.attempts - globalStats.served - globalStats.routed + n
      /\ globalStats'.bySize + globalStats'.saturation - globalStats'.routed =
           globalStats.bySize + globalStats.saturation - globalStats.routed + m
  BY <1>1, <1>4, <1>5, <1>6, <1>7
<1>9. QED
  BY <1>2, <1>3, <1>4, <1>8, GlobalCounted

LEMMA CountServedCounts ==
  ASSUME CountInv, AllocInv', NEW t \in Threads, CountServed(t)
  PROVE  Counters' /\ StatsAddUp'
<1>1. globalStats \in [attempts : Nat, served : Nat, routed : Nat, bySize : Nat, saturation : Nat]
      /\ AllocInv
  BY DEF CountInv, Counters
<1>2. /\ pc[t] = "served" /\ pc' = [pc EXCEPT ![t] = "hit"] /\ op' = op /\ live' = live
      /\ bucketStats' = bucketStats
  BY DEF CountServed
<1>3. /\ pc'[t] = "hit" /\ \A u \in Threads : u # t => pc'[u] = pc[u] /\ op'[u] = op[u]
  BY <1>1, <1>2 DEF AllocInv, Typed
<1>4. /\ globalStats'.attempts = globalStats.attempts /\ globalStats'.served = globalStats.served + 1
      /\ globalStats'.routed = globalStats.routed
      /\ globalStats'.bySize = globalStats.bySize /\ globalStats'.saturation = globalStats.saturation
      /\ globalStats' \in [attempts : Nat, served : Nat, routed : Nat, bySize : Nat, saturation : Nat]
  BY <1>1 DEF CountServed
<1>5. /\ Cardinality(Underway)' = Cardinality(Underway) - 1
      /\ Cardinality(BeingRouted)' = Cardinality(BeingRouted)
  BY <1>2, <1>3, StagesChange
<1>6. Cardinality(Underway) \in Nat /\ Cardinality(BeingRouted) \in Nat
  BY AtFinite DEF Underway, BeingRouted
<1>7. PICK n \in Int, m \in Int : n = -1 /\ m = 0
  OBVIOUS
<1>8. /\ Cardinality(Underway)' = Cardinality(Underway) + n
      /\ Cardinality(BeingRouted)' = Cardinality(BeingRouted) + m
      /\ globalStats'.attempts - globalStats'.served - globalStats'.routed =
           globalStats.attempts - globalStats.served - globalStats.routed + n
      /\ globalStats'.bySize + globalStats'.saturation - globalStats'.routed =
           globalStats.bySize + globalStats.saturation - globalStats.routed + m
  BY <1>1, <1>4, <1>5, <1>6, <1>7
<1>9. QED
  BY <1>2, <1>3, <1>4, <1>8, GlobalCounted

LEMMA RouteCounts ==
  ASSUME CountInv, AllocInv', NEW t \in Threads, Route(t)
  PROVE  Counters' /\ StatsAddUp'
<1>1. globalStats \in [attempts : Nat, served : Nat, routed : Nat, bySize : Nat, saturation : Nat]
      /\ AllocInv
  BY DEF CountInv, Counters
<1>2. /\ pc[t] = "buckets" /\ pc' = [pc EXCEPT ![t] = "routed"] /\ op' = op /\ live' = live
      /\ bucketStats' = bucketStats
  BY DEF Route
<1>3. /\ pc'[t] = "routed" /\ \A u \in Threads : u # t => pc'[u] = pc[u] /\ op'[u] = op[u]
  BY <1>1, <1>2 DEF AllocInv, Typed
<1>4. /\ globalStats'.attempts = globalStats.attempts /\ globalStats'.served = globalStats.served
      /\ globalStats'.routed = globalStats.routed
      /\ \/ globalStats'.bySize = globalStats.bySize + 1 /\ globalStats'.saturation = globalStats.saturation
         \/ globalStats'.bySize = globalStats.bySize /\ globalStats'.saturation = globalStats.saturation + 1
      /\ globalStats' \in [attempts : Nat, served : Nat, routed : Nat, bySize : Nat, saturation : Nat]
  BY <1>1 DEF Route
<1>5. /\ Cardinality(Underway)' = Cardinality(Underway)
      /\ Cardinality(BeingRouted)' = Cardinality(BeingRouted) + 1
  BY <1>2, <1>3, StagesChange
<1>6. Cardinality(Underway) \in Nat /\ Cardinality(BeingRouted) \in Nat
  BY AtFinite DEF Underway, BeingRouted
<1>7. PICK n \in Int, m \in Int : n = 0 /\ m = 1
  OBVIOUS
<1>8. /\ Cardinality(Underway)' = Cardinality(Underway) + n
      /\ Cardinality(BeingRouted)' = Cardinality(BeingRouted) + m
      /\ globalStats'.attempts - globalStats'.served - globalStats'.routed =
           globalStats.attempts - globalStats.served - globalStats.routed + n
      /\ globalStats'.bySize + globalStats'.saturation - globalStats'.routed =
           globalStats.bySize + globalStats.saturation - globalStats.routed + m
  BY <1>1, <1>4, <1>5, <1>6, <1>7
<1>9. QED
  BY <1>2, <1>3, <1>4, <1>8, GlobalCounted

LEMMA CountRoutedCounts ==
  ASSUME CountInv, AllocInv', NEW t \in Threads, CountRouted(t)
  PROVE  Counters' /\ StatsAddUp'
<1>1. globalStats \in [attempts : Nat, served : Nat, routed : Nat, bySize : Nat, saturation : Nat]
      /\ AllocInv
  BY DEF CountInv, Counters
<1>2. /\ pc[t] = "routed" /\ pc' = [pc EXCEPT ![t] = "generic"] /\ op' = op /\ live' = live
      /\ bucketStats' = bucketStats
  BY DEF CountRouted
<1>3. /\ pc'[t] = "generic" /\ \A u \in Threads : u # t => pc'[u] = pc[u] /\ op'[u] = op[u]
  BY <1>1, <1>2 DEF AllocInv, Typed
<1>4. /\ globalStats'.attempts = globalStats.attempts /\ globalStats'.served = globalStats.served
      /\ globalStats'.routed = globalStats.routed + 1
      /\ globalStats'.bySize = globalStats.bySize /\ globalStats'.saturation = globalStats.saturation
      /\ globalStats' \in [attempts : Nat, served : Nat, routed : Nat, bySize : Nat, saturation : Nat]
  BY <1>1 DEF CountRouted
<1>5. /\ Cardinality(Underway)' = Cardinality(Underway) - 1
      /\ Cardinality(BeingRouted)' = Cardinality(BeingRouted) - 1
  BY <1>2, <1>3, StagesChange
<1>6. Cardinality(Underway) \in Nat /\ Cardinality(BeingRouted) \in Nat
  BY AtFinite DEF Underway, BeingRouted
<1>7. PICK n \in Int, m \in Int : n = -1 /\ m = -1
  OBVIOUS
<1>8. /\ Cardinality(Underway)' = Cardinality(Underway) + n
      /\ Cardinality(BeingRouted)' = Cardinality(BeingRouted) + m
      /\ globalStats'.attempts - globalStats'.served - globalStats'.routed =
           globalStats.attempts - globalStats.served - globalStats.routed + n
      /\ globalStats'.bySize + globalStats'.saturation - globalStats'.routed =
           globalStats.bySize + globalStats.saturation - globalStats.routed + m
  BY <1>1, <1>4, <1>5, <1>6, <1>7
<1>9. QED
  BY <1>2, <1>3, <1>4, <1>8, GlobalCounted

LEMMA BucketHitCounts ==
  ASSUME CountInv, AllocInv', NEW t \in Threads, BucketHit(t)
  PROVE  Counters' /\ StatsAddUp'
<1>1. AllocInv /\ pc[t] = "buckets"
  BY DEF CountInv, BucketHit
<1>2. PICK q : op' = [op EXCEPT ![t] = q] /\ pc' = [pc EXCEPT ![t] = "served"] /\ live' = live
  BY DEF BucketHit, Found
<1>3. /\ pc'[t] = "served" /\ \A u \in Threads : u # t => pc'[u] = pc[u] /\ op'[u] = op[u]
  BY <1>1, <1>2 DEF AllocInv, Typed
<1>4. globalStats' = globalStats /\ bucketStats' = bucketStats
  BY DEF BucketHit, stats
<1>5. Counted' = Counted
  BY <1>1, <1>2, <1>3, CountedSame
<1>6. Cardinality(Underway)' = Cardinality(Underway) /\ Cardinality(BeingRouted)' = Cardinality(BeingRouted)
  BY <1>1, <1>3, StagesChange
<1>7. /\ bucketStats' \in [Buckets -> [cacheHit : Nat, hit : Nat, miss : Nat, free : Nat]]
      /\ \A i \in Buckets :
           bucketStats'[i].hit + bucketStats'[i].cacheHit - bucketStats'[i].free = Cardinality(OutOf(i))'
  BY <1>4, <1>5, SameOut, BucketsSame
<1>8. StatsAddUp'
  BY <1>4, <1>6, <1>7, StatsMeaning, StatsMeaningNext DEF CountInv
<1>9. QED
  BY <1>4, <1>7, <1>8 DEF CountInv, Counters

LEMMA CountHitCounts ==
  ASSUME CountInv, AllocInv', NEW t \in Threads, CountHit(t)
  PROVE  Counters' /\ StatsAddUp'
<1>1. AllocInv /\ pc[t] = "hit" /\ UNCHANGED places /\ globalStats' = globalStats
  BY DEF CountInv, CountHit
<1>2. PICK o \in Operations, r \in Blocks :
           /\ o = op[t] /\ r = o.new /\ r # Null /\ r \in PoolBlocks /\ r.bucket = o.index
           /\ r \notin DOMAIN live /\ \A u \in Threads : u # t => op[u].new # r
  BY <1>1, InHand
<1>3. /\ Deliver(t, o, r)
      /\ \/ bucketStats' = [bucketStats EXCEPT ![r.bucket].hit = @ + 1]
         \/ bucketStats' = [bucketStats EXCEPT ![r.bucket].cacheHit = @ + 1]
  BY <1>2 DEF CountHit
<1>4. /\ Counted' = Counted \union {r} /\ r \notin Counted
      /\ pc'[t] \in {"idle", "move", "crashed"} /\ \A u \in Threads : u # t => pc'[u] = pc[u]
  BY <1>1, <1>2, <1>3, CountedDelivered
<1>5. Underway' = Underway /\ BeingRouted' = BeingRouted
  BY <1>1, <1>4, StagesSame
<1>6. /\ bucketStats' \in [Buckets -> [cacheHit : Nat, hit : Nat, miss : Nat, free : Nat]]
      /\ \A i \in Buckets :
           bucketStats'[i].hit + bucketStats'[i].cacheHit - bucketStats'[i].free = Cardinality(OutOf(i))'
  BY <1>2, <1>3, <1>4, BucketCounted
<1>7. QED
  BY <1>1, <1>5, <1>6, NothingCounted

LEMMA AllocCounts ==
  ASSUME WithinAssertion, CountInv, AllocInv', NEW t \in Threads, NEW bytes \in Sizes, NEW a \in Alignments,
         Alloc(t, bytes, a)
  PROVE  Counters' /\ StatsAddUp'
<1>1. pc[t] = "idle" /\ bytes \in Nat \ {0} /\ Typed
  BY AllocatorConstants DEF Alloc, Call, CountInv, AllocInv
<1>2. PICK o \in Operations : o = Request(t, Null, bytes, a)
  BY <1>1, RequestReady
<1>3. Allocate(t, o)
  BY <1>2 DEF Alloc
<1>4. QED
  BY <1>1, <1>3, AllocateCounts

LEMMA ReallocMoveCounts ==
  ASSUME WithinAssertion, CountInv, AllocInv', NEW t \in Threads, NEW p \in DOMAIN live,
         NEW bytes \in Sizes, NEW a \in Alignments, ReallocMove(t, p, bytes, a)
  PROVE  Counters' /\ StatsAddUp'
<1>1. pc[t] = "idle" /\ bytes \in Nat \ {0} /\ Typed /\ Held(p) /\ IsReadable(p)
  BY AllocatorConstants DEF ReallocMove, Call, CountInv, AllocInv
<1>2. p \in Blocks
  BY <1>1, BlockFacts DEF Typed
<1>3. InPool(p) => ElementSize(p.bucket) < bytes
  <2>1. SUFFICES ASSUME InPool(p) PROVE ElementSize(p.bucket) < bytes
    OBVIOUS
  <2>2. ~(bytes <= ElementSize(p.bucket))
    BY <2>1 DEF ReallocMove, Fits
  <2>3. ElementSize(p.bucket) \in Nat
    BY <1>2, <2>1, BlockFacts, SizeFacts
  <2>4. QED
    BY <1>1, <2>2, <2>3
<1>4. PICK o \in Operations : o = Request(t, p, bytes, a)
  BY <1>1, <1>2, <1>3, RequestReady
<1>5. Allocate(t, o)
  BY <1>4 DEF ReallocMove
<1>6. QED
  BY <1>1, <1>5, AllocateCounts

(* A block of malloc's is taken, or none: no bucket counts it. *)
LEMMA GenericCounts ==
  ASSUME CountInv, AllocInv', NEW t \in Threads, NEW o \in Operations,
         pc[t] \in {"idle", "generic"}, GenericAlloc(t, o), UNCHANGED stats
  PROVE  Counters' /\ StatsAddUp'
<1>1. AllocInv /\ globalStats' = globalStats /\ bucketStats' = bucketStats
  BY DEF CountInv, stats
<1>2. PICK r \in unused \union {Null} : Deliver(t, o, r)
  BY DEF GenericAlloc
<1>3. r \in GenericBlocks \union {Null} /\ r \in Blocks \union {Null} /\ r \notin DOMAIN live
  BY <1>1, BlockFacts DEF AllocInv, Typed, Placed
<1>4. \A u \in Threads : r = Null \/ op[u].new # r
  BY <1>1 DEF AllocInv, Placed
<1>5. /\ Counted' = Counted \union ({r} \ {Null})
      /\ pc'[t] \in {"idle", "move", "crashed"} /\ \A u \in Threads : u # t => pc'[u] = pc[u]
  BY <1>1, <1>2, <1>3, <1>4, CountedDelivered
<1>6. \A i \in Buckets : OutOf(i)' = OutOf(i)
  <2>1. CASE r = Null
    <3>1. Counted' = Counted
      BY <1>5, <2>1
    <3>2. QED
      BY <3>1, SameOut
  <2>2. CASE r \in GenericBlocks
    <3>1. Counted' \ {r} = Counted \ {r}
      BY <1>5
    <3>2. QED
      BY <2>2, <3>1, GenericOut
  <2>3. QED
    BY <1>3, <2>1, <2>2
<1>7. Underway' = Underway /\ BeingRouted' = BeingRouted
  BY <1>5, StagesSame
<1>8. QED
  BY <1>1, <1>6, <1>7, BucketsSame, NothingCounted

LEMMA FallbackCounts ==
  ASSUME CountInv, AllocInv', NEW t \in Threads, Fallback(t)
  PROVE  Counters' /\ StatsAddUp'
<1>1. pc[t] = "generic" /\ UNCHANGED stats
  BY DEF Fallback
<1>2. PICK o \in Operations : o = op[t]
  BY DEF CountInv, AllocInv, Typed
<1>3. GenericAlloc(t, o)
  BY <1>2 DEF Fallback
<1>4. QED
  BY <1>1, <1>3, GenericCounts

LEMMA ReallocGenericCounts ==
  ASSUME WithinAssertion, CountInv, AllocInv', NEW t \in Threads, NEW p \in DOMAIN live,
         NEW bytes \in Sizes, NEW a \in Alignments, ReallocGeneric(t, p, bytes, a)
  PROVE  Counters' /\ StatsAddUp'
<1>1. /\ pc[t] = "idle" /\ bytes \in Nat \ {0} /\ Typed /\ Held(p) /\ IsReadable(p) /\ ~InPool(p)
      /\ AllocInv /\ UNCHANGED stats
  BY AllocatorConstants DEF ReallocGeneric, Call, CountInv, AllocInv
<1>2. p \in Blocks
  BY <1>1, BlockFacts DEF Typed
<1>3. PICK o \in Operations : o = Request(t, p, bytes, a)
  BY <1>1, <1>2, RequestReady
<1>4. PICK r : r = [o EXCEPT !.grow = TRUE]
  OBVIOUS
<1>5. r \in Operations
  BY <1>4 DEF Operations
<1>6. GenericAlloc(t, r)
  BY <1>3, <1>4 DEF ReallocGeneric
<1>7. QED
  BY <1>1, <1>5, <1>6, GenericCounts

(* The end of a call counts nothing: its free is counted already. *)
LEMMA ReleaseCounts ==
  ASSUME CountInv, AllocInv', NEW t \in Threads, pc[t] = "release", Released(t)
  PROVE  Counters' /\ StatsAddUp'
<1>1. AllocInv /\ globalStats' = globalStats /\ bucketStats' = bucketStats
  BY DEF CountInv, Released, stats
<1>2. Counted' = Counted /\ pc'[t] = "idle" /\ \A u \in Threads : u # t => pc'[u] = pc[u]
  BY <1>1, CountedReleased
<1>3. Underway' = Underway /\ BeingRouted' = BeingRouted
  BY <1>2, StagesSame
<1>4. QED
  BY <1>1, <1>2, <1>3, SameOut, BucketsSame, NothingCounted

LEMMA InitCounts == Init => CountInv
<1> SUFFICES ASSUME Init PROVE CountInv
  OBVIOUS
<1>1. AllocInv
  BY InitInv
<1>2. Counters
  BY DEF Init, Counters
<1>3. Underway = {} /\ BeingRouted = {}
  BY DEF Init, Underway, BeingRouted, At
<1>4. Counted = {}
  <2>1. DOMAIN live = {} /\ \A t \in Threads : pc[t] = "idle"
    BY DEF Init
  <2>2. \A b \in Blocks : ~IsCounted(b)
    BY <2>1 DEF IsCounted, Brings
  <2>3. QED
    BY <1>1, <2>2, CountedBlocks
<1>5. \A i \in Buckets : OutOf(i) = {}
  BY <1>4 DEF OutOf
<1>6. Cardinality({}) = 0
  BY FS_EmptySet
<1>7. StatsAddUp
  <2>1. /\ globalStats.attempts = 0 /\ globalStats.served = 0 /\ globalStats.routed = 0
        /\ globalStats.bySize = 0 /\ globalStats.saturation = 0
    BY DEF Init
  <2>2. \A i \in Buckets : bucketStats[i].hit = 0 /\ bucketStats[i].cacheHit = 0 /\ bucketStats[i].free = 0
    BY DEF Init
  <2>3. /\ Cardinality(Underway) = 0 /\ Cardinality(BeingRouted) = 0
        /\ \A i \in Buckets : Cardinality(OutOf(i)) = 0
    BY <1>3, <1>5, <1>6
  <2>4. QED
    BY <2>1, <2>2, <2>3, StatsMeaning
<1>8. QED
  BY <1>1, <1>2, <1>7 DEF CountInv

LEMMA NextCounts ==
  ASSUME WithinAssertion, CountInv, [Next]_vars
  PROVE  CountInv'
<1>1. AllocInv'
  BY NextInv DEF CountInv
<1>2. CASE UNCHANGED vars
  <2>1. /\ globalStats' = globalStats /\ bucketStats' = bucketStats
        /\ Underway' = Underway /\ BeingRouted' = BeingRouted /\ Counted' = Counted
    BY <1>2 DEF vars, Underway, BeingRouted, At, Counted, Readable
  <2>2. QED
    BY <1>1, <2>1, SameOut, BucketsSame, NothingCounted DEF CountInv
<1>3. ASSUME NEW t \in Threads, Start(t) PROVE Counters' /\ StatsAddUp'
  BY <1>1, <1>3, AllocZeroCounts, AllocCounts, FreeUnreadableCounts, FreeCounts, ReallocReuseCounts,
     ReallocMoveCounts, ReallocGenericCounts DEF Start
<1>4. ASSUME NEW t \in Threads, Step(t) PROVE Counters' /\ StatsAddUp'
  BY <1>1, <1>4, BucketHitCounts, BucketMissCounts, CountServedCounts, CountHitCounts, RouteCounts,
     CountRoutedCounts, FallbackCounts, MoveCounts, ReleaseCounts
     DEF Step, ReleaseToCache, ReleaseToPool, ReleaseToMalloc
<1>5. QED
  BY <1>1, <1>2, <1>3, <1>4 DEF Next, CountInv

(* The counters add up in every state, though each is added to on its own:  *)
(* but for the calls that are between two additions, which the statement    *)
(* counts, every attempt is served, routed to malloc for one of the two     *)
(* reasons or being worked on, and a bucket's hits less its frees are the   *)
(* blocks the program has of it.                                            *)
THEOREM StatsAlwaysAddUp ==
  ASSUME WithinAssertion
  PROVE  Spec => []StatsAddUp
<1>1. CountInv /\ [Next]_vars => CountInv'
  BY NextCounts
<1>2. CountInv => StatsAddUp
  BY DEF CountInv
<1>3. QED
  BY <1>1, <1>2, InitCounts, PTL DEF Spec
-----------------------------------------------------------------------------
(* The sums that HitsBelow is, as a function. *)
IsHits(f) ==
  /\ f \in [0..bucketsCount -> Int] /\ f[0] = 0
  /\ \A i \in Buckets : f[i + 1] = f[i] + bucketStats[i].hit + bucketStats[i].cacheHit

(* There is such a function, and it ends with what was served, but for the  *)
(* calls whose hit is still to be counted.                                  *)
Summed == \E f : IsHits(f) /\ globalStats.served = f[bucketsCount] + Cardinality(Hitting)

LEMMA HittingFinite == Cardinality(Hitting) \in Nat
BY AtFinite DEF Hitting

LEMMA SummedSame ==
  ASSUME Summed, globalStats'.served = globalStats.served, Hitting' = Hitting,
         \A i \in Buckets : /\ bucketStats'[i].hit = bucketStats[i].hit
                            /\ bucketStats'[i].cacheHit = bucketStats[i].cacheHit
  PROVE  Summed'
BY DEF Summed, IsHits

(* A call that has been counted as served. *)
LEMMA SummedServed ==
  ASSUME Summed, globalStats'.served = globalStats.served + 1,
         Cardinality(Hitting)' = Cardinality(Hitting) + 1, bucketStats' = bucketStats
  PROVE  Summed'
<1>1. PICK f : IsHits(f) /\ globalStats.served = f[bucketsCount] + Cardinality(Hitting)
  BY DEF Summed
<1>2. f[bucketsCount] \in Int /\ Cardinality(Hitting) \in Nat
  <2>1. bucketsCount \in 0..bucketsCount
    BY AllocatorConstants
  <2>2. QED
    BY <1>1, <2>1, HittingFinite DEF IsHits
<1>3. globalStats'.served = f[bucketsCount] + Cardinality(Hitting)'
  BY <1>1, <1>2
<1>4. IsHits(f)'
  BY <1>1 DEF IsHits
<1>5. QED
  BY <1>3, <1>4 DEF Summed

(* A hit of bucket j is in every sum from there on. *)
LEMMA SummedHit ==
  ASSUME Summed, Counters, NEW j \in Buckets, globalStats'.served = globalStats.served,
         Cardinality(Hitting)' = Cardinality(Hitting) - 1,
         \/ bucketStats' = [bucketStats EXCEPT ![j].hit = @ + 1]
         \/ bucketStats' = [bucketStats EXCEPT ![j].cacheHit = @ + 1]
  PROVE  Summed'
<1>1. PICK f : IsHits(f) /\ globalStats.served = f[bucketsCount] + Cardinality(Hitting)
  BY DEF Summed
<1>2. bucketsCount \in Nat \ {0} /\ f \in [0..bucketsCount -> Int] /\ f[0] = 0
  BY <1>1, AllocatorConstants DEF IsHits
<1>3. j \in Nat /\ j < bucketsCount /\ \A i \in Buckets : i \in 0..bucketsCount /\ i + 1 \in 0..bucketsCount
  BY <1>2 DEF Buckets
<1> DEFINE g == [k \in 0..bucketsCount |-> IF k > j THEN f[k] + 1 ELSE f[k]]
<1>4. g \in [0..bucketsCount -> Int] /\ g[0] = 0 /\ g[bucketsCount] = f[bucketsCount] + 1
  BY <1>2, <1>3
<1>5. ASSUME NEW i \in Buckets PROVE g[i + 1] = g[i] + bucketStats'[i].hit + bucketStats'[i].cacheHit
  <2>1. /\ bucketStats[i].hit \in Nat /\ bucketStats[i].cacheHit \in Nat
        /\ bucketStats'[i].hit + bucketStats'[i].cacheHit =
             bucketStats[i].hit + bucketStats[i].cacheHit + (IF i = j THEN 1 ELSE 0)
        /\ bucketStats'[i].hit \in Nat /\ bucketStats'[i].cacheHit \in Nat
    <3>1. bucketStats \in [Buckets -> [cacheHit : Nat, hit : Nat, miss : Nat, free : Nat]]
      BY DEF Counters
    <3>2. CASE i = j
      <4>1. \/ /\ bucketStats'[i].hit = bucketStats[i].hit + 1
               /\ bucketStats'[i].cacheHit = bucketStats[i].cacheHit
            \/ /\ bucketStats'[i].hit = bucketStats[i].hit
               /\ bucketStats'[i].cacheHit = bucketStats[i].cacheHit + 1
        BY <3>1, <3>2
      <4>2. bucketStats[i].hit \in Nat /\ bucketStats[i].cacheHit \in Nat
        BY <3>1
      <4>3. QED
        BY <3>2, <4>1, <4>2
    <3>3. CASE i # j
      <4>1. bucketStats'[i] = bucketStats[i]
        BY <3>1, <3>3
      <4>2. bucketStats[i].hit \in Nat /\ bucketStats[i].cacheHit \in Nat
        BY <3>1
      <4>3. QED
        BY <3>3, <4>1, <4>2
    <3>4. QED
      BY <3>2, <3>3
  <2>2. f[i + 1] = f[i] + bucketStats[i].hit + bucketStats[i].cacheHit
    BY <1>1 DEF IsHits
  <2>3. f[i] \in Int /\ f[i + 1] \in Int /\ i \in Nat
    BY <1>2, <1>3 DEF Buckets
  <2>4. /\ g[i + 1] = IF i + 1 > j THEN f[i + 1] + 1 ELSE f[i + 1]
        /\ g[i] = IF i > j THEN f[i] + 1 ELSE f[i]
    BY <1>3
  <2> HIDE DEF g
  <2> DEFINE h == bucketStats[i].hit
             c == bucketStats[i].cacheHit
             hh == bucketStats'[i].hit
             cc == bucketStats'[i].cacheHit
             x == f[i]
             y == f[i + 1]
             u == g[i]
             v == g[i + 1]
  <2>5. /\ h \in Nat /\ c \in Nat /\ hh \in Nat /\ cc \in Nat /\ x \in Int /\ y \in Int
        /\ hh + cc = h + c + (IF i = j THEN 1 ELSE 0) /\ y = x + h + c
        /\ v = (IF i + 1 > j THEN y + 1 ELSE y) /\ u = (IF i > j THEN x + 1 ELSE x)
    BY <2>1, <2>2, <2>3, <2>4
  <2> HIDE DEF h, c, hh, cc, x, y, u, v
  <2>6. v = u + hh + cc
    BY <1>3, <2>3, <2>5
  <2>7. QED
    BY <2>6 DEF hh, cc, u, v
<1> HIDE DEF g
<1>6. globalStats'.served = g[bucketsCount] + Cardinality(Hitting)'
  <2>1. f[bucketsCount] \in Int /\ Cardinality(Hitting) \in Nat
    BY <1>2, HittingFinite
  <2>2. QED
    BY <1>1, <1>4, <2>1
<1>7. IsHits(g)'
  BY <1>4, <1>5 DEF IsHits
<1>8. QED
  BY <1>6, <1>7 DEF Summed

(* HitsBelow is the one function with these sums. *)
LEMMA SummedIs ==
  ASSUME Summed
  PROVE  HitsAddUp
<1>1. PICK f : IsHits(f) /\ globalStats.served = f[bucketsCount] + Cardinality(Hitting)
  BY DEF Summed
<1>2. bucketsCount \in Nat \ {0} /\ f \in [0..bucketsCount -> Int] /\ f[0] = 0
  BY <1>1, AllocatorConstants DEF IsHits
<1> DEFINE Sum(h) == [i \in 0..bucketsCount |->
                        IF i = 0 THEN 0
                        ELSE h[i - 1] + bucketStats[i - 1].hit + bucketStats[i - 1].cacheHit]
<1>3. ASSUME NEW i \in 0..bucketsCount, i # 0
      PROVE  /\ i - 1 \in 0..bucketsCount
             /\ f[i] = f[i - 1] + bucketStats[i - 1].hit + bucketStats[i - 1].cacheHit
  <2>1. PICK k \in Buckets : i = k + 1
    <3>1. i - 1 \in Buckets /\ i = (i - 1) + 1
      BY <1>2, <1>3 DEF Buckets
    <3>2. QED
      BY <3>1
  <2>2. f[k + 1] = f[k] + bucketStats[k].hit + bucketStats[k].cacheHit
    BY <1>1 DEF IsHits
  <2>3. i - 1 = k /\ k \in 0..bucketsCount
    BY <1>2, <2>1 DEF Buckets
  <2>4. QED
    BY <2>1, <2>2, <2>3
<1>4. f = Sum(f)
  BY <1>2, <1>3
<1>5. HitsBelow = Sum(HitsBelow)
  BY <1>4 DEF HitsBelow
<1>6. \A k \in 0..bucketsCount : HitsBelow[k] = f[k]
  <2> DEFINE D == {k \in 0..bucketsCount : HitsBelow[k] # f[k]}
  <2> SUFFICES ASSUME D # {} PROVE FALSE
    OBVIOUS
  <2>1. D \in SUBSET Nat
    BY <1>2
  <2> HIDE DEF D
  <2>2. PICK m \in D : \A k \in D : m <= k
    BY <2>1, HasLeast
  <2>3. m \in 0..bucketsCount /\ HitsBelow[m] # f[m]
    BY <2>2 DEF D
  <2>4. m # 0
    BY <1>2, <1>5, <2>3
  <2>5. m - 1 \in 0..bucketsCount /\ ~(m <= m - 1)
    BY <1>2, <2>3, <2>4
  <2>6. HitsBelow[m - 1] = f[m - 1]
    BY <2>2, <2>5 DEF D
  <2>7. HitsBelow[m] = HitsBelow[m - 1] + bucketStats[m - 1].hit + bucketStats[m - 1].cacheHit
    BY <1>5, <2>3, <2>4
  <2>8. QED
    BY <1>3, <2>3, <2>4, <2>6, <2>7
<1>7. bucketsCount \in 0..bucketsCount
  BY <1>2
<1>8. QED
  BY <1>1, <1>6, <1>7 DEF HitsAddUp, Hitting

(* A thread that was not about to count a hit, and is not. *)
LEMMA HittingSame ==
  ASSUME NEW t \in Threads, \A u \in Threads : u # t => pc'[u] = pc[u], pc[t] # "hit", pc'[t] # "hit"
  PROVE  Hitting' = Hitting
<1>1. PICK S : S = {"hit"}
  OBVIOUS
<1>2. At(S)' = At(S)
  BY <1>1, AtSame
<1>3. QED
  BY <1>1, <1>2 DEF Hitting

LEMMA SummedUncounted ==
  ASSUME Summed, UNCHANGED stats, Hitting' = Hitting
  PROVE  Summed'
BY SummedSame DEF stats

LEMMA SummedAllocate ==
  ASSUME CountInv, Summed, NEW t \in Threads, NEW o, pc[t] = "idle", Allocate(t, o)
  PROVE  Summed'
<1>1. /\ globalStats \in [attempts : Nat, served : Nat, routed : Nat, bySize : Nat, saturation : Nat]
      /\ pc \in [Threads -> Stages]
  BY DEF CountInv, Counters, AllocInv, Typed
<1>2. /\ globalStats' = [globalStats EXCEPT !.attempts = @ + 1] /\ bucketStats' = bucketStats
      /\ \E s \in {"served", "buckets"} : pc' = [pc EXCEPT ![t] = s]
  BY DEF Allocate, AllocateFromCache, AllocateFromPools, Found
<1>3. pc'[t] # "hit" /\ \A u \in Threads : u # t => pc'[u] = pc[u]
  BY <1>1, <1>2
<1>4. Hitting' = Hitting
  BY <1>3, HittingSame
<1>5. globalStats'.served = globalStats.served
  BY <1>1, <1>2
<1>6. QED
  BY <1>2, <1>4, <1>5, SummedSame

(* An addition to the frees, or none. *)
LEMMA SummedFree ==
  ASSUME CountInv, Summed, NEW p, CountFree(p), globalStats' = globalStats, Hitting' = Hitting
  PROVE  Summed'
<1>1. bucketStats \in [Buckets -> [cacheHit : Nat, hit : Nat, miss : Nat, free : Nat]]
  BY DEF CountInv, Counters
<1>2. PICK x : x = p.bucket
  OBVIOUS
<1>3. bucketStats' = [bucketStats EXCEPT ![x].free = @ + 1] \/ bucketStats' = bucketStats
  BY <1>2 DEF CountFree
<1>4. \A i \in Buckets : /\ bucketStats'[i].hit = bucketStats[i].hit
                         /\ bucketStats'[i].cacheHit = bucketStats[i].cacheHit
  BY <1>1, <1>3
<1>5. QED
  BY <1>4, SummedSame

LEMMA SummedStep ==
  ASSUME CountInv, Summed, NEW t \in Threads, Step(t)
  PROVE  Summed'
<1>1. /\ globalStats \in [attempts : Nat, served : Nat, routed : Nat, bySize : Nat, saturation : Nat]
      /\ bucketStats \in [Buckets -> [cacheHit : Nat, hit : Nat, miss : Nat, free : Nat]]
      /\ pc \in [Threads -> Stages]
  BY DEF CountInv, Counters, AllocInv, Typed
<1>2. CASE BucketHit(t)
  <2>1. pc[t] = "buckets" /\ pc' = [pc EXCEPT ![t] = "served"] /\ UNCHANGED stats
    BY <1>2 DEF BucketHit, Found
  <2>2. Hitting' = Hitting
    BY <1>1, <2>1, HittingSame
  <2>3. QED
    BY <2>1, <2>2, SummedUncounted
<1>3. CASE BucketMiss(t)
  <2>1. PICK x : x = op[t].index
    OBVIOUS
  <2>2. bucketStats' = [bucketStats EXCEPT ![x].miss = @ + 1] /\ globalStats' = globalStats /\ pc' = pc
    BY <1>3, <2>1 DEF BucketMiss
  <2>3. \A i \in Buckets : /\ bucketStats'[i].hit = bucketStats[i].hit
                           /\ bucketStats'[i].cacheHit = bucketStats[i].cacheHit
    BY <1>1, <2>2
  <2>4. Hitting' = Hitting
    BY <2>2 DEF Hitting, At
  <2>5. QED
    BY <2>2, <2>3, <2>4, SummedSame
<1>4. CASE CountServed(t)
  <2>1. /\ pc[t] = "served" /\ pc' = [pc EXCEPT ![t] = "hit"] /\ bucketStats' = bucketStats
        /\ globalStats' = [globalStats EXCEPT !.served = @ + 1]
    BY <1>4 DEF CountServed
  <2>2. PICK S : S = {"hit"}
    OBVIOUS
  <2>3. pc[t] \notin S /\ pc'[t] \in S /\ \A u \in Threads : u # t => pc'[u] = pc[u]
    BY <1>1, <2>1, <2>2
  <2>4. Cardinality(At(S))' = Cardinality(At(S)) + 1
    BY <2>3, AtEntered
  <2>5. Cardinality(Hitting)' = Cardinality(Hitting) + 1
    BY <2>2, <2>4 DEF Hitting
  <2>6. globalStats'.served = globalStats.served + 1
    BY <1>1, <2>1
  <2>7. QED
    BY <2>1, <2>5, <2>6, SummedServed
<1>5. CASE CountHit(t)
  <2>1. PICK j : j = op[t].index
    OBVIOUS
  <2>2. /\ pc[t] = "hit" /\ globalStats' = globalStats
        /\ \/ bucketStats' = [bucketStats EXCEPT ![j].hit = @ + 1]
           \/ bucketStats' = [bucketStats EXCEPT ![j].cacheHit = @ + 1]
        /\ Deliver(t, op[t], op[t].new)
    BY <1>5, <2>1 DEF CountHit
  <2>3. j \in Buckets
    BY <2>1, <2>2, BlockFacts DEF CountInv, AllocInv, Working
  <2>4. PICK S : S = {"hit"}
    OBVIOUS
  <2>5. pc[t] \in S /\ pc'[t] \notin S /\ \A u \in Threads : u # t => pc'[u] = pc[u]
    BY <1>1, <2>2, <2>4 DEF Deliver, Idle
  <2>6. Cardinality(At(S))' = Cardinality(At(S)) - 1
    BY <2>5, AtLeft
  <2>7. Cardinality(Hitting)' = Cardinality(Hitting) - 1
    BY <2>4, <2>6 DEF Hitting
  <2>8. globalStats'.served = globalStats.served /\ Counters
    BY <2>2 DEF CountInv
  <2>9. QED
    BY <2>2, <2>3, <2>7, <2>8, SummedHit
<1>6. CASE Route(t) \/ CountRouted(t)
  <2>1. /\ globalStats'.served = globalStats.served /\ bucketStats' = bucketStats
        /\ pc[t] # "hit" /\ \E s \in {"routed", "generic"} : pc' = [pc EXCEPT ![t] = s]
    BY <1>1, <1>6 DEF Route, CountRouted
  <2>2. Hitting' = Hitting
    BY <1>1, <2>1, HittingSame
  <2>3. QED
    BY <2>1, <2>2, SummedSame
<1>7. CASE Fallback(t)
  <2>1. /\ pc[t] = "generic" /\ UNCHANGED stats /\ \E r : Deliver(t, op[t], r)
    BY <1>7 DEF Fallback, GenericAlloc
  <2>2. pc'[t] # "hit" /\ \A u \in Threads : u # t => pc'[u] = pc[u]
    BY <1>1, <2>1 DEF Deliver, Idle
  <2>3. Hitting' = Hitting
    BY <2>1, <2>2, HittingSame
  <2>4. QED
    BY <2>1, <2>3, SummedUncounted
<1>8. CASE Move(t)
  <2>1. /\ pc[t] = "move" /\ pc' = [pc EXCEPT ![t] = "release"] /\ globalStats' = globalStats
        /\ CountFree(op[t].old)
    BY <1>8 DEF Move
  <2>2. PICK p : p = op[t].old
    OBVIOUS
  <2>3. CountFree(p)
    BY <2>1, <2>2
  <2>4. Hitting' = Hitting
    BY <1>1, <2>1, HittingSame
  <2>5. QED
    BY <2>1, <2>3, <2>4, SummedFree
<1>9. CASE ReleaseToCache(t) \/ ReleaseToPool(t) \/ ReleaseToMalloc(t)
  <2>1. pc[t] = "release" /\ pc' = [pc EXCEPT ![t] = "idle"] /\ UNCHANGED stats
    BY <1>9 DEF ReleaseToCache, ReleaseToPool, ReleaseToMalloc, Released, Idle
  <2>2. Hitting' = Hitting
    BY <1>1, <2>1, HittingSame
  <2>3. QED
    BY <2>1, <2>2, SummedUncounted
<1>10. QED
  BY <1>2, <1>3, <1>4, <1>5, <1>6, <1>7, <1>8, <1>9 DEF Step

LEMMA SummedStart ==
  ASSUME CountInv, Summed, NEW t \in Threads, Start(t)
  PROVE  Summed'
<1>1. pc \in [Threads -> Stages]
  BY DEF CountInv, AllocInv, Typed
<1>2. pc' = pc => Hitting' = Hitting
  BY DEF Hitting, At
<1>3. ASSUME NEW a, AllocZero(t, a) PROVE Summed'
  BY <1>2, <1>3, SummedUncounted DEF AllocZero
<1>4. ASSUME NEW p, FreeUnreadable(t, p) PROVE Summed'
  BY <1>2, <1>4, SummedUncounted DEF FreeUnreadable
<1>5. ASSUME NEW p, Free(t, p) PROVE Summed'
  <2>1. /\ pc[t] = "idle" /\ pc' = [pc EXCEPT ![t] = "release"] /\ globalStats' = globalStats
        /\ CountFree(p)
    BY <1>5 DEF Free, Call
  <2>2. Hitting' = Hitting
    BY <1>1, <2>1, HittingSame
  <2>3. QED
    BY <2>1, <2>2, SummedFree
<1>6. ASSUME NEW p, NEW bytes, NEW a, ReallocReuse(t, p, bytes, a) PROVE Summed'
  BY <1>2, <1>6, SummedUncounted DEF ReallocReuse
<1>7. ASSUME NEW p, NEW bytes, NEW a, ReallocGeneric(t, p, bytes, a) PROVE Summed'
  <2>1. pc[t] = "idle" /\ UNCHANGED stats /\ \E o, r : Deliver(t, o, r)
    BY <1>7 DEF ReallocGeneric, GenericAlloc, Call
  <2>2. pc'[t] # "hit" /\ \A u \in Threads : u # t => pc'[u] = pc[u]
    BY <1>1, <2>1 DEF Deliver, Idle
  <2>3. Hitting' = Hitting
    BY <2>1, <2>2, HittingSame
  <2>4. QED
    BY <2>1, <2>3, SummedUncounted
<1>8. ASSUME NEW bytes, NEW a, Alloc(t, bytes, a) PROVE Summed'
  <2>1. PICK o : o = Request(t, Null, bytes, a)
    OBVIOUS
  <2>2. pc[t] = "idle" /\ Allocate(t, o)
    BY <1>8, <2>1 DEF Alloc, Call
  <2>3. QED
    BY <2>2, SummedAllocate
<1>9. ASSUME NEW p, NEW bytes, NEW a, ReallocMove(t, p, bytes, a) PROVE Summed'
  <2>1. PICK o : o = Request(t, p, bytes, a)
    OBVIOUS
  <2>2. pc[t] = "idle" /\ Allocate(t, o)
    BY <1>9, <2>1 DEF ReallocMove, Call
  <2>3. QED
    BY <2>2, SummedAllocate
<1>10. QED
  BY <1>3, <1>4, <1>5, <1>6, <1>7, <1>8, <1>9 DEF Start

LEMMA SummedInit == Init => Summed
<1> SUFFICES ASSUME Init PROVE Summed
  OBVIOUS
<1>1. /\ globalStats.served = 0 /\ bucketsCount \in Nat \ {0}
      /\ \A i \in Buckets : bucketStats[i].hit = 0 /\ bucketStats[i].cacheHit = 0
  BY AllocatorConstants DEF Init
<1> DEFINE f == [k \in 0..bucketsCount |-> 0]
<1>2. f \in [0..bucketsCount -> Int] /\ f[0] = 0 /\ f[bucketsCount] = 0
  BY <1>1
<1>3. \A i \in Buckets : f[i] = 0 /\ f[i + 1] = 0
  BY <1>1 DEF Buckets
<1> HIDE DEF f
<1>4. IsHits(f)
  BY <1>1, <1>2, <1>3 DEF IsHits
<1>5. Hitting = {}
  BY DEF Init, Hitting, At
<1>6. Cardinality(Hitting) = 0
  BY <1>5, FS_EmptySet
<1>7. QED
  BY <1>1, <1>2, <1>4, <1>6 DEF Summed

(* served, which the threads count before the hit of the bucket, is the sum *)
(* of the hits and of the calls between the two, at all times and for any   *)
(* number of buckets.                                                       *)
THEOREM HitsAlwaysAddUp ==
  ASSUME WithinAssertion
  PROVE  Spec => []HitsAddUp
<1> DEFINE Inv == CountInv /\ Summed
<1>1. Init => Inv
  BY InitCounts, SummedInit
<1>2. Inv /\ [Next]_vars => Inv'
  <2> SUFFICES ASSUME CountInv, Summed, [Next]_vars PROVE Inv'
    OBVIOUS
  <2>1. CountInv'
    BY NextCounts
  <2>2. Summed'
    <3>1. CASE UNCHANGED vars
      BY <3>1, SummedUncounted DEF vars, stats, Hitting, At
    <3>2. QED
      BY <3>1, SummedStart, SummedStep DEF Next
  <2>3. QED
    BY <2>1, <2>2
<1>3. Inv => HitsAddUp
  BY SummedIs
<1>4. QED
  BY <1>1, <1>2, <1>3, PTL DEF Spec
=============================================================================
