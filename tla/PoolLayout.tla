------------------------------ MODULE PoolLayout ------------------------------
(***************************************************************************)
(* Allocator::Init and PoolBucket::Create (SmMalloc/smmalloc.cpp): one     *)
(* buffer is cut into equal buckets, each bucket into blocks of its size,  *)
(* and the blocks are linked into the list that PoolBucket starts from.    *)
(* FindBucket(), GetBucketIndex() and GetBucketElementsCount() read the    *)
(* result back from addresses and sizes alone.                             *)
(***************************************************************************)
EXTENDS Partitioning, Integers, Sequences

CONSTANTS
  Scheme,          \* the partitioning compiled in
  MaxBucketCount,  \* SMM_MAX_BUCKET_COUNT
  Counts,          \* the bucketsCount values Init() may be given
  Sizes,           \* the bucketSizeInBytes values it may be given
  Base,            \* where the generic allocator puts the buffer
  AddressSpace,    \* addresses are below it: 2^64 in the code
  UintRange        \* offsets, tags and counts are below it: 2^32, as uint32_t in the code

ASSUME LayoutConstants ==
  /\ Scheme \in {"linear", "pl", "float"}
  /\ MaxBucketCount \in Nat \ {0}
  /\ Counts \subseteq Nat
  /\ Sizes \subseteq Nat \ {0}
  /\ UintRange \in Nat \ {0}
  /\ AddressSpace \in Nat /\ IsAligned(AddressSpace, kMaxValidAlignment)
  /\ Base \in 1..(AddressSpace - 1) /\ IsAligned(Base, kMaxValidAlignment)
  /\ \A n \in Counts, s \in Sizes : Base + n * Align(s, kMaxValidAlignment) <= AddressSpace

VARIABLES
  bucketsCount,       \* 0 until Init() has run
  bucketSizeInBytes,
  bucket,             \* Init(): the loop variable i
  node,               \* Create(): the block being linked, as an offset
  globalTag,          \* per bucket
  head,               \* per bucket
  links               \* per bucket, the words written into its blocks, in order

vars == <<bucketsCount, bucketSizeInBytes, bucket, node, globalTag, head, links>>

Buckets == 0..(MaxBucketCount - 1)
Invalid == [tag |-> -1, offset |-> -1]
ElementSize(i) == GetBucketSizeInBytesByIndex(Scheme, i)

(* The conversion of a size or a distance to uint32_t. *)
Uint(x) == x % UintRange

Lesser(a, b) == IF a < b THEN a ELSE b

Init ==
  /\ bucketsCount = 0
  /\ bucketSizeInBytes = 0
  /\ bucket = 0
  /\ node = 0
  /\ globalTag = [i \in Buckets |-> 0]
  /\ head = [i \in Buckets |-> Invalid]
  /\ links = [i \in Buckets |-> <<>>]

(* Create() starts on a bucket: the head is its first block, with tag 0. *)
CreateHead(i) ==
  /\ node' = 0
  /\ head' = [head EXCEPT ![i] = [tag |-> 0, offset |-> 0]]

(* Allocator::Init(): the second call returns early, and so does one with   *)
(* no buckets; otherwise the sizes are fixed and the first bucket created.  *)
InitAllocator(n, s) ==
  /\ bucketsCount = 0
  /\ n # 0
  /\ bucketsCount' = Lesser(n, MaxBucketCount)
  /\ bucketSizeInBytes' = Align(s, kMaxValidAlignment)
  /\ bucket' = 0
  /\ CreateHead(0)
  /\ UNCHANGED <<globalTag, links>>

(* Mutant: room for the next block is not looked for. *)
NextFitsTooFar(i) == node + ElementSize(i) <= bucketSizeInBytes

(* Create(): the block after the next one would still end in the bucket. *)
NextFits(i) == node + 2 * ElementSize(i) <= bucketSizeInBytes

(* Mutant: the counter is advanced before the link is written. *)
CreateLinkTagFirst ==
  /\ bucket < bucketsCount
  /\ NextFits(bucket)
  /\ links' = [links EXCEPT ![bucket] =
                 Append(@, [tag |-> Uint(globalTag[bucket] + 1), offset |-> Uint(node + ElementSize(bucket))])]
  /\ node' = node + ElementSize(bucket)
  /\ globalTag' = [globalTag EXCEPT ![bucket] = Uint(@ + 1)]
  /\ UNCHANGED <<bucketsCount, bucketSizeInBytes, bucket, head>>

(* Create(): a block is linked to the one after it, by an offset that keeps *)
(* 32 bits.                                                                 *)
CreateLink ==
  /\ bucket < bucketsCount
  /\ NextFits(bucket)
  /\ links' = [links EXCEPT ![bucket] =
                 Append(@, [tag |-> globalTag[bucket], offset |-> Uint(node + ElementSize(bucket))])]
  /\ node' = node + ElementSize(bucket)
  /\ globalTag' = [globalTag EXCEPT ![bucket] = Uint(@ + 1)]
  /\ UNCHANGED <<bucketsCount, bucketSizeInBytes, bucket, head>>

(* Create(): the last block ends the list, and Init() goes to the next      *)
(* bucket.                                                                  *)
CreateLast ==
  /\ bucket < bucketsCount
  /\ ~NextFits(bucket)
  /\ links' = [links EXCEPT ![bucket] = Append(@, Invalid)]
  /\ bucket' = bucket + 1
  /\ IF bucket + 1 < bucketsCount THEN CreateHead(bucket + 1) ELSE UNCHANGED <<node, head>>
  /\ UNCHANGED <<bucketsCount, bucketSizeInBytes, globalTag>>

Next ==
  \/ \E n \in Counts, s \in Sizes : InitAllocator(n, s)
  \/ CreateLink
  \/ CreateLast

Spec == Init /\ [][Next]_vars
-----------------------------------------------------------------------------
(* Mutant: the distance to the buffer keeps its sign. *)
FindBucketSigned(p) == (p - Base) \div bucketSizeInBytes

(* The bucket an address falls into, by unsigned arithmetic. *)
FindBucket(p) == ((p - Base) % AddressSpace) \div bucketSizeInBytes

(* GetBucketIndex(): IsMyAlloc(), whose pBufferEnd is one byte too far, and *)
(* then the range of the index.                                             *)
GetBucketIndex(p) ==
  IF /\ p >= Base
     /\ p < Base + bucketsCount * bucketSizeInBytes + 1
     /\ FindBucket(p) < bucketsCount
  THEN FindBucket(p)
  ELSE -1

GetBucketElementsCount(i) ==
  IF i >= bucketsCount THEN 0 ELSE Uint(bucketSizeInBytes \div ElementSize(i))
-----------------------------------------------------------------------------
Created == 0..(bucket - 1)
Ready == bucketsCount > 0 /\ bucket = bucketsCount
BlockOffset(i, k) == (k - 1) * ElementSize(i)
BlockAddress(i, k) == Base + i * bucketSizeInBytes + BlockOffset(i, k)
BufferEnd == Base + bucketsCount * bucketSizeInBytes

TypeOK ==
  /\ bucketsCount \in 0..MaxBucketCount
  /\ bucketSizeInBytes \in Nat
  /\ bucket \in 0..bucketsCount
  /\ node \in Nat
  /\ globalTag \in [Buckets -> Nat]

(* The list Create() leaves is the one PoolBucket.tla starts from: the head *)
(* is the first block with tag 0, the k-th block links to the next one      *)
(* with tag k - 1, the last one to nothing, and globalTag is one below the  *)
(* number of blocks.                                                        *)
ListAsAssumed ==
  \A i \in Created :
    LET n == Len(links[i])
    IN  /\ n > 0
        /\ head[i] = [tag |-> 0, offset |-> 0]
        /\ globalTag[i] = n - 1
        /\ \A k \in 1..n : links[i][k] =
             IF k = n THEN Invalid ELSE [tag |-> k - 1, offset |-> BlockOffset(i, k + 1)]

(* Every block lies inside its bucket: no two buckets share memory.         *)
BlocksInsideBucket ==
  \A i \in Created : BlockOffset(i, Len(links[i])) + ElementSize(i) <= bucketSizeInBytes

(* smmalloc_test02.cpp drains every bucket and expects as many blocks as    *)
(* GetBucketElementsCount() says.                                           *)
CountAsReported ==
  \A i \in Created : Len(links[i]) = GetBucketElementsCount(i)

(* The address of any block leads back to its bucket, which is how Free()   *)
(* finds the list the block belongs to.                                     *)
BlocksFound ==
  Ready =>
    \A i \in Created : \A k \in 1..Len(links[i]) :
      /\ FindBucket(BlockAddress(i, k)) = i
      /\ FindBucket(BlockAddress(i, k) + ElementSize(i) - 1) = i
      /\ GetBucketIndex(BlockAddress(i, k)) = i

(* The addresses looked at outside the buffer: every page, its neighbours,  *)
(* and both ends of the buffer.                                             *)
Outside ==
  {p \in UNION {{q * kMaxValidAlignment - 1, q * kMaxValidAlignment, q * kMaxValidAlignment + 16} :
                  q \in 1..((AddressSpace - 1) \div kMaxValidAlignment)} :
     p < Base \/ p >= BufferEnd}

(* The comment in FindBucket(): an address below the buffer overflows to a  *)
(* huge index, one above it gives a large one, and neither is a bucket's,   *)
(* so Free() gives it to the generic allocator.                             *)
StrangersNotFound ==
  Ready => \A p \in Outside : FindBucket(p) >= bucketsCount /\ GetBucketIndex(p) = -1
=============================================================================
