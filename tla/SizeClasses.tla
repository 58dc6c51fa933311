----------------------------- MODULE SizeClasses -----------------------------
(***************************************************************************)
(* How the start of Allocator::Allocate (SmMalloc/smmalloc.h) uses the     *)
(* partitioning compiled in: it rounds the request up to its alignment and *)
(* takes the bucket of the result.  The state is one request; a behaviour  *)
(* walks through the requests up to MaxSize.                               *)
(***************************************************************************)
EXTENDS Partitioning, Integers, Sequences

CONSTANTS
  Schemes,     \* the partitionings looked at
  Alignments,  \* powers of two, up to kMaxValidAlignment
  MaxSize      \* bound: the largest request looked at

ASSUME SizeConstants ==
  /\ Schemes \subseteq {"linear", "pl", "float"}
  /\ Alignments \subseteq {1, 2, 4, 8, 16, 32, 64, 128, 256, 512, 1024, 2048, 4096}
  /\ MaxSize \in Nat \ {0}

VARIABLES scheme, alignment, bytesCount

vars == <<scheme, alignment, bytesCount>>

(* A request with its size rounded up to the alignment, as Allocate() does. *)
Rounded == Align(bytesCount, alignment)
Bucket == GetBucketIndexBySize(scheme, Rounded)
BlockSize == GetBucketSizeInBytesByIndex(scheme, Bucket)

Init ==
  /\ scheme \in Schemes
  /\ alignment \in Alignments
  /\ bytesCount = 1

NextRequest ==
  /\ bytesCount < MaxSize
  /\ bytesCount' = bytesCount + 1
  /\ UNCHANGED <<scheme, alignment>>

Next == NextRequest

Spec == Init /\ [][Next]_vars
-----------------------------------------------------------------------------
TypeOK ==
  /\ scheme \in Schemes
  /\ alignment \in Alignments
  /\ bytesCount \in 1..MaxSize

(* The two functions fit each other: a block of the bucket that            *)
(* GetBucketIndexBySize() chooses holds the request, and a block of the    *)
(* bucket below it would not.  Realloc() relies on the first when it       *)
(* compares a size with the block's, Allocate() on both.                   *)
BestFit ==
  /\ BlockSize >= bytesCount
  /\ Bucket > 0 => GetBucketSizeInBytesByIndex(scheme, Bucket - 1) < Rounded

(* Allocate() checks the alignment of the blocks when it overflows into    *)
(* another bucket, never of the first bucket.  It need not: the size of    *)
(* the blocks of that bucket is a multiple of the alignment, and the data  *)
(* of a bucket starts at a multiple of kMaxValidAlignment.                 *)
FirstBucketAligned == IsAligned(BlockSize, alignment)

(* Blocks grow from bucket to bucket: the buckets that Allocate() may try   *)
(* after the first one, at most three, hold the request too.                *)
BlocksGrow ==
  \A k \in 1..3 :
    GetBucketSizeInBytesByIndex(scheme, Bucket + k)
      > GetBucketSizeInBytesByIndex(scheme, Bucket + k - 1)

(* The loop in which Allocate() looks for the next bucket with aligned      *)
(* blocks has no bound of its own: it ends because there always is one.     *)
OverflowLoopEnds ==
  \E k \in 1..256 : IsAligned(GetBucketSizeInBytesByIndex(scheme, Bucket + k), alignment)

(* The tables in the comments on the partitionings. *)
LinearTable == [i \in 1..62 |-> i * 16]

PLFirst ==
  <<16, 32, 48, 64, 80, 96, 112, 128, 256, 384, 512, 640, 768, 896, 1024>>
PLTable ==
  [i \in 1..62 |-> IF i <= Len(PLFirst) THEN PLFirst[i] ELSE 1024 + (i - Len(PLFirst)) * 512]

FloatTable ==
  <<16, 20, 24, 28, 32, 40, 48, 56, 64, 80, 96, 112, 128, 160, 192, 224, 256, 320, 384, 448,
    512, 640, 768, 896, 1024, 1280, 1536, 1792, 2048, 2560, 3072, 3584, 4096, 5120, 6144,
    7168, 8192, 10240, 12288, 14336, 16384, 20480, 24576, 28672, 32768, 40960, 49152, 57344,
    65536, 81920, 98304, 114688, 131072, 163840, 196608, 229376, 262144, 327680, 393216,
    458752, 524288, 655360>>

Table(sc) ==
  CASE sc = "linear" -> LinearTable
    [] sc = "pl"     -> PLTable
    [] sc = "float"  -> FloatTable

(* The request is served from the first entry of the documented table of   *)
(* its scheme that holds it.                                               *)
AsDocumented ==
  Bucket < Len(Table(scheme)) =>
    /\ BlockSize = Table(scheme)[Bucket + 1]
    /\ Bucket > 0 => Table(scheme)[Bucket] < Rounded
=============================================================================
