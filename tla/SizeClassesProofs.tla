-------------------------- MODULE SizeClassesProofs --------------------------
(***************************************************************************)
(* The three partitionings are right for requests of every size, or, for   *)
(* the float one, of every size that its assertion lets through: TLC looks *)
(* at the sizes up to a bound.                                             *)
(***************************************************************************)
EXTENDS SizeClasses, PartitioningProofs

(* The assertion in GetBucketIndexBySize() that the float partitioning       *)
(* makes: a rounded size is below UINT32_MAX.                                *)
WithinAssertion ==
  "float" \in Schemes => \A a \in Alignments : Align(MaxSize, a) < Power[32] - 1

(* What one request gets, whichever scheme is compiled in. *)
SchemeOK == BestFit /\ FirstBucketAligned /\ BlocksGrow /\ OverflowLoopEnds

LEMMA RoundedInRange ==
  ASSUME WithinAssertion, TypeOK, scheme = "float"
  PROVE  Rounded < Power[32]
<1>1. alignment \in PowersOfTwo /\ bytesCount \in 1..MaxSize /\ MaxSize \in Nat
  BY SizeConstants DEF TypeOK, PowersOfTwo
<1>2. Align(MaxSize, alignment) < Power[32] - 1
  BY DEF WithinAssertion, TypeOK
<1>3. Align(bytesCount, alignment) <= Align(MaxSize, alignment)
  BY <1>1, SMTT(60) DEF Align, PowersOfTwo
<1>4. Align(bytesCount, alignment) \in Nat /\ Align(MaxSize, alignment) \in Nat
  BY <1>1, AlignUp
<1>5. Power[32] \in Nat
  BY PowerType
<1>6. QED
  BY <1>2, <1>3, <1>4, <1>5 DEF Rounded

LEMMA RequestOK ==
  ASSUME WithinAssertion, TypeOK
  PROVE  SchemeOK
<1> DEFINE n == Rounded
<1>1. alignment \in PowersOfTwo /\ bytesCount \in Nat \ {0}
  BY SizeConstants DEF TypeOK, PowersOfTwo
<1>2. n \in Nat \ {0} /\ n >= bytesCount /\ n % alignment = 0
  BY <1>1, AlignUp DEF Rounded
<1>3. CASE scheme = "linear"
  <2>1. Bucket = LinearIndex(n) /\ \A i : GetBucketSizeInBytesByIndex(scheme, i) = LinearSize(i)
    BY <1>3 DEF Bucket, GetBucketIndexBySize, GetBucketSizeInBytesByIndex
  <2>2. /\ Bucket \in Nat /\ LinearSize(Bucket) \in Nat
        /\ LinearSize(Bucket) >= n /\ (Bucket > 0 => LinearSize(Bucket - 1) < n)
        /\ LinearSize(Bucket) % alignment = 0
    BY <1>1, <1>2, <2>1, LinearFits, LinearAligned
  <2>3. BestFit
    BY <1>1, <1>2, <2>1, <2>2 DEF BestFit, BlockSize
  <2>4. FirstBucketAligned
    BY <2>1, <2>2 DEF FirstBucketAligned, BlockSize, IsAligned
  <2>5. BlocksGrow
    BY <2>1, <2>2, LinearGrows DEF BlocksGrow
  <2>6. OverflowLoopEnds
    BY <1>1, <2>1, <2>2, LinearNextAligned DEF OverflowLoopEnds, IsAligned
  <2>7. QED
    BY <2>3, <2>4, <2>5, <2>6 DEF SchemeOK
<1>4. CASE scheme = "pl"
  <2>1. Bucket = PLIndex(n) /\ \A i : GetBucketSizeInBytesByIndex(scheme, i) = PLSize(i)
    BY <1>4 DEF Bucket, GetBucketIndexBySize, GetBucketSizeInBytesByIndex
  <2>2. /\ Bucket \in Nat /\ PLSize(Bucket) \in Nat
        /\ PLSize(Bucket) >= n /\ (Bucket > 0 => PLSize(Bucket - 1) < n)
        /\ PLSize(Bucket) % alignment = 0
    BY <1>1, <1>2, <2>1, PLFits, PLAligned
  <2>3. BestFit
    BY <1>1, <1>2, <2>1, <2>2 DEF BestFit, BlockSize
  <2>4. FirstBucketAligned
    BY <2>1, <2>2 DEF FirstBucketAligned, BlockSize, IsAligned
  <2>5. BlocksGrow
    BY <2>1, <2>2, PLGrows DEF BlocksGrow
  <2>6. OverflowLoopEnds
    BY <1>1, <2>1, <2>2, PLNextAligned DEF OverflowLoopEnds, IsAligned
  <2>7. QED
    BY <2>3, <2>4, <2>5, <2>6 DEF SchemeOK
<1>5. CASE scheme = "float"
  <2>1. Bucket = FloatIndex(n) /\ \A i : GetBucketSizeInBytesByIndex(scheme, i) = FloatSize(i)
    BY <1>5 DEF Bucket, GetBucketIndexBySize, GetBucketSizeInBytesByIndex
  <2>2. /\ Bucket \in Nat /\ FloatSize(Bucket) \in Nat
        /\ FloatSize(Bucket) >= n /\ (Bucket > 0 => FloatSize(Bucket - 1) < n)
        /\ FloatSize(Bucket) % alignment = 0
    BY <1>1, <1>2, <1>5, <2>1, RoundedInRange, FloatFits, FloatAligned
  <2>3. BestFit
    BY <1>1, <1>2, <2>1, <2>2 DEF BestFit, BlockSize
  <2>4. FirstBucketAligned
    BY <2>1, <2>2 DEF FirstBucketAligned, BlockSize, IsAligned
  <2>5. BlocksGrow
    BY <2>1, <2>2, FloatGrows DEF BlocksGrow
  <2>6. OverflowLoopEnds
    BY <1>1, <2>1, <2>2, FloatNextAligned DEF OverflowLoopEnds, IsAligned
  <2>7. QED
    BY <2>3, <2>4, <2>5, <2>6 DEF SchemeOK
<1>6. QED
  BY <1>3, <1>4, <1>5, SizeConstants DEF TypeOK

LEMMA RequestsTyped == Spec => []TypeOK
<1>1. Init => TypeOK
  BY SizeConstants DEF Init, TypeOK
<1>2. TypeOK /\ [Next]_vars => TypeOK'
  BY SizeConstants DEF TypeOK, Next, NextRequest, vars
<1>3. QED
  BY <1>1, <1>2, PTL DEF Spec

(* For requests of any size that the assertion lets through,                 *)
(* GetBucketIndexBySize() chooses the smallest bucket that fits, whichever   *)
(* partitioning is compiled in.                                              *)
THEOREM SchemesBestFit ==
  ASSUME WithinAssertion
  PROVE  Spec => []BestFit
<1>1. TypeOK => BestFit
  BY RequestOK DEF SchemeOK
<1>2. QED
  BY <1>1, RequestsTyped, PTL

(* ... and its blocks are aligned although Allocate() does not check it.     *)
THEOREM SchemesAlign ==
  ASSUME WithinAssertion
  PROVE  Spec => []FirstBucketAligned
<1>1. TypeOK => FirstBucketAligned
  BY RequestOK DEF SchemeOK
<1>2. QED
  BY <1>1, RequestsTyped, PTL

(* ... and the loop over unaligned buckets in Allocate() ends.               *)
THEOREM SchemesOverflowEnds ==
  ASSUME WithinAssertion
  PROVE  Spec => []OverflowLoopEnds
<1>1. TypeOK => OverflowLoopEnds
  BY RequestOK DEF SchemeOK
<1>2. QED
  BY <1>1, RequestsTyped, PTL

(* ... and the buckets it may overflow into hold the request too.            *)
THEOREM SchemesGrow ==
  ASSUME WithinAssertion
  PROVE  Spec => []BlocksGrow
<1>1. TypeOK => BlocksGrow
  BY RequestOK DEF SchemeOK
<1>2. QED
  BY <1>1, RequestsTyped, PTL
-----------------------------------------------------------------------------
(* The tables in the comments, entry by entry. *)
LEMMA LinearEntries ==
  /\ Len(LinearTable) = 62
  /\ \A i \in 0..61 : LinearTable[i + 1] = LinearSize(i)
BY DEF LinearTable, LinearSize

LEMMA PLFirstEntries ==
  Len(PLFirst) = 15 /\ \A i \in 1..15 : PLFirst[i] = PLSize(i - 1)
BY DEF PLFirst, PLSize

LEMMA PLEntries ==
  /\ Len(PLTable) = 62
  /\ \A i \in 0..61 : PLTable[i + 1] = PLSize(i)
<1>1. Len(PLTable) = 62
  BY DEF PLTable
<1>2. \A i \in 1..62 :
        PLTable[i] = IF i <= Len(PLFirst) THEN PLFirst[i] ELSE 1024 + (i - Len(PLFirst)) * 512
  BY DEF PLTable
<1>3. ASSUME NEW i \in 1..62 PROVE PLTable[i] = PLSize(i - 1)
  <2>1. CASE i <= 15
    BY <1>2, <2>1, PLFirstEntries
  <2>2. CASE i > 15
    <3>1. PLTable[i] = 1024 + (i - 15) * 512
      BY <1>2, <2>2, PLFirstEntries
    <3>2. QED
      BY <2>2, <3>1 DEF PLSize
  <2>3. QED
    BY <2>1, <2>2
<1>4. ASSUME NEW i \in 0..61 PROVE PLTable[i + 1] = PLSize(i)
  <2>1. i + 1 \in 1..62 /\ (i + 1) - 1 = i
    OBVIOUS
  <2>2. QED
    BY <1>3, <2>1
<1>5. QED
  BY <1>1, <1>4

(* Bucket by bucket: the sizes are four to every power of two. *)
LEMMA FloatEntries ==
  /\ Len(FloatTable) = 62
  /\ \A i \in 0..61 : FloatTable[i + 1] = FloatSize(i)
<1>1. Len(FloatTable) = 62
  BY DEF FloatTable
<1>2. \A i \in 0..57 : FloatTable[i + 5] = 2 * FloatTable[i + 1]
  BY SMTT(60) DEF FloatTable
<1>3. FloatTable[1] = 16 /\ FloatTable[2] = 20 /\ FloatTable[3] = 24 /\ FloatTable[4] = 28
  BY DEF FloatTable
<1>4. FloatSize(0) = 16 /\ FloatSize(1) = 20 /\ FloatSize(2) = 24 /\ FloatSize(3) = 28
  <2>1. \A m \in 0..4 : FloatSize(4 * 0 + m) = (m + 4) * Power[0 + 2]
    BY FloatSizeIs
  <2>2. \A m \in 0..4 : FloatSize(m) = (m + 4) * 4
    BY <2>1, FirstPowers
  <2>3. QED
    BY <2>2
<1> DEFINE S == {i \in 0..61 : FloatTable[i + 1] # FloatSize(i)}
<1>5. ASSUME S # {} PROVE FALSE
  <2>1. S \in SUBSET Nat
    OBVIOUS
  <2>2. PICK i \in S : \A k \in S : i <= k
    <3> HIDE DEF S
    <3>1. QED
      BY <1>5, <2>1, HasLeast
  <2>3. ~(i < 4)
    BY <1>3, <1>4, <2>2
  <2>4. PICK j \in 0..57 : i = j + 4
    BY <2>2, <2>3
  <2>5. FloatTable[j + 1] = FloatSize(j)
    BY <2>2, <2>4
  <2>6. FloatTable[j + 5] = FloatSize(j + 4)
    <3>1. FloatTable[j + 5] = 2 * FloatTable[j + 1]
      BY <1>2
    <3>2. FloatSize(j + 4) = 2 * FloatSize(j)
      BY FloatStep
    <3>3. QED
      BY <2>5, <3>1, <3>2
  <2>7. i + 1 = j + 5
    BY <2>4
  <2>8. QED
    BY <2>2, <2>4, <2>6, <2>7
<1>6. QED
  BY <1>1, <1>5

(* A request is served from the first entry of the documented table of its   *)
(* scheme that holds it.                                                     *)
THEOREM SchemesAsDocumented ==
  ASSUME WithinAssertion
  PROVE  Spec => []AsDocumented
<1>1. ASSUME TypeOK PROVE AsDocumented
  <2>1. BestFit
    BY <1>1, RequestOK DEF SchemeOK
  <2>2. /\ Bucket \in Nat /\ Len(Table(scheme)) = 62
        /\ \A i \in 0..61 : Table(scheme)[i + 1] = GetBucketSizeInBytesByIndex(scheme, i)
    <3>1. Rounded \in Nat \ {0}
      <4>1. alignment \in PowersOfTwo /\ bytesCount \in Nat \ {0}
        BY <1>1, SizeConstants DEF TypeOK, PowersOfTwo
      <4>2. QED
        BY <4>1, AlignUp DEF Rounded
    <3>2. CASE scheme = "linear"
      <4>1. /\ Bucket = LinearIndex(Rounded) /\ Table(scheme) = LinearTable
            /\ \A i : GetBucketSizeInBytesByIndex(scheme, i) = LinearSize(i)
        BY <3>2 DEF Bucket, GetBucketIndexBySize, GetBucketSizeInBytesByIndex, Table
      <4>2. QED
        BY <3>1, <4>1, LinearFits, LinearEntries
    <3>3. CASE scheme = "pl"
      <4>1. /\ Bucket = PLIndex(Rounded) /\ Table(scheme) = PLTable
            /\ \A i : GetBucketSizeInBytesByIndex(scheme, i) = PLSize(i)
        BY <3>3 DEF Bucket, GetBucketIndexBySize, GetBucketSizeInBytesByIndex, Table
      <4>2. QED
        BY <3>1, <4>1, PLFits, PLEntries
    <3>4. CASE scheme = "float"
      <4>1. /\ Bucket = FloatIndex(Rounded) /\ Table(scheme) = FloatTable
            /\ \A i : GetBucketSizeInBytesByIndex(scheme, i) = FloatSize(i)
        BY <3>4 DEF Bucket, GetBucketIndexBySize, GetBucketSizeInBytesByIndex, Table
      <4>2. QED
        BY <1>1, <3>1, <3>4, <4>1, RoundedInRange, FloatFits, FloatEntries
    <3>5. QED
      BY <1>1, <3>2, <3>3, <3>4, SizeConstants DEF TypeOK
  <2>3. ASSUME Bucket < 62, Bucket > 0
        PROVE  Table(scheme)[Bucket] = GetBucketSizeInBytesByIndex(scheme, Bucket - 1)
    <3>1. Bucket - 1 \in 0..61 /\ (Bucket - 1) + 1 = Bucket
      BY <2>2, <2>3
    <3>2. QED
      BY <2>2, <3>1
  <2>4. Bucket < 62 => Bucket \in 0..61
    BY <2>2
  <2>5. QED
    BY <2>1, <2>2, <2>3, <2>4 DEF AsDocumented, BestFit, BlockSize
<1>2. QED
  BY <1>1, RequestsTyped, PTL
=============================================================================
