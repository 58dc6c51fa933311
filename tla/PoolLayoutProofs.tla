-------------------------- MODULE PoolLayoutProofs --------------------------
(***************************************************************************)
(* What Init() and Create() leave, for any number of buckets and any size  *)
(* up to 2^32 (OffsetsFit): the list that PoolBucket starts from, with     *)
(* every block inside its bucket, and an arithmetic that tells from an     *)
(* address alone whose block it is.                                        *)
(***************************************************************************)
EXTENDS PoolLayout, PartitioningProofs

(* What the configuration has to see to: a bucket has room for one of its    *)
(* blocks.                                                                   *)
BlocksFit ==
  \A n \in Counts, s \in Sizes : \A i \in Buckets :
    i < n => ElementSize(i) <= Align(s, kMaxValidAlignment)

(* ... and the offset of each of them is a uint32_t: 4 GiB at the most.      *)
OffsetsFit == \A s \in Sizes : Align(s, kMaxValidAlignment) <= UintRange

First == [tag |-> 0, offset |-> 0]
Link(i, k) == [tag |-> k - 1, offset |-> k * ElementSize(i)]

LayoutTyped ==
  /\ bucketsCount \in 0..MaxBucketCount
  /\ bucketSizeInBytes \in Nat
  /\ bucket \in 0..bucketsCount
  /\ node \in Nat
  /\ globalTag \in [Buckets -> Nat]
  /\ head \in [Buckets -> [tag : Int, offset : Int]]
  /\ links \in [Buckets -> Seq([tag : Int, offset : Int])]

(* After Init(): the buckets have room for a block, within reach of an       *)
(* offset, and end below the end of the address space.                       *)
Sized ==
  /\ bucketSizeInBytes > 0
  /\ bucketSizeInBytes <= UintRange
  /\ \A i \in Buckets : i < bucketsCount => ElementSize(i) <= bucketSizeInBytes
  /\ Base + bucketsCount * bucketSizeInBytes <= AddressSpace

(* The bucket that Create() is at work on: the node is the block after the   *)
(* ones that are linked, and ends in the bucket.                             *)
Growing ==
  /\ head[bucket] = First
  /\ node = Len(links[bucket]) * ElementSize(bucket)
  /\ globalTag[bucket] = Len(links[bucket])
  /\ node + ElementSize(bucket) <= bucketSizeInBytes
  /\ \A k \in 1..Len(links[bucket]) : links[bucket][k] = Link(bucket, k)

(* A bucket it is done with: no further block would have fitted. *)
Done(i) ==
  /\ Len(links[i]) > 0
  /\ head[i] = First
  /\ globalTag[i] = Len(links[i]) - 1
  /\ Len(links[i]) * ElementSize(i) <= bucketSizeInBytes
  /\ bucketSizeInBytes < Len(links[i]) * ElementSize(i) + ElementSize(i)
  /\ \A k \in 1..Len(links[i]) :
       links[i][k] = IF k = Len(links[i]) THEN Invalid ELSE Link(i, k)

LayoutInv ==
  /\ LayoutTyped
  /\ bucketsCount # 0 => Sized
  /\ \A i \in Buckets : i > bucket \/ bucketsCount = 0 => links[i] = <<>> /\ globalTag[i] = 0
  /\ bucket < bucketsCount => Growing
  /\ \A i \in Created : Done(i)
-----------------------------------------------------------------------------
LEMMA Remainder ==
  ASSUME NEW m \in Nat \ {0}
  PROVE  /\ \A x \in 0..(m - 1) : x % m = x
         /\ \A x \in 1..(m - 1) : (-x) % m = m - x
OBVIOUS
-----------------------------------------------------------------------------
(* The assertion that Create() begins with. *)
LEMMA SizesValid ==
  \A i \in Buckets : ElementSize(i) \in Nat /\ ElementSize(i) >= 16
<1> SUFFICES ASSUME NEW i \in Buckets PROVE ElementSize(i) \in Nat /\ ElementSize(i) >= 16
  OBVIOUS
<1>1. i \in Nat
  BY LayoutConstants DEF Buckets
<1>2. CASE Scheme = "linear"
  <2>1. ElementSize(i) = LinearSize(i)
    BY <1>2 DEF ElementSize, GetBucketSizeInBytesByIndex
  <2>2. QED
    BY <1>1, <2>1 DEF LinearSize
<1>3. CASE Scheme = "pl"
  <2>1. ElementSize(i) = PLSize(i)
    BY <1>3 DEF ElementSize, GetBucketSizeInBytesByIndex
  <2>2. QED
    BY <1>1, <2>1 DEF PLSize
<1>4. CASE Scheme = "float"
  <2>1. ElementSize(i) = FloatSize(i)
    BY <1>4 DEF ElementSize, GetBucketSizeInBytesByIndex
  <2>2. QED
    BY <1>1, <2>1, FloatMonotone
<1>5. QED
  BY <1>2, <1>3, <1>4, LayoutConstants

LEMMA Aligned ==
  ASSUME NEW s \in Nat \ {0}
  PROVE  Align(s, kMaxValidAlignment) \in Nat /\ Align(s, kMaxValidAlignment) >= s
BY DEF Align, kMaxValidAlignment

LEMMA LayoutInit == Init => LayoutInv
<1> SUFFICES ASSUME Init PROVE LayoutInv
  OBVIOUS
<1>1. LayoutTyped
  BY LayoutConstants DEF Init, LayoutTyped, Invalid
<1>2. Created = {} /\ ~(bucket < bucketsCount)
  BY DEF Init, Created
<1>3. QED
  BY <1>1, <1>2 DEF Init, LayoutInv

(* Init() fixes the sizes: what the assumption says of the parameters holds  *)
(* of what they have been rounded to.                                        *)
LEMMA InitAllocatorKeeps ==
  ASSUME BlocksFit, OffsetsFit, LayoutInv, NEW n \in Counts, NEW s \in Sizes, InitAllocator(n, s)
  PROVE  LayoutInv'
<1> DEFINE c == Lesser(n, MaxBucketCount)
           z == Align(s, kMaxValidAlignment)
<1>1. /\ bucketsCount = 0 /\ n # 0 /\ bucketsCount' = c /\ bucketSizeInBytes' = z /\ bucket' = 0
      /\ node' = 0 /\ head' = [head EXCEPT ![0] = First] /\ globalTag' = globalTag /\ links' = links
  BY DEF InitAllocator, CreateHead, First
<1>2. n \in Nat \ {0} /\ MaxBucketCount \in Nat \ {0} /\ s \in Nat \ {0} /\ 0 \in Buckets
  BY <1>1, LayoutConstants DEF Buckets
<1>3. c \in 1..MaxBucketCount /\ c <= n
  BY <1>2 DEF Lesser
<1>4. z \in Nat /\ z > 0
  BY <1>2, Aligned
<1>5. Sized'
  <2>1. \A i \in Buckets : i < c => ElementSize(i) <= z
    BY <1>2, <1>3 DEF BlocksFit, Buckets
  <2>2. c * z <= n * z /\ c * z \in Nat /\ n * z \in Nat
    BY <1>2, <1>3, <1>4, Monotone
  <2>3. Base + n * z <= AddressSpace /\ Base \in Nat /\ AddressSpace \in Nat
    BY LayoutConstants
  <2>4. Base + c * z <= AddressSpace
    BY <2>2, <2>3
  <2>5. z <= UintRange
    BY DEF OffsetsFit
  <2>6. QED
    BY <1>1, <1>4, <2>1, <2>4, <2>5 DEF Sized
<1> HIDE DEF c, z
<1>6. LayoutTyped /\ links[0] = <<>> /\ globalTag[0] = 0
  BY <1>1, <1>2 DEF LayoutInv
<1>7. LayoutTyped'
  <2>1. head' \in [Buckets -> [tag : Int, offset : Int]]
    <3>1. First \in [tag : Int, offset : Int]
      BY DEF First
    <3>2. head \in [Buckets -> [tag : Int, offset : Int]]
      BY <1>6 DEF LayoutTyped
    <3>3. QED
      BY <1>1, <1>2, <3>1, <3>2
  <2>2. bucketsCount' \in 0..MaxBucketCount /\ bucket' \in 0..bucketsCount'
    BY <1>1, <1>2, <1>3
  <2>3. QED
    BY <1>1, <1>4, <1>6, <2>1, <2>2 DEF LayoutTyped
<1>8. Growing'
  <2>1. head'[0] = First
    BY <1>1, <1>2, <1>6 DEF LayoutTyped
  <2>2. ElementSize(0) \in Nat /\ ElementSize(0) <= z
    BY <1>1, <1>2, <1>3, <1>5, SizesValid DEF Sized
  <2>3. QED
    BY <1>1, <1>6, <2>1, <2>2 DEF Growing
<1>9. Created' = {}
  BY <1>1 DEF Created
<1>10. QED
  BY <1>1, <1>5, <1>7, <1>8, <1>9 DEF LayoutInv

LEMMA AtWork ==
  ASSUME LayoutInv, bucket < bucketsCount
  PROVE  LayoutTyped /\ Sized /\ Growing /\ bucket \in Buckets
<1>1. /\ LayoutTyped /\ (bucketsCount # 0 => Sized) /\ Growing /\ MaxBucketCount \in Nat
  BY LayoutConstants DEF LayoutInv
<1>2. bucketsCount \in 0..MaxBucketCount /\ bucket \in 0..bucketsCount
  BY <1>1 DEF LayoutTyped
<1>3. bucketsCount # 0 /\ bucket \in Buckets
  BY <1>1, <1>2 DEF Buckets
<1>4. QED
  BY <1>1, <1>3

(* One block more: the next one ends in the bucket, as the test has shown.  *)
LEMMA CreateLinkKeeps ==
  ASSUME LayoutInv, CreateLink
  PROVE  LayoutInv'
<1> DEFINE e == ElementSize(bucket)
           l == [tag |-> globalTag[bucket], offset |-> node + e]
           s == links[bucket]
           n == Len(s)
<1>a. /\ bucket < bucketsCount /\ node + 2 * e <= bucketSizeInBytes
  BY DEF CreateLink, NextFits
<1>2. LayoutTyped /\ Sized /\ Growing /\ bucket \in Buckets
  BY <1>a, AtWork
<1>b. /\ e \in Nat /\ e >= 16 /\ node \in Nat /\ globalTag[bucket] \in Nat /\ n \in Nat
      /\ bucketSizeInBytes \in Nat /\ bucketSizeInBytes <= UintRange /\ UintRange \in Nat \ {0}
      /\ node = n * e /\ globalTag[bucket] = n
  BY <1>2, LayoutConstants, SizesValid DEF LayoutTyped, Sized, Growing
<1>c. Uint(node + e) = node + e /\ Uint(globalTag[bucket] + 1) = globalTag[bucket] + 1
  <2>1. node + e \in 0..(UintRange - 1)
    BY <1>a, <1>b
  <2>2. n + 1 <= node + e
    <3>1. 1 * n <= e * n /\ e * n = n * e
      BY <1>b, Monotone
    <3>2. QED
      BY <1>b, <3>1
  <2>3. n + 1 \in 0..(UintRange - 1)
    <3>1. n \in Nat /\ UintRange \in Nat
      BY <1>b
    <3>2. QED
      BY <2>1, <2>2, <3>1
  <2>4. QED
    BY <1>b, <2>1, <2>3, Remainder DEF Uint
<1>1. /\ bucket < bucketsCount /\ node + 2 * e <= bucketSizeInBytes
      /\ links' = [links EXCEPT ![bucket] = Append(@, l)] /\ node' = node + e
      /\ globalTag' = [globalTag EXCEPT ![bucket] = @ + 1]
      /\ bucketsCount' = bucketsCount /\ bucketSizeInBytes' = bucketSizeInBytes
      /\ bucket' = bucket /\ head' = head
  BY <1>a, <1>c DEF CreateLink
<1>3. e \in Nat /\ node \in Nat /\ globalTag[bucket] \in Nat /\ bucketSizeInBytes \in Nat
  BY <1>2, SizesValid DEF LayoutTyped
<1>4. s \in Seq([tag : Int, offset : Int]) /\ l \in [tag : Int, offset : Int] /\ n \in Nat
  BY <1>2, <1>3 DEF LayoutTyped
<1>5. /\ Append(s, l) \in Seq([tag : Int, offset : Int]) /\ Len(Append(s, l)) = n + 1
      /\ Append(s, l)[n + 1] = l /\ \A k \in 1..n : Append(s, l)[k] = s[k]
  BY <1>4
<1>6. l = Link(bucket, n + 1) /\ node' = (n + 1) * e /\ globalTag'[bucket] = n + 1
  <2>1. node = n * e /\ globalTag[bucket] = n
    BY <1>2 DEF Growing
  <2>2. (n + 1) * e = n * e + e
    BY <1>3, <1>4, NextMultiple
  <2>3. n + 1 - 1 = n
    BY <1>4
  <2>4. globalTag'[bucket] = n + 1
    BY <1>1, <1>2, <2>1 DEF LayoutTyped
  <2>5. QED
    BY <1>1, <2>1, <2>2, <2>3, <2>4 DEF Link
<1>7. links'[bucket] = Append(s, l) /\ \A i \in Buckets : i # bucket =>
        links'[i] = links[i] /\ globalTag'[i] = globalTag[i]
  BY <1>1, <1>2 DEF LayoutTyped
<1>8. LayoutTyped'
  <2>1. links' \in [Buckets -> Seq([tag : Int, offset : Int])]
    BY <1>1, <1>2, <1>5 DEF LayoutTyped
  <2>2. globalTag' \in [Buckets -> Nat]
    BY <1>1, <1>2, <1>3 DEF LayoutTyped
  <2>3. node' \in Nat
    BY <1>1, <1>3
  <2>4. QED
    BY <1>1, <1>2, <2>1, <2>2, <2>3 DEF LayoutTyped
<1> HIDE DEF l, e, s, n
<1>9. Growing'
  <2>1. Len(links'[bucket]) = n + 1 /\ head'[bucket] = First
    BY <1>1, <1>2, <1>5, <1>7 DEF Growing
  <2>2. node' + e <= bucketSizeInBytes
    BY <1>1, <1>3
  <2>3. \A k \in 1..(n + 1) : links'[bucket][k] = Link(bucket, k)
    <3>1. \A k \in 1..n : s[k] = Link(bucket, k)
      BY <1>2 DEF Growing, s, n
    <3>2. \A k \in 1..(n + 1) : k = n + 1 \/ k \in 1..n
      BY <1>4
    <3>3. QED
      BY <1>5, <1>6, <1>7, <3>1, <3>2
  <2>4. QED
    BY <1>1, <1>6, <2>1, <2>2, <2>3 DEF Growing, e, Link
<1>10. Sized'
  BY <1>1, <1>2 DEF Sized
<1>11. \A i \in Buckets : i > bucket' \/ bucketsCount' = 0 => links'[i] = <<>> /\ globalTag'[i] = 0
  BY <1>1, <1>2, <1>7 DEF LayoutInv, LayoutTyped, Buckets
<1>12. \A i \in Created : i \in Buckets /\ i # bucket
  BY <1>2, LayoutConstants DEF Created, LayoutTyped, Buckets
<1>13. Created' = Created
  BY <1>1 DEF Created
<1>14. ASSUME NEW i \in Created PROVE Done(i)'
  <2>1. Done(i) /\ links'[i] = links[i] /\ globalTag'[i] = globalTag[i]
    BY <1>7, <1>12 DEF LayoutInv
  <2>2. QED
    BY <1>1, <2>1 DEF Done
<1>15. QED
  BY <1>8, <1>9, <1>10, <1>11, <1>13, <1>14 DEF LayoutInv

(* The last block of a bucket, and the first of the next. *)
LEMMA CreateLastKeeps ==
  ASSUME LayoutInv, CreateLast
  PROVE  LayoutInv'
<1> DEFINE e == ElementSize(bucket)
           s == links[bucket]
           n == Len(s)
<1>1. /\ bucket < bucketsCount /\ ~(node + 2 * e <= bucketSizeInBytes)
      /\ links' = [links EXCEPT ![bucket] = Append(@, Invalid)] /\ bucket' = bucket + 1
      /\ bucketsCount' = bucketsCount /\ bucketSizeInBytes' = bucketSizeInBytes
      /\ globalTag' = globalTag
      /\ IF bucket + 1 < bucketsCount
         THEN node' = 0 /\ head' = [head EXCEPT ![bucket + 1] = First]
         ELSE node' = node /\ head' = head
  BY DEF CreateLast, NextFits, CreateHead, First
<1>2. LayoutTyped /\ Sized /\ Growing /\ bucket \in Buckets
  BY <1>1, AtWork
<1>3. /\ e \in Nat /\ node \in Nat /\ globalTag[bucket] \in Nat /\ bucketSizeInBytes \in Nat
      /\ bucketsCount \in 0..MaxBucketCount /\ bucket \in 0..bucketsCount /\ MaxBucketCount \in Nat
  BY <1>2, LayoutConstants, SizesValid DEF LayoutTyped
<1>4. /\ s \in Seq([tag : Int, offset : Int]) /\ Invalid \in [tag : Int, offset : Int]
      /\ First \in [tag : Int, offset : Int] /\ n \in Nat
  BY <1>2 DEF LayoutTyped, Invalid, First
<1>5. /\ Append(s, Invalid) \in Seq([tag : Int, offset : Int]) /\ Len(Append(s, Invalid)) = n + 1
      /\ Append(s, Invalid)[n + 1] = Invalid /\ \A k \in 1..n : Append(s, Invalid)[k] = s[k]
  BY <1>4
<1>6. links'[bucket] = Append(s, Invalid) /\ \A i \in Buckets : i # bucket => links'[i] = links[i]
  BY <1>1, <1>2 DEF LayoutTyped
<1>7. /\ \A i \in Buckets : i # bucket + 1 => head'[i] = head[i]
      /\ bucket + 1 < bucketsCount => bucket + 1 \in Buckets /\ head'[bucket + 1] = First
      /\ head' \in [Buckets -> [tag : Int, offset : Int]]
  <2>1. bucket + 1 < bucketsCount => bucket + 1 \in Buckets
    BY <1>3 DEF Buckets
  <2>2. head \in [Buckets -> [tag : Int, offset : Int]]
    BY <1>2 DEF LayoutTyped
  <2>3. QED
    BY <1>1, <1>4, <2>1, <2>2
<1>8. LayoutTyped'
  <2>1. links' \in [Buckets -> Seq([tag : Int, offset : Int])]
    BY <1>1, <1>2, <1>5 DEF LayoutTyped
  <2>2. bucket' \in 0..bucketsCount' /\ node' \in Nat
    BY <1>1, <1>3
  <2>3. QED
    BY <1>1, <1>2, <1>7, <2>1, <2>2 DEF LayoutTyped
<1> HIDE DEF e, s, n
<1>0. PICK b \in Buckets : b = bucket
  BY <1>2
<1>9. Done(b)'
  <2>1. /\ Len(links'[bucket]) = n + 1 /\ head'[bucket] = First /\ globalTag'[bucket] = n
        /\ node = n * e /\ node + e <= bucketSizeInBytes
    BY <1>1, <1>2, <1>3, <1>5, <1>6, <1>7 DEF Growing, e, s, n
  <2>2. (n + 1) * e = n * e + e
    BY <1>3, <1>4, NextMultiple
  <2>3. n + 1 > 0 /\ n = (n + 1) - 1 /\ (n + 1) * e <= bucketSizeInBytes
    BY <1>3, <1>4, <2>1, <2>2
  <2>4. bucketSizeInBytes < (n + 1) * e + e
    BY <1>1, <1>3, <2>1, <2>2
  <2>5. \A k \in 1..(n + 1) : links'[bucket][k] = IF k = n + 1 THEN Invalid ELSE Link(bucket, k)
    <3>1. \A k \in 1..n : s[k] = Link(bucket, k)
      BY <1>2 DEF Growing, s, n
    <3>2. \A k \in 1..(n + 1) : k = n + 1 \/ (k # n + 1 /\ k \in 1..n)
      BY <1>4
    <3>3. QED
      BY <1>5, <1>6, <3>1, <3>2
  <2>6. QED
    BY <1>0, <1>1, <2>1, <2>3, <2>4, <2>5 DEF Done, e
<1>10. Sized'
  BY <1>1, <1>2 DEF Sized
<1>11. \A i \in Buckets : i > bucket' \/ bucketsCount' = 0 => links'[i] = <<>> /\ globalTag'[i] = 0
  <2>1. \A i \in Buckets : i > bucket + 1 => i > bucket /\ i # bucket
    BY <1>3 DEF Buckets
  <2>2. bucketsCount # 0
    BY <1>1, <1>3
  <2>3. QED
    BY <1>1, <1>6, <2>1, <2>2 DEF LayoutInv
<1>12. bucket' < bucketsCount' => Growing'
  <2> SUFFICES ASSUME bucket + 1 < bucketsCount PROVE Growing'
    BY <1>1
  <2>1. /\ bucket + 1 \in Buckets /\ head'[bucket + 1] = First
        /\ bucket + 1 > bucket /\ bucket + 1 # bucket
    BY <1>3, <1>7
  <2>2. links'[bucket + 1] = <<>> /\ globalTag[bucket + 1] = 0
    BY <1>6, <2>1 DEF LayoutInv
  <2>3. ElementSize(bucket + 1) \in Nat /\ ElementSize(bucket + 1) <= bucketSizeInBytes
    BY <1>2, <2>1, SizesValid DEF Sized
  <2>4. Len(<<>>) = 0 /\ 0 * ElementSize(bucket + 1) = 0 /\ node' = 0
    BY <1>1, <2>3
  <2>5. QED
    BY <1>1, <2>1, <2>2, <2>3, <2>4 DEF Growing
<1>13. \A i \in Created' : i = b \/ i \in Created
  BY <1>0, <1>1, <1>3 DEF Created
<1>14. ASSUME NEW i \in Created PROVE Done(i)'
  <2>1. i \in Buckets /\ i # bucket /\ i # bucket + 1
    BY <1>3 DEF Created, Buckets
  <2>2. Done(i) /\ links'[i] = links[i] /\ head'[i] = head[i]
    BY <1>6, <1>7, <2>1 DEF LayoutInv
  <2>3. QED
    BY <1>1, <2>2 DEF Done
<1>15. QED
  BY <1>8, <1>9, <1>10, <1>11, <1>12, <1>13, <1>14 DEF LayoutInv

LEMMA LayoutNext ==
  ASSUME BlocksFit, OffsetsFit, LayoutInv, [Next]_vars
  PROVE  LayoutInv'
<1>1. CASE UNCHANGED vars
  BY <1>1 DEF vars, LayoutInv, LayoutTyped, Sized, Growing, Done, Created
<1>2. QED
  BY <1>1, InitAllocatorKeeps, CreateLinkKeeps, CreateLastKeeps DEF Next

THEOREM LayoutInvariant == ASSUME BlocksFit, OffsetsFit PROVE Spec => []LayoutInv
<1>1. BlocksFit /\ OffsetsFit /\ LayoutInv /\ [Next]_vars => LayoutInv'
  BY LayoutNext
<1>2. QED
  BY <1>1, LayoutInit, PTL DEF Spec
-----------------------------------------------------------------------------
LEMMA DoneNow ==
  ASSUME LayoutInv, NEW i \in Created
  PROVE  /\ Done(i) /\ i \in Nat /\ i < bucketsCount /\ i \in Buckets /\ Len(links[i]) \in Nat
         /\ ElementSize(i) \in Nat /\ ElementSize(i) >= 16 /\ bucketSizeInBytes \in Nat
         /\ bucketsCount \in Nat /\ Sized
<1>1. /\ Done(i) /\ LayoutTyped /\ (bucketsCount # 0 => Sized) /\ MaxBucketCount \in Nat
  BY LayoutConstants DEF LayoutInv
<1>2. bucketsCount \in 0..MaxBucketCount /\ bucket \in 0..bucketsCount /\ bucketSizeInBytes \in Nat
  BY <1>1 DEF LayoutTyped
<1>3. i \in Nat /\ i < bucketsCount /\ i \in Buckets /\ bucketsCount # 0
  BY <1>1, <1>2 DEF Created, Buckets
<1>4. Len(links[i]) \in Nat
  BY <1>1, <1>3 DEF LayoutTyped
<1>5. QED
  BY <1>1, <1>2, <1>3, <1>4, SizesValid

(* Create() leaves the list that PoolBucket.tla starts from: PoolBucket!Init *)
(* is no assumption but what the code establishes.                           *)
THEOREM ListIsAsAssumed == ASSUME BlocksFit, OffsetsFit PROVE Spec => []ListAsAssumed
<1>1. LayoutInv => ListAsAssumed
  <2> SUFFICES ASSUME LayoutInv, NEW i \in Created
               PROVE  /\ Len(links[i]) > 0
                      /\ head[i] = [tag |-> 0, offset |-> 0]
                      /\ globalTag[i] = Len(links[i]) - 1
                      /\ \A k \in 1..Len(links[i]) : links[i][k] =
                           IF k = Len(links[i]) THEN Invalid
                           ELSE [tag |-> k - 1, offset |-> BlockOffset(i, k + 1)]
    BY DEF ListAsAssumed
  <2>1. Done(i) /\ Len(links[i]) \in Nat
    BY DoneNow
  <2>2. \A k \in 1..Len(links[i]) : BlockOffset(i, k + 1) = k * ElementSize(i)
    <3>1. \A k \in 1..Len(links[i]) : k + 1 - 1 = k
      BY <2>1
    <3>2. QED
      BY <3>1 DEF BlockOffset
  <2>3. QED
    BY <2>1, <2>2 DEF Done, First, Link
<1>2. QED
  BY <1>1, LayoutInvariant, PTL

(* No block reaches into the next bucket. *)
THEOREM BlocksStayInside == ASSUME BlocksFit, OffsetsFit PROVE Spec => []BlocksInsideBucket
<1>1. LayoutInv => BlocksInsideBucket
  <2> SUFFICES ASSUME LayoutInv, NEW i \in Created
               PROVE  BlockOffset(i, Len(links[i])) + ElementSize(i) <= bucketSizeInBytes
    BY DEF BlocksInsideBucket
  <2>1. Len(links[i]) \in Nat /\ ElementSize(i) \in Nat
    BY DoneNow
  <2>2. (Len(links[i]) - 1) * ElementSize(i) = Len(links[i]) * ElementSize(i) - ElementSize(i)
    BY <2>1, NextMultiple
  <2>3. Len(links[i]) * ElementSize(i) <= bucketSizeInBytes /\ bucketSizeInBytes \in Nat
    BY DoneNow DEF Done
  <2>4. QED
    BY <2>1, <2>2, <2>3 DEF BlockOffset
<1>2. QED
  BY <1>1, LayoutInvariant, PTL

(* A bucket has the blocks that GetBucketElementsCount() reports. *)
THEOREM CountIsAsReported == ASSUME BlocksFit, OffsetsFit PROVE Spec => []CountAsReported
<1>1. LayoutInv => CountAsReported
  <2> SUFFICES ASSUME LayoutInv, NEW i \in Created
               PROVE  Len(links[i]) = GetBucketElementsCount(i)
    BY DEF CountAsReported
  <2>1. /\ Len(links[i]) \in Nat /\ ElementSize(i) \in Nat \ {0} /\ bucketSizeInBytes \in Nat
        /\ i < bucketsCount /\ i \in Nat /\ bucketsCount \in Nat /\ Done(i)
    BY DoneNow
  <2>2. bucketSizeInBytes \div ElementSize(i) = Len(links[i])
    BY <2>1, QuotientIs DEF Done
  <2>3. Uint(Len(links[i])) = Len(links[i])
    <3>1. /\ Len(links[i]) * ElementSize(i) <= UintRange /\ UintRange \in Nat \ {0}
          /\ ElementSize(i) >= 16 /\ Len(links[i]) * ElementSize(i) \in Nat
      BY <2>1, DoneNow, LayoutConstants DEF Done, Sized
    <3>2. 16 * Len(links[i]) <= ElementSize(i) * Len(links[i])
      BY <2>1, <3>1, Monotone
    <3>3. Len(links[i]) \in 0..(UintRange - 1)
      BY <2>1, <3>1, <3>2
    <3>4. QED
      BY <3>1, <3>3, Remainder DEF Uint
  <2>4. QED
    BY <2>1, <2>2, <2>3 DEF GetBucketElementsCount
<1>2. QED
  BY <1>1, LayoutInvariant, PTL

(* An offset into a bucket leads back to it. *)
LEMMA FoundAt ==
  ASSUME LayoutInv, NEW i \in Created, NEW x \in Nat, x < bucketSizeInBytes
  PROVE  FindBucket(Base + i * bucketSizeInBytes + x) = i
         /\ Base + i * bucketSizeInBytes + x < BufferEnd
<1> DEFINE z == bucketSizeInBytes
           y == i * z + x
<1>1. z \in Nat \ {0} /\ i \in Nat /\ bucketsCount \in Nat /\ i + 1 <= bucketsCount
  BY DoneNow DEF Sized
<1>2. Base + bucketsCount * z <= AddressSpace /\ Base \in Nat \ {0} /\ AddressSpace \in Nat \ {0}
  BY DoneNow, LayoutConstants DEF Sized
<1> HIDE DEF z
<1>3. (i + 1) * z <= bucketsCount * z /\ (i + 1) * z = i * z + z /\ bucketsCount * z \in Nat
  BY <1>1, Monotone, NextMultiple
<1>4. i * z \in Nat /\ y \in Nat /\ i * z <= y /\ y < i * z + z
  <2>1. i * z \in Nat
    BY <1>1, Monotone
  <2>2. QED
    BY <1>1, <2>1 DEF z
<1>5. y < bucketsCount * z /\ y \in 0..(AddressSpace - 1)
  BY <1>1, <1>2, <1>3, <1>4
<1>6. y \div z = i
  BY <1>1, <1>4, QuotientIs
<1>7. y % AddressSpace = y
  BY <1>2, <1>5, Remainder
<1>8. (Base + i * z + x) - Base = y /\ Base + i * z + x < Base + bucketsCount * z
  BY <1>1, <1>2, <1>3, <1>4, <1>5
<1>9. QED
  BY <1>6, <1>7, <1>8 DEF FindBucket, BufferEnd, z

(* Free() finds the list of any block, from its first byte or from its last. *)
THEOREM EveryBlockIsFound == ASSUME BlocksFit, OffsetsFit PROVE Spec => []BlocksFound
<1>1. LayoutInv => BlocksFound
  <2> SUFFICES ASSUME LayoutInv, NEW i \in Created, NEW k \in 1..Len(links[i])
               PROVE  /\ FindBucket(BlockAddress(i, k)) = i
                      /\ FindBucket(BlockAddress(i, k) + ElementSize(i) - 1) = i
                      /\ GetBucketIndex(BlockAddress(i, k)) = i
    BY DEF BlocksFound
  <2> DEFINE e == ElementSize(i)
             z == bucketSizeInBytes
             x == (k - 1) * e
             n == Len(links[i])
  <2>1. /\ n \in Nat /\ e \in Nat /\ e >= 16 /\ z \in Nat /\ i < bucketsCount /\ i \in Nat
        /\ n * e <= z /\ bucketsCount \in Nat
    BY DoneNow DEF Done
  <2>2. k - 1 \in Nat /\ k \in Nat /\ k <= n /\ Base \in Nat
    BY <2>1, LayoutConstants
  <2> HIDE DEF e, z, n
  <2>3. x \in Nat /\ k * e <= n * e /\ x = k * e - e /\ k * e \in Nat /\ n * e \in Nat
    BY <2>1, <2>2, Monotone, NextMultiple
  <2> HIDE DEF x
  <2>4. x + e - 1 \in Nat /\ x + e - 1 < z /\ x < z
    BY <2>1, <2>3
  <2>5. i * z \in Nat
    BY <2>1, Monotone
  <2>6. /\ BlockAddress(i, k) = Base + i * z + x
        /\ BlockAddress(i, k) + ElementSize(i) - 1 = Base + i * z + (x + e - 1)
    BY <2>1, <2>2, <2>3, <2>5 DEF BlockAddress, BlockOffset, x, e, z
  <2>7. FindBucket(Base + i * z + x) = i /\ Base + i * z + x < BufferEnd
    BY <2>3, <2>4, FoundAt DEF z
  <2>8. FindBucket(Base + i * z + (x + e - 1)) = i
    BY <2>4, FoundAt DEF z
  <2>9. Base + i * z + x >= Base /\ Base + i * z + x < Base + bucketsCount * z + 1
    <3>1. bucketsCount * z \in Nat
      BY <2>1, Monotone
    <3>2. Base + i * z + x < Base + bucketsCount * z
      BY <2>7 DEF BufferEnd, z
    <3>3. QED
      BY <2>2, <2>3, <2>5, <3>1, <3>2
  <2>10. GetBucketIndex(Base + i * z + x) = i
    BY <2>1, <2>7, <2>9 DEF GetBucketIndex, z
  <2>11. QED
    BY <2>6, <2>7, <2>8, <2>10
<1>2. QED
  BY <1>1, LayoutInvariant, PTL

(* Addresses below the buffer overflow to an index past the buckets, and so  *)
(* are those above it, whatever the address.                                 *)
LEMMA NotFoundAt ==
  ASSUME LayoutInv, Ready, NEW p \in 0..(AddressSpace - 1), p < Base \/ p >= BufferEnd
  PROVE  FindBucket(p) >= bucketsCount /\ GetBucketIndex(p) = -1
<1> DEFINE z == bucketSizeInBytes
           y == (p - Base) % AddressSpace
<1>1. z \in Nat \ {0} /\ bucketsCount \in Nat /\ Base + bucketsCount * z <= AddressSpace
  BY DEF LayoutInv, LayoutTyped, Sized, Ready
<1>2. Base \in 1..(AddressSpace - 1) /\ AddressSpace \in Nat \ {0}
  BY LayoutConstants
<1> HIDE DEF z
<1>3. bucketsCount * z \in Nat
  BY <1>1, Monotone
<1>4. y \in Nat /\ bucketsCount * z <= y
  <2>1. CASE p < Base
    <3>1. Base - p \in 1..(AddressSpace - 1) /\ p - Base = -(Base - p)
      BY <1>2, <2>1
    <3>2. y = AddressSpace - (Base - p)
      BY <1>2, <3>1, Remainder
    <3>3. QED
      BY <1>1, <1>2, <1>3, <2>1, <3>2
  <2>2. CASE p >= BufferEnd
    <3>1. p >= Base + bucketsCount * z
      BY <2>2 DEF BufferEnd, z
    <3>2. p - Base \in 0..(AddressSpace - 1) /\ bucketsCount * z <= p - Base
      BY <1>2, <1>3, <3>1
    <3>3. y = p - Base
      BY <1>2, <3>2, Remainder
    <3>4. QED
      BY <3>2, <3>3
  <2>3. QED
    BY <2>1, <2>2
<1> HIDE DEF y
<1>5. y \div z >= bucketsCount /\ y \div z \in Int
  BY <1>1, <1>4, QuotientAtLeast, Division
<1>6. FindBucket(p) = y \div z
  BY DEF FindBucket, y, z
<1>7. ~(FindBucket(p) < bucketsCount)
  BY <1>1, <1>5, <1>6
<1>8. QED
  BY <1>5, <1>6, <1>7 DEF GetBucketIndex

(* No address outside the buffer is taken for a block of a bucket. *)
THEOREM StrangersAreNotFound == ASSUME BlocksFit, OffsetsFit PROVE Spec => []StrangersNotFound
<1>1. LayoutInv => StrangersNotFound
  <2> SUFFICES ASSUME LayoutInv, Ready, NEW p \in Outside
               PROVE  FindBucket(p) >= bucketsCount /\ GetBucketIndex(p) = -1
    BY DEF StrangersNotFound
  <2>1. AddressSpace \in Nat /\ AddressSpace % 4096 = 0
    BY LayoutConstants DEF IsAligned, kMaxValidAlignment
  <2>2. PICK q \in 1..((AddressSpace - 1) \div 4096) :
          p \in {q * 4096 - 1, q * 4096, q * 4096 + 16}
    BY DEF Outside, kMaxValidAlignment
  <2>3. q * 4096 \in Nat /\ q * 4096 + 4096 <= AddressSpace /\ q >= 1
    BY <2>1, <2>2
  <2>4. p \in 0..(AddressSpace - 1)
    BY <2>1, <2>2, <2>3
  <2>5. p < Base \/ p >= BufferEnd
    BY DEF Outside
  <2>6. QED
    BY <2>4, <2>5, NotFoundAt
<1>2. QED
  BY <1>1, LayoutInvariant, PTL

(* The same of every address there is, not only of those TLC looks at. *)
THEOREM NoAddressOutsideIsFound ==
  ASSUME BlocksFit, OffsetsFit
  PROVE  Spec => [](Ready => \A p \in 0..(AddressSpace - 1) :
                      p < Base \/ p >= BufferEnd =>
                        FindBucket(p) >= bucketsCount /\ GetBucketIndex(p) = -1)
<1>1. LayoutInv => (Ready => \A p \in 0..(AddressSpace - 1) :
                      p < Base \/ p >= BufferEnd =>
                        FindBucket(p) >= bucketsCount /\ GetBucketIndex(p) = -1)
  BY NotFoundAt
<1>2. QED
  BY <1>1, LayoutInvariant, PTL
=============================================================================
