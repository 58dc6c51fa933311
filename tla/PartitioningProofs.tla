------------------------- MODULE PartitioningProofs -------------------------
(***************************************************************************)
(* What each partitioning does with a size, for every size (for the float  *)
(* one, of 32 bits): the lemmas that the proofs about requests and about   *)
(* the layout rest on.                                                     *)
(***************************************************************************)
EXTENDS Partitioning, WellFoundedInduction, TLAPS

PowersOfTwo == {1, 2, 4, 8, 16, 32, 64, 128, 256, 512, 1024, 2048, 4096}

(* Products and quotients. *)
LEMMA NextMultiple == \A n, e \in Int : (n + 1) * e = n * e + e /\ (n - 1) * e = n * e - e
OBVIOUS

LEMMA Monotone ==
  ASSUME NEW m \in Nat, NEW n \in Nat, NEW e \in Nat, m <= n
  PROVE  m * e <= n * e /\ m * e \in Nat
OBVIOUS

LEMMA Division ==
  ASSUME NEW x \in Nat, NEW d \in Nat \ {0}
  PROVE  /\ x \div d \in Nat /\ (x \div d) * d <= x /\ x < (x \div d) * d + d
OBVIOUS

LEMMA QuotientAtLeast ==
  ASSUME NEW x \in Nat, NEW d \in Nat \ {0}, NEW q \in Nat, q * d <= x
  PROVE  x \div d >= q
<1> DEFINE r == x \div d
<1>1. r \in Nat /\ x < r * d + d
  BY Division
<1> HIDE DEF r
<1>2. CASE r + 1 <= q
  <2>1. (r + 1) * d <= q * d
    BY <1>1, <1>2, Monotone
  <2>2. (r + 1) * d = r * d + d
    BY <1>1, NextMultiple
  <2>3. QED
    BY <1>1, <2>1, <2>2
<1>3. QED
  BY <1>1, <1>2 DEF r

LEMMA QuotientIs ==
  ASSUME NEW x \in Nat, NEW d \in Nat \ {0}, NEW q \in Nat, q * d <= x, x < q * d + d
  PROVE  x \div d = q
<1> DEFINE r == x \div d
<1>1. r \in Nat /\ r * d <= x /\ r >= q
  BY Division, QuotientAtLeast
<1> HIDE DEF r
<1>2. CASE q + 1 <= r
  <2>1. (q + 1) * d <= r * d
    BY <1>1, <1>2, Monotone
  <2>2. (q + 1) * d = q * d + d
    BY NextMultiple
  <2>3. QED
    BY <1>1, <2>1, <2>2
<1>3. QED
  BY <1>1, <1>2 DEF r

LEMMA Multiples ==
  ASSUME NEW n \in Nat, NEW e \in Nat, NEW a \in PowersOfTwo, e % a = 0
  PROVE  (n * e) % a = 0
<1>1. PICK q \in Nat : e = a * q
  BY SMTT(30) DEF PowersOfTwo
<1>2. PICK m \in Nat : m = n * q
  OBVIOUS
<1>3. a \in Nat
  BY DEF PowersOfTwo
<1>4. n * e = a * m
  BY <1>1, <1>2, <1>3
<1>5. (a * m) % a = 0
  BY SMTT(30) DEF PowersOfTwo
<1>6. QED
  BY <1>4, <1>5

LEMMA HasLeast ==
  ASSUME NEW S \in SUBSET Nat, S # {}
  PROVE  \E m \in S : \A k \in S : m <= k
<1>1. PICK m \in S : \A k \in S : ~(<<k, m>> \in OpToRel(<, Nat))
  BY WFMin, NatLessThanWellFounded
<1>2. \A k \in S : ~(k < m)
  BY <1>1 DEF OpToRel
<1>3. QED
  BY <1>2
-----------------------------------------------------------------------------
LEMMA AlignUp ==
  ASSUME NEW n \in Nat \ {0}, NEW a \in PowersOfTwo
  PROVE  /\ Align(n, a) \in Nat \ {0}
         /\ Align(n, a) >= n
         /\ Align(n, a) % a = 0
BY SMTT(60) DEF Align, PowersOfTwo

LEMMA LinearFits ==
  ASSUME NEW n \in Nat \ {0}
  PROVE  /\ LinearIndex(n) \in Nat
         /\ LinearSize(LinearIndex(n)) \in Nat
         /\ LinearSize(LinearIndex(n)) >= n
         /\ LinearIndex(n) > 0 => LinearSize(LinearIndex(n) - 1) < n
BY DEF LinearIndex, LinearSize

LEMMA LinearAligned ==
  ASSUME NEW n \in Nat \ {0}, NEW a \in PowersOfTwo, n % a = 0
  PROVE  LinearSize(LinearIndex(n)) % a = 0
BY SMTT(60) DEF LinearIndex, LinearSize, PowersOfTwo

LEMMA PLFits ==
  ASSUME NEW n \in Nat \ {0}
  PROVE  /\ PLIndex(n) \in Nat
         /\ PLSize(PLIndex(n)) \in Nat
         /\ PLSize(PLIndex(n)) >= n
         /\ PLIndex(n) > 0 => PLSize(PLIndex(n) - 1) < n
BY DEF PLIndex, PLSize

LEMMA PLAligned ==
  ASSUME NEW n \in Nat \ {0}, NEW a \in PowersOfTwo, n % a = 0
  PROVE  PLSize(PLIndex(n)) % a = 0
BY SMTT(60) DEF PLIndex, PLSize, PowersOfTwo

(* The next aligned bucket: 4096 is a multiple of every alignment. *)
LEMMA LinearNextAligned ==
  ASSUME NEW i \in Nat, NEW a \in PowersOfTwo, LinearSize(i) % a = 0
  PROVE  \E k \in 1..256 : LinearSize(i + k) % a = 0
<1>1. LinearSize(i + 256) % a = 0
  BY SMTT(60) DEF LinearSize, PowersOfTwo
<1>2. QED
  BY <1>1

LEMMA PLNextAligned ==
  ASSUME NEW i \in Nat, NEW a \in PowersOfTwo, PLSize(i) % a = 0
  PROVE  \E k \in 1..256 : PLSize(i + k) % a = 0
<1>1. CASE i <= 14
  <2>1. PLSize(i + (20 - i)) % a = 0 /\ 20 - i \in 1..256
    BY <1>1, SMTT(60) DEF PLSize, PowersOfTwo
  <2>2. QED
    BY <2>1
<1>2. CASE i > 14
  <2>1. PLSize(i + 8) % a = 0
    BY <1>2, SMTT(60) DEF PLSize, PowersOfTwo
  <2>2. QED
    BY <2>1
<1>3. QED
  BY <1>1, <1>2

LEMMA LinearGrows ==
  ASSUME NEW i \in Nat
  PROVE  \A k \in 1..3 : LinearSize(i + k) > LinearSize(i + k - 1)
BY DEF LinearSize

LEMMA PLGrows ==
  ASSUME NEW i \in Nat
  PROVE  \A k \in 1..3 : PLSize(i + k) > PLSize(i + k - 1)
BY DEF PLSize

(* Over any number of buckets. *)
LEMMA LinearMonotone ==
  ASSUME NEW i \in Nat, NEW j \in Nat, i <= j
  PROVE  LinearSize(i) \in Nat \ {0} /\ LinearSize(i) <= LinearSize(j)
BY DEF LinearSize

LEMMA PLMonotone ==
  ASSUME NEW i \in Nat, NEW j \in Nat, i <= j
  PROVE  PLSize(i) \in Nat \ {0} /\ PLSize(i) <= PLSize(j)
BY DEF PLSize
-----------------------------------------------------------------------------
(* The float partitioning.  Its powers of two are a recursive function: it   *)
(* exists because every initial part of it does, and they agree.             *)
DoublesTo(f, m) == f[0] = 1 /\ \A k \in 1..m : f[k] = 2 * f[k - 1]

LEMMA DoublesSome == \A m \in Nat : \E f : DoublesTo(f, m)
<1> DEFINE S == {m \in Nat : ~\E f : DoublesTo(f, m)}
<1>1. ASSUME S # {} PROVE FALSE
  <2>1. PICK m \in S : \A k \in S : m <= k
    BY <1>1, HasLeast
  <2>2. m # 0
    <3>1. DoublesTo([k \in {0} |-> 1], 0)
      BY DEF DoublesTo
    <3>2. QED
      BY <2>1, <3>1
  <2>3. m - 1 \in Nat /\ m - 1 \notin S
    BY <2>1, <2>2
  <2>4. PICK f : DoublesTo(f, m - 1)
    BY <2>3
  <2> DEFINE g == [k \in 0..m |-> IF k = m THEN 2 * f[m - 1] ELSE f[k]]
  <2>5. g[0] = 1
    BY <2>1, <2>2, <2>4 DEF DoublesTo
  <2>6. ASSUME NEW k \in 1..m PROVE g[k] = 2 * g[k - 1]
    BY <2>1, <2>4 DEF DoublesTo
  <2>7. DoublesTo(g, m)
    <3> HIDE DEF g
    <3>1. QED
      BY <2>5, <2>6 DEF DoublesTo
  <2>8. QED
    BY <2>1, <2>7
<1>2. QED
  BY <1>1

LEMMA DoublesSame ==
  ASSUME NEW m \in Nat, NEW n \in Nat, m <= n, NEW f, NEW g, DoublesTo(f, m), DoublesTo(g, n)
  PROVE  \A k \in 0..m : f[k] = g[k]
<1> DEFINE S == {k \in 0..m : f[k] # g[k]}
<1>1. ASSUME S # {} PROVE FALSE
  <2>0. S \in SUBSET Nat
    OBVIOUS
  <2>1. PICK k \in S : \A i \in S : k <= i
    BY <1>1, <2>0, HasLeast
  <2>2. k # 0
    BY <2>1 DEF DoublesTo
  <2>3. k - 1 \in 0..m /\ k - 1 \notin S
    BY <2>1, <2>2
  <2>4. f[k - 1] = g[k - 1] /\ k \in 1..m /\ k \in 1..n
    BY <2>1, <2>2, <2>3
  <2>5. f[k] = 2 * f[k - 1] /\ g[k] = 2 * g[k - 1]
    BY <2>4 DEF DoublesTo
  <2>6. QED
    BY <2>1, <2>4, <2>5
<1>2. QED
  BY <1>1

LEMMA PowerIs == Power = [k \in Nat |-> IF k = 0 THEN 1 ELSE 2 * Power[k - 1]]
<1> DEFINE A(k) == CHOOSE f : DoublesTo(f, k)
           H == [k \in Nat |-> A(k)[k]]
<1>1. \A k \in Nat : DoublesTo(A(k), k)
  BY DoublesSome
<1> HIDE DEF A
<1>2. ASSUME NEW k \in Nat PROVE H[k] = IF k = 0 THEN 1 ELSE 2 * H[k - 1]
  <2>1. CASE k = 0
    BY <1>1, <2>1 DEF DoublesTo
  <2>2. CASE k # 0
    <3>1. k - 1 \in Nat /\ k - 1 <= k /\ k \in 1..k /\ k - 1 \in 0..(k - 1)
      BY <2>2
    <3>2. DoublesTo(A(k - 1), k - 1) /\ DoublesTo(A(k), k)
      BY <1>1, <3>1
    <3>3. A(k - 1)[k - 1] = A(k)[k - 1]
      BY <3>1, <3>2, DoublesSame
    <3>4. A(k)[k] = 2 * A(k)[k - 1]
      BY <3>1, <3>2 DEF DoublesTo
    <3>5. H[k] = A(k)[k] /\ H[k - 1] = A(k - 1)[k - 1]
      BY <3>1
    <3> HIDE DEF H
    <3>6. QED
      BY <2>2, <3>3, <3>4, <3>5
  <2>3. QED
    BY <2>1, <2>2
<1>3. H = [k \in Nat |-> IF k = 0 THEN 1 ELSE 2 * H[k - 1]]
  BY <1>2
<1> HIDE DEF H
<1>4. QED
  BY <1>3 DEF Power

LEMMA PowerDoubles ==
  /\ Power[0] = 1
  /\ \A k \in Nat : Power[k + 1] = 2 * Power[k]
<1>1. \A k \in Nat : Power[k] = IF k = 0 THEN 1 ELSE 2 * Power[k - 1]
  BY PowerIs
<1>2. ASSUME NEW k \in Nat PROVE Power[k + 1] = 2 * Power[k]
  <2>1. k + 1 \in Nat /\ k + 1 # 0 /\ (k + 1) - 1 = k
    OBVIOUS
  <2>2. QED
    BY <1>1, <2>1
<1>3. QED
  BY <1>1, <1>2

LEMMA PowerType == \A k \in Nat : Power[k] \in Nat \ {0}
<1> DEFINE S == {k \in Nat : Power[k] \notin Nat \ {0}}
<1>1. ASSUME S # {} PROVE FALSE
  <2>1. PICK k \in S : \A i \in S : k <= i
    BY <1>1, HasLeast
  <2>2. k # 0
    BY <2>1, PowerDoubles
  <2>3. PICK j \in Nat : k = j + 1
    BY <2>1, <2>2
  <2>4. Power[j] \in Nat \ {0}
    BY <2>1, <2>3
  <2>5. QED
    BY <2>1, <2>3, <2>4, PowerDoubles
<1>2. QED
  BY <1>1

(* The first ones; every later one is a multiple of the largest alignment. *)
LEMMA FirstPowers ==
  /\ Power[0] = 1 /\ Power[1] = 2 /\ Power[2] = 4 /\ Power[3] = 8 /\ Power[4] = 16
  /\ Power[5] = 32 /\ Power[6] = 64 /\ Power[7] = 128 /\ Power[8] = 256
  /\ Power[9] = 512 /\ Power[10] = 1024 /\ Power[11] = 2048 /\ Power[12] = 4096
<1>1. \A k \in Nat : Power[k + 1] = 2 * Power[k]
  BY PowerDoubles
<1>2. Power[0] = 1 /\ Power[1] = 2 /\ Power[2] = 4 /\ Power[3] = 8 /\ Power[4] = 16
  <2>1. Power[0 + 1] = 2 * Power[0] /\ Power[1 + 1] = 2 * Power[1]
    BY <1>1
  <2>2. Power[2 + 1] = 2 * Power[2] /\ Power[3 + 1] = 2 * Power[3]
    BY <1>1
  <2>3. QED
    BY <2>1, <2>2, PowerDoubles
<1>3. Power[5] = 32 /\ Power[6] = 64 /\ Power[7] = 128 /\ Power[8] = 256
  <2>1. Power[4 + 1] = 2 * Power[4] /\ Power[5 + 1] = 2 * Power[5]
    BY <1>1
  <2>2. Power[6 + 1] = 2 * Power[6] /\ Power[7 + 1] = 2 * Power[7]
    BY <1>1
  <2>3. QED
    BY <1>2, <2>1, <2>2
<1>4. Power[9] = 512 /\ Power[10] = 1024 /\ Power[11] = 2048 /\ Power[12] = 4096
  <2>1. Power[8 + 1] = 2 * Power[8] /\ Power[9 + 1] = 2 * Power[9]
    BY <1>1
  <2>2. Power[10 + 1] = 2 * Power[10] /\ Power[11 + 1] = 2 * Power[11]
    BY <1>1
  <2>3. QED
    BY <1>3, <2>1, <2>2
<1>5. QED
  BY <1>2, <1>3, <1>4

LEMMA LaterPowers == \A k \in Nat : k >= 12 => Power[k] % 4096 = 0
<1> DEFINE S == {k \in Nat : k >= 12 /\ Power[k] % 4096 # 0}
<1>1. ASSUME S # {} PROVE FALSE
  <2>0. S \in SUBSET Nat
    OBVIOUS
  <2>1. PICK k \in S : \A i \in S : k <= i
    <3> HIDE DEF S
    <3>1. QED
      BY <1>1, <2>0, HasLeast
  <2>2. k # 12
    BY <2>1, FirstPowers
  <2>3. PICK j \in Nat : k = j + 1 /\ j >= 12
    BY <2>1, <2>2
  <2>4. Power[j] % 4096 = 0 /\ Power[j] \in Nat
    BY <2>1, <2>3, PowerType
  <2>5. (2 * Power[j]) % 4096 = 0
    BY <2>4
  <2>6. QED
    BY <2>1, <2>3, <2>5, PowerDoubles
<1>2. QED
  BY <1>1

(* One of a power and an alignment divides the other. *)
LEMMA PowerOrAlignment ==
  ASSUME NEW s \in Nat, NEW a \in PowersOfTwo
  PROVE  Power[s] % a = 0 \/ a % Power[s] = 0
<1>1. CASE s <= 12
  <2>1. Power[s] \in PowersOfTwo
    <3>1. s \in 0..12
      BY <1>1
    <3>2. QED
      BY <3>1, FirstPowers DEF PowersOfTwo
  <2>2. \A p, q \in PowersOfTwo : p % q = 0 \/ q % p = 0
    BY SMTT(60) DEF PowersOfTwo
  <2>3. QED
    BY <2>1, <2>2
<1>2. CASE s > 12
  <2>1. Power[s] % 4096 = 0 /\ Power[s] \in Nat
    BY <1>2, LaterPowers, PowerType
  <2>2. Power[s] % a = 0
    BY <2>1, SMTT(60) DEF PowersOfTwo
  <2>3. QED
    BY <2>2
<1>3. QED
  BY <1>1, <1>2

(* What uintToFloatRoundUp() does with a 32-bit number: it keeps the three    *)
(* highest bits, q, and adds one to them when it loses any that is set.       *)
LEMMA HighestSet ==
  ASSUME NEW n \in Nat \ {0}, n < Power[32]
  PROVE  /\ HighestSetBit(n) \in 0..31
         /\ Power[HighestSetBit(n)] <= n /\ n < 2 * Power[HighestSetBit(n)]
<1> DEFINE S == {k \in Nat : n < Power[k]}
<1>1. PICK m \in S : \A k \in S : m <= k
  <2>1. S \in SUBSET Nat /\ 32 \in S
    OBVIOUS
  <2> HIDE DEF S
  <2>2. QED
    BY <2>1, HasLeast
<1>2. m \in Nat /\ m <= 32 /\ n < Power[m]
  BY <1>1
<1>3. m # 0
  BY <1>2, PowerDoubles
<1>4. PICK k \in 0..31 : m = k + 1
  BY <1>2, <1>3
<1>5. Power[k] \in Nat \ {0} /\ k \notin S
  BY <1>1, <1>4, PowerType
<1>6. Power[k] <= n /\ n < 2 * Power[k]
  BY <1>2, <1>4, <1>5, PowerDoubles
<1>7. n \div Power[k] = 1
  <2>1. 1 * Power[k] <= n /\ n < 1 * Power[k] + Power[k]
    BY <1>5, <1>6
  <2>2. QED
    BY <1>5, <2>1, QuotientIs
<1>8. HighestSetBit(n) \in 0..31 /\ n \div Power[HighestSetBit(n)] = 1
  BY <1>7 DEF HighestSetBit
<1>9. PICK h : h = HighestSetBit(n)
  OBVIOUS
<1>10. h \in 0..31 /\ Power[h] \in Nat \ {0} /\ n \div Power[h] = 1
  BY <1>8, <1>9, PowerType
<1>11. 1 * Power[h] <= n /\ n < 1 * Power[h] + Power[h]
  BY <1>10, Division
<1>12. QED
  BY <1>9, <1>10, <1>11

LEMMA RoundsUp ==
  ASSUME NEW n \in Nat, n >= 4, n < Power[32]
  PROVE  \E s \in 0..29, q \in 4..7, c \in 0..1 :
           /\ uintToFloatRoundUp(n) = (s + 1) * 4 + (q - 4) + c
           /\ q * Power[s] <= n /\ n < q * Power[s] + Power[s]
           /\ c = 0 <=> n = q * Power[s]
<1>1. PICK h \in 0..31 : h = HighestSetBit(n) /\ Power[h] <= n /\ n < 2 * Power[h]
  BY HighestSet
<1>2. h # 0 /\ h # 1
  BY <1>1, FirstPowers
<1>3. PICK s \in 0..29 : h = s + 2
  BY <1>1, <1>2
<1>4. PICK P \in Nat \ {0} : P = Power[s]
  BY PowerType
<1>5. Power[h] = 4 * P
  <2>1. Power[s + 1] = 2 * P /\ Power[(s + 1) + 1] = 2 * Power[s + 1]
    BY <1>4, PowerDoubles
  <2>2. (s + 1) + 1 = h
    BY <1>3
  <2>3. QED
    BY <2>1, <2>2
<1>6. PICK q \in Nat : q = n \div P
  BY Division
<1>7. q * P <= n /\ n < q * P + P
  BY <1>6, Division
<1>8. q \in 4..7
  <2>1. q >= 4
    BY <1>1, <1>5, <1>6, QuotientAtLeast
  <2>2. CASE q >= 8
    <3>1. 8 * P <= q * P
      BY <2>2, Monotone
    <3>2. QED
      BY <1>1, <1>5, <1>7, <3>1
  <2>3. QED
    BY <2>1, <2>2
<1>9. n % P = n - q * P
  <2>1. n = P * (n \div P) + (n % P)
    OBVIOUS
  <2>2. P * (n \div P) = q * P
    BY <1>6
  <2>3. n % P \in Nat /\ q * P \in Nat
    OBVIOUS
  <2>4. QED
    BY <2>1, <2>2, <2>3
<1>10. q % 4 = q - 4
  BY <1>8
<1> DEFINE c == IF n % P # 0 THEN 1 ELSE 0
<1>11. uintToFloatRoundUp(n) = (s + 1) * 4 + (q - 4) + c
  <2>1. HighestSetBit(n) - 2 = s
    BY <1>1, <1>3
  <2>2. uintToFloatRoundUp(n) = (s + 1) * 4 + ((n \div P) % 4) + c
    BY <1>4, <2>1 DEF uintToFloatRoundUp, MantissaValue
  <2>3. QED
    BY <1>6, <1>10, <2>2
<1>12. c \in 0..1 /\ (c = 0 <=> n = q * P)
  <2>1. q * P \in Nat
    OBVIOUS
  <2>2. QED
    BY <1>9, <2>1
<1> HIDE DEF c
<1>13. QED
  BY <1>4, <1>7, <1>8, <1>11, <1>12

(* What floatToUint() makes of it, the carry into the exponent included. *)
LEMMA FloatValue ==
  ASSUME NEW s \in Nat, NEW m \in 0..4
  PROVE  floatToUint((s + 1) * 4 + m) = (m + 4) * Power[s]
<1>1. Power[s] \in Nat /\ Power[s + 1] = 2 * Power[s]
  BY PowerType, PowerDoubles
<1>2. CASE m <= 3
  <2>1. ((s + 1) * 4 + m) \div 4 = s + 1 /\ ((s + 1) * 4 + m) % 4 = m /\ (s + 1) - 1 = s /\ s + 1 # 0
    BY <1>2
  <2>2. QED
    BY <2>1 DEF floatToUint, MantissaValue
<1>3. CASE m = 4
  <2>1. ((s + 1) * 4 + m) \div 4 = s + 2 /\ ((s + 1) * 4 + m) % 4 = 0 /\ (s + 2) - 1 = s + 1 /\ s + 2 # 0
    BY <1>3
  <2>2. floatToUint((s + 1) * 4 + m) = (0 + 4) * Power[s + 1]
    BY <2>1 DEF floatToUint, MantissaValue
  <2>3. QED
    BY <1>1, <1>3, <2>2
<1>4. QED
  BY <1>2, <1>3

(* The sizes of blocks: four to every power of two from 16 on. *)
LEMMA FloatSizeIs ==
  ASSUME NEW e \in Nat, NEW m \in 0..4
  PROVE  FloatSize(4 * e + m) = (m + 4) * Power[e + 2]
<1>1. e + 2 \in Nat /\ (4 * e + m) + 12 = ((e + 2) + 1) * 4 + m
  OBVIOUS
<1>2. QED
  BY <1>1, FloatValue DEF FloatSize

LEMMA FloatBucket ==
  ASSUME NEW i \in Nat
  PROVE  \E e \in Nat, m \in 0..3 : i = 4 * e + m
<1>1. i = 4 * (i \div 4) + (i % 4) /\ i \div 4 \in Nat /\ i % 4 \in 0..3
  OBVIOUS
<1>2. QED
  BY <1>1

LEMMA FloatStep ==
  ASSUME NEW i \in Nat
  PROVE  /\ FloatSize(i) \in Nat
         /\ FloatSize(i) < FloatSize(i + 1)
         /\ FloatSize(i + 4) = 2 * FloatSize(i)
<1>1. PICK e \in Nat, m \in 0..3 : i = 4 * e + m
  BY FloatBucket
<1>2. PICK P \in Nat \ {0} : P = Power[e + 2]
  BY PowerType
<1>3. Power[(e + 1) + 2] = 2 * P
  <2>1. (e + 1) + 2 = (e + 2) + 1 /\ e + 2 \in Nat
    OBVIOUS
  <2>2. QED
    BY <1>2, <2>1, PowerDoubles
<1>4. FloatSize(i) = (m + 4) * P
  BY <1>1, <1>2, FloatSizeIs
<1>5. FloatSize(i + 1) = ((m + 1) + 4) * P
  <2>1. i + 1 = 4 * e + (m + 1) /\ m + 1 \in 0..4
    BY <1>1
  <2>2. QED
    BY <1>2, <2>1, FloatSizeIs
<1>6. FloatSize(i + 4) = (m + 4) * (2 * P)
  <2>1. i + 4 = 4 * (e + 1) + m /\ e + 1 \in Nat /\ m \in 0..4
    BY <1>1
  <2>2. QED
    BY <1>3, <2>1, FloatSizeIs
<1>7. m = 0 \/ m = 1 \/ m = 2 \/ m = 3
  OBVIOUS
<1>8. QED
  BY <1>4, <1>5, <1>6, <1>7

LEMMA FloatMonotone ==
  ASSUME NEW i \in Nat, NEW j \in Nat, i <= j
  PROVE  FloatSize(i) \in Nat /\ FloatSize(i) >= 16 /\ FloatSize(i) <= FloatSize(j)
<1>1. FloatSize(0) = 16
  <2>1. FloatSize(4 * 0 + 0) = (0 + 4) * Power[0 + 2]
    BY FloatSizeIs
  <2>2. QED
    BY <2>1, FirstPowers
<1>2. ASSUME NEW k \in Nat PROVE \A n \in Nat : k <= n => FloatSize(k) <= FloatSize(n)
  <2> DEFINE S == {n \in Nat : k <= n /\ ~(FloatSize(k) <= FloatSize(n))}
  <2>1. ASSUME S # {} PROVE FALSE
    <3>1. PICK n \in S : \A l \in S : n <= l
      <4>1. S \in SUBSET Nat
        OBVIOUS
      <4> HIDE DEF S
      <4>2. QED
        BY <2>1, <4>1, HasLeast
    <3>2. n \in Nat /\ n # k /\ n > k
      <4>1. FloatSize(k) \in Nat
        BY FloatStep
      <4>2. QED
        BY <3>1, <4>1
    <3>3. PICK l \in Nat : n = l + 1 /\ k <= l
      BY <3>2
    <3>4. FloatSize(k) <= FloatSize(l)
      BY <3>1, <3>3
    <3>5. QED
      BY <3>1, <3>3, <3>4, FloatStep
  <2>2. QED
    BY <2>1
<1>3. FloatSize(0) <= FloatSize(i) /\ FloatSize(i) <= FloatSize(j)
  BY <1>2
<1>4. FloatSize(i) \in Nat
  BY FloatStep
<1>5. QED
  BY <1>1, <1>3, <1>4

(* The smallest sizes share the first bucket. *)
LEMMA FloatSmall ==
  ASSUME NEW n \in Nat \ {0}, n < Power[32], uintToFloatRoundUp(n) < 12
  PROVE  n <= 16
<1>1. CASE n >= 4
  <2>1. PICK s \in 0..29, q \in 4..7, c \in 0..1 :
             /\ uintToFloatRoundUp(n) = (s + 1) * 4 + (q - 4) + c
             /\ n < q * Power[s] + Power[s]
    BY <1>1, RoundsUp
  <2>2. s = 0 \/ s = 1
    BY <2>1
  <2>3. QED
    BY <2>1, <2>2, FirstPowers
<1>2. QED
  BY <1>1

(* The larger ones get the least size that is not below them. *)
LEMMA FloatLarge ==
  ASSUME NEW n \in Nat \ {0}, n < Power[32], ~(uintToFloatRoundUp(n) < 12)
  PROVE  \E s \in 0..29, q \in 4..7, c \in 0..1 :
           /\ uintToFloatRoundUp(n) = (s + 1) * 4 + (q - 4) + c
           /\ q * Power[s] <= n /\ n < q * Power[s] + Power[s]
           /\ c = 0 <=> n = q * Power[s]
           /\ FloatIndex(n) = (s + 1) * 4 + (q - 4) + c - 12
           /\ FloatIndex(n) \in Nat
           /\ FloatSize(FloatIndex(n)) = (q + c) * Power[s]
<1>1. n >= 4
  BY DEF uintToFloatRoundUp, MantissaValue
<1>2. PICK s \in 0..29, q \in 4..7, c \in 0..1 :
           /\ uintToFloatRoundUp(n) = (s + 1) * 4 + (q - 4) + c
           /\ q * Power[s] <= n /\ n < q * Power[s] + Power[s]
           /\ c = 0 <=> n = q * Power[s]
  BY <1>1, RoundsUp
<1>3. FloatIndex(n) = (s + 1) * 4 + (q - 4) + c - 12 /\ FloatIndex(n) \in Nat
  BY <1>2 DEF FloatIndex
<1>4. FloatSize(FloatIndex(n)) = (q + c) * Power[s]
  <2>1. FloatIndex(n) + 12 = (s + 1) * 4 + ((q - 4) + c)
    BY <1>3
  <2>2. (q - 4) + c \in 0..4 /\ ((q - 4) + c) + 4 = q + c /\ s \in Nat
    OBVIOUS
  <2>3. QED
    BY <2>1, <2>2, FloatValue DEF FloatSize
<1>5. QED
  BY <1>2, <1>3, <1>4

LEMMA FloatFits ==
  ASSUME NEW n \in Nat \ {0}, n < Power[32]
  PROVE  /\ FloatIndex(n) \in Nat
         /\ FloatSize(FloatIndex(n)) \in Nat
         /\ FloatSize(FloatIndex(n)) >= n
         /\ FloatIndex(n) > 0 => FloatSize(FloatIndex(n) - 1) < n
<1>1. CASE uintToFloatRoundUp(n) < 12
  <2>1. FloatIndex(n) = 0 /\ n <= 16
    BY <1>1, FloatSmall DEF FloatIndex
  <2>2. FloatSize(0) \in Nat /\ FloatSize(0) >= 16
    BY FloatMonotone
  <2>3. QED
    BY <2>1, <2>2
<1>2. CASE ~(uintToFloatRoundUp(n) < 12)
  <2>1. PICK s \in 0..29, q \in 4..7, c \in 0..1 :
           /\ uintToFloatRoundUp(n) = (s + 1) * 4 + (q - 4) + c
           /\ q * Power[s] <= n /\ n < q * Power[s] + Power[s]
           /\ c = 0 <=> n = q * Power[s]
           /\ FloatIndex(n) = (s + 1) * 4 + (q - 4) + c - 12
           /\ FloatIndex(n) \in Nat
           /\ FloatSize(FloatIndex(n)) = (q + c) * Power[s]
    BY <1>2, FloatLarge
  <2>2. PICK P \in Nat \ {0} : P = Power[s]
    BY PowerType
  <2>3. (q + c) * P \in Nat /\ (q + c) * P >= n
    <3>1. c = 0 \/ c = 1
      OBVIOUS
    <3>2. (q + 0) * P = q * P /\ (q + 1) * P = q * P + P /\ q * P \in Nat
      BY NextMultiple
    <3>3. QED
      BY <2>1, <2>2, <3>1, <3>2
  <2>4. ASSUME FloatIndex(n) > 0 PROVE FloatSize(FloatIndex(n) - 1) < n
    <3>1. CASE (q - 4) + c > 0
      <4>1. PICK m \in 0..4 : m = (q - 4) + c - 1
        BY <3>1
      <4>2. FloatSize(FloatIndex(n) - 1) = (m + 4) * P
        <5>1. (FloatIndex(n) - 1) + 12 = (s + 1) * 4 + m /\ s \in Nat
          BY <2>1, <4>1
        <5>2. QED
          BY <2>2, <5>1, FloatValue DEF FloatSize
      <4>3. m + 4 = (q + c) - 1
        BY <4>1
      <4>4. CASE c = 0
        <5>1. (q - 1) * P = q * P - P /\ q * P \in Nat
          BY NextMultiple
        <5>2. QED
          BY <2>1, <2>2, <4>2, <4>3, <4>4, <5>1
      <4>5. CASE c = 1
        <5>1. (q + 1) - 1 = q /\ q * P \in Nat /\ n # q * P
          BY <2>1, <2>2, <4>5
        <5>2. QED
          BY <2>1, <2>2, <4>2, <4>3, <4>5, <5>1
      <4>6. QED
        BY <4>4, <4>5
    <3>2. CASE ~((q - 4) + c > 0)
      <4>1. q = 4 /\ c = 0 /\ n = 4 * P
        BY <2>1, <2>2, <3>2
      <4>2. PICK r \in Nat : s = r + 1
        BY <2>1, <2>4, <4>1
      <4>3. (FloatIndex(n) - 1) + 12 = (r + 1) * 4 + 3
        BY <2>1, <4>1, <4>2
      <4>4. FloatSize(FloatIndex(n) - 1) = (3 + 4) * Power[r]
        BY <4>3, FloatValue DEF FloatSize
      <4>5. Power[r] \in Nat \ {0} /\ P = 2 * Power[r]
        BY <2>2, <4>2, PowerType, PowerDoubles
      <4>6. QED
        BY <4>1, <4>4, <4>5
    <3>3. QED
      BY <3>1, <3>2
  <2>5. QED
    BY <2>1, <2>2, <2>3, <2>4
<1>3. QED
  BY <1>1, <1>2

LEMMA FloatAligned ==
  ASSUME NEW n \in Nat \ {0}, n < Power[32], NEW a \in PowersOfTwo, n % a = 0
  PROVE  FloatSize(FloatIndex(n)) % a = 0
<1>1. CASE uintToFloatRoundUp(n) < 12
  <2>1. FloatIndex(n) = 0 /\ n <= 16
    BY <1>1, FloatSmall DEF FloatIndex
  <2>2. FloatSize(0) = 16
    <3>1. FloatSize(4 * 0 + 0) = (0 + 4) * Power[0 + 2]
      BY FloatSizeIs
    <3>2. QED
      BY <3>1, FirstPowers
  <2>3. 16 % a = 0
    BY <2>1, SMTT(60) DEF PowersOfTwo
  <2>4. QED
    BY <2>1, <2>2, <2>3
<1>2. CASE ~(uintToFloatRoundUp(n) < 12)
  <2>1. PICK s \in 0..29, q \in 4..7, c \in 0..1 :
           /\ c = 0 <=> n = q * Power[s]
           /\ q * Power[s] <= n /\ n < q * Power[s] + Power[s]
           /\ FloatSize(FloatIndex(n)) = (q + c) * Power[s]
    BY <1>2, FloatLarge
  <2>2. PICK P \in Nat \ {0} : P = Power[s]
    BY PowerType
  <2>3. CASE c = 0
    BY <2>1, <2>3
  <2>4. CASE c = 1
    <3>1. CASE P % a = 0
      <4>1. PICK r \in Nat : r = q + c
        OBVIOUS
      <4>2. (r * P) % a = 0
        BY <3>1, Multiples
      <4>3. QED
        BY <2>1, <2>2, <4>1, <4>2
    <3>2. CASE a % P = 0
      <4>1. PICK k \in Nat : n = a * k
        BY SMTT(60) DEF PowersOfTwo
      <4>2. PICK d \in Nat : a = P * d
        <5>1. a \in Nat
          BY DEF PowersOfTwo
        <5>2. a = P * (a \div P) + (a % P) /\ a \div P \in Nat
          BY <5>1
        <5>3. a = P * (a \div P)
          BY <3>2, <5>1, <5>2
        <5>4. QED
          BY <5>2, <5>3
      <4>3. PICK j \in Nat : j = d * k
        OBVIOUS
      <4>4. n = j * P
        BY <4>1, <4>2, <4>3
      <4>5. n \div P = q /\ n \div P = j
        <5>1. q * P <= n /\ n < q * P + P /\ j * P <= n /\ n < j * P + P
          BY <2>1, <2>2, <4>4
        <5>2. QED
          BY <5>1, QuotientIs
      <4>6. QED
        BY <2>1, <2>2, <2>4, <4>4, <4>5
    <3>3. QED
      BY <2>2, <3>1, <3>2, PowerOrAlignment
  <2>5. QED
    BY <2>3, <2>4
<1>3. QED
  BY <1>1, <1>2

LEMMA FloatNextAligned ==
  ASSUME NEW i \in Nat, NEW a \in PowersOfTwo, FloatSize(i) % a = 0
  PROVE  \E k \in 1..256 : FloatSize(i + k) % a = 0
<1>1. FloatSize(i) \in Nat /\ FloatSize(i + 4) = 2 * FloatSize(i)
  BY FloatStep
<1>2. (2 * FloatSize(i)) % a = 0
  BY <1>1, Multiples
<1>3. QED
  BY <1>1, <1>2

LEMMA FloatGrows ==
  ASSUME NEW i \in Nat
  PROVE  \A k \in 1..3 : FloatSize(i + k) > FloatSize(i + k - 1)
<1> SUFFICES ASSUME NEW k \in 1..3 PROVE FloatSize(i + k) > FloatSize(i + k - 1)
  OBVIOUS
<1>1. PICK j \in Nat : j = i + k - 1
  OBVIOUS
<1>2. i + k = j + 1
  BY <1>1
<1>3. FloatSize(j) \in Nat /\ FloatSize(j + 1) \in Nat /\ FloatSize(j) < FloatSize(j + 1)
  BY FloatStep
<1>4. QED
  BY <1>1, <1>2, <1>3
=============================================================================
