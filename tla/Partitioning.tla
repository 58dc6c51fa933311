---------------------------- MODULE Partitioning ----------------------------
(***************************************************************************)
(* The arithmetic of SmMalloc/smmalloc.h: rounding to an alignment, and    *)
(* the three schemes, one of them selected at compile time, that say which *)
(* bucket serves a request and how large the blocks of a bucket are.       *)
(*                                                                         *)
(* A mask of the low bits of a power of two is a remainder, a shift is a   *)
(* product or a quotient.                                                  *)
(***************************************************************************)
EXTENDS Integers

(* Allocator::kMaxValidAlignment *)
kMaxValidAlignment == 4096

(* Mutant: the value is rounded down. *)
AlignDown(val, a) == (val \div a) * a

(* The least multiple of a, a power of two, that is not below val. *)
Align(val, a) == ((val + (a - 1)) \div a) * a

IsAligned(v, a) == v % a = 0
-----------------------------------------------------------------------------
(* SMM_LINEAR_PARTITIONING: every bucket 16 bytes larger. *)
LinearIndex(n) == (n - 1) \div 16
LinearSize(i) == 16 + i * 16

(* SMM_PL_PARTITIONING: steps of 16, of 128 above 128, of 512 above 1024. *)
PLIndex(n) ==
  LET size == n - 1
  IN  IF size <= 127 THEN size \div 16
      ELSE IF size > 1023 THEN 13 + size \div 512
      ELSE 7 + size \div 128

(* Mutants: the last segment repeats a size, or leaves the grid. *)
PLSizeRepeated(i) ==
  IF i <= 7 THEN (i + 1) * 16 ELSE IF i > 14 THEN (i - 13) * 512 ELSE (i - 6) * 128
PLSizeOffGrid(i) ==
  IF i <= 7 THEN (i + 1) * 16 ELSE IF i > 14 THEN (i - 12) * 512 + 16 ELSE (i - 6) * 128

PLSize(i) ==
  IF i <= 7 THEN (i + 1) * 16
  ELSE IF i > 14 THEN (i - 12) * 512
  ELSE (i - 6) * 128

(* SMM_FLOAT_PARTITIONING: SmallFloat has two bits of mantissa, and the     *)
(* high bit is hidden.                                                      *)
MantissaValue == 4

(* 1 << k *)
Power[k \in Nat] == IF k = 0 THEN 1 ELSE 2 * Power[k - 1]

(* 31 less the leading zeros of a 32-bit number. *)
HighestSetBit(v) == CHOOSE k \in 0..31 : v \div Power[k] = 1

uintToFloatRoundUp(size) ==
  IF size < MantissaValue
  THEN size
  ELSE LET start == HighestSetBit(size) - 2
           mantissa == (size \div Power[start]) % MantissaValue
           lost == size % Power[start]
       IN  (start + 1) * MantissaValue + mantissa + (IF lost # 0 THEN 1 ELSE 0)

floatToUint(f) ==
  LET exponent == f \div MantissaValue
      mantissa == f % MantissaValue
  IN  IF exponent = 0 THEN mantissa ELSE (mantissa + MantissaValue) * Power[exponent - 1]

(* Mutant: the smallest buckets are not skipped. *)
FloatIndexUnshifted(n) == uintToFloatRoundUp(n)

FloatIndex(n) ==
  LET f == uintToFloatRoundUp(n) IN IF f < 12 THEN 0 ELSE f - 12

FloatSize(i) == floatToUint(i + 12)
-----------------------------------------------------------------------------
(* The bucket whose blocks serve n > 0 bytes, by the scheme compiled in. *)
GetBucketIndexBySize(sc, n) ==
  CASE sc = "linear" -> LinearIndex(n)
    [] sc = "pl"     -> PLIndex(n)
    [] sc = "float"  -> FloatIndex(n)

(* The size of the blocks of bucket i. *)
GetBucketSizeInBytesByIndex(sc, i) ==
  CASE sc = "linear" -> LinearSize(i)
    [] sc = "pl"     -> PLSize(i)
    [] sc = "float"  -> FloatSize(i)
=============================================================================
