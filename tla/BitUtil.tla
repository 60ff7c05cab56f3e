------------------------------ MODULE BitUtil ------------------------------
(***************************************************************************)
(* The word arithmetic of include/jemalloc/internal/bit_util.h on words of *)
(* 8 * WordBytes bits, wrapping around as unsigned integers do.  word is   *)
(* the input of the moment.  ffs and clz are compiler builtins.            *)
(***************************************************************************)
EXTENDS Integers
LOCAL INSTANCE Bitwise

CONSTANTS WordBytes, Words

VARIABLE word

WordBits == 8 * WordBytes
Wrap(x) == x % 2 ^ WordBits

Right(x, n) == x \div 2 ^ n

Bit(x, i) == (x \div 2 ^ i) % 2 = 1
BitsOf(x) == {i \in 0 .. WordBits - 1 : Bit(x, i)}
MaxBit(S) == CHOOSE i \in S : \A j \in S : j <= i
MinBit(S) == CHOOSE i \in S : \A j \in S : i <= j

(* The builtins: 1 more than the lowest set bit, and the leading zeros. *)
JEMALLOC_INTERNAL_FFS(x) == 1 + MinBit(BitsOf(x))
builtin_clz(x) == WordBits - 1 - MaxBit(BitsOf(x))

ffs(x) == JEMALLOC_INTERNAL_FFS(x) - 1
fls(x) == (WordBits - 1) ^^ builtin_clz(x)

(* Smear the highest bit down by 1, 2, 4, ... and count where the word     *)
(* after the result starts.                                                *)
fls_slow(x) ==
  LET s1 == (x | Right(x, 1))
      s2 == (s1 | Right(s1, 2))
      s4 == (s2 | Right(s2, 4))
      s8 == IF WordBytes > 1 THEN (s4 | Right(s4, 8)) ELSE s4
      next == Wrap(s8 + 1)
  IN  IF next = 0 THEN WordBits - 1 ELSE ffs(next) - 1

(* Operators named X_<bug> are X with a bug that the properties must       *)
(* detect.  Here the wrap-around of the all-ones word is not met.          *)
fls_slow_wide(x) ==
  LET s1 == (x | Right(x, 1))
      s2 == (s1 | Right(s1, 2))
      s4 == (s2 | Right(s2, 4))
  IN  IF Wrap(s4 + 1) = 0 THEN WordBits - 1 ELSE ffs(Wrap(s4 + 1)) - 1

(* Sideways sums of 2, 4 and 8 bits, then of the bytes. *)
popcount_slow(x) ==
  LET bmul == IF WordBytes = 1 THEN 1 ELSE 257
      x2 == x - (Right(x, 1) & (bmul * 85))
      x4 == (x2 & (bmul * 51)) + (Right(x2, 2) & (bmul * 51))
      x8 == (x4 + Right(x4, 4)) & (bmul * 15)
  IN  Right(Wrap(x8 * bmul), (WordBytes - 1) * 8)

(* The lowest set bit, and the word without it. *)
cfs_lu(x) == [bit |-> ffs(x), rest |-> x & Wrap(x - 1)]

pow2_ceil(x) == IF x <= 1 THEN x ELSE 2 ^ (fls(x - 1) + 1)

lg_floor(x) == fls(x)
lg_ceil(x) == lg_floor(x) + IF (x & (x - 1)) = 0 THEN 0 ELSE 1

(* The compile-time versions halve the width at each level. *)
RECURSIVE LG_FLOOR(_, _)
LG_FLOOR(width, x) ==
  IF width = 1 THEN 0
  ELSE IF x < 2 ^ (width \div 2) THEN LG_FLOOR(width \div 2, x)
  ELSE width \div 2 + LG_FLOOR(width \div 2, Right(x, width \div 2))

LG_CEIL(x) == LG_FLOOR(WordBits, x) + IF (x & (x - 1)) = 0 THEN 0 ELSE 1

WordInit == word \in Words
WordNext == word' = IF word = 0 THEN Wrap(-1) ELSE word \div 2

-----------------------------------------------------------------------------

RECURSIVE CountBits(_)
CountBits(x) == IF x = 0 THEN 0 ELSE (x % 2) + CountBits(x \div 2)

(* Every function of bit_util.h agrees with its definition on the word, in *)
(* the versions with and without builtins, up to the all-ones word.        *)
WordsAgree ==
  /\ popcount_slow(word) = CountBits(word)
  /\ word # 0 =>
       LET high == MaxBit(BitsOf(word))
           ceil == IF 2 ^ high = word THEN high ELSE high + 1
       IN  /\ fls(word) = high
           /\ fls_slow(word) = high
           /\ lg_floor(word) = high
           /\ LG_FLOOR(WordBits, word) = high
           /\ lg_ceil(word) = ceil
           /\ LG_CEIL(word) = ceil
           /\ ceil < WordBits => pow2_ceil(word) = 2 ^ ceil
           /\ BitsOf(cfs_lu(word).rest) = BitsOf(word) \ {cfs_lu(word).bit}
           /\ cfs_lu(word).bit = MinBit(BitsOf(word))
=============================================================================
