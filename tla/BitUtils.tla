------------------------------ MODULE BitUtils ------------------------------
(***************************************************************************)
(* The bit-probing utilities of namespace mt_kahypar::utils (atomic_ops.h, *)
(* lines 378-405): popcount_64, lowest_set_bit_64 in its MSVC and its      *)
(* GCC/Clang form, the constexpr log2 and is_power_of_2.  The 64-bit word  *)
(* is scaled down to Width bits, log2's int parameter to IntWidth bits.    *)
(*                                                                         *)
(* The functions are pure; the module's one action is a caller evaluating  *)
(* all of them on one input, so that TLC can relate their results.         *)
(***************************************************************************)
EXTENDS Integers, FiniteSets, Bitwise

CONSTANTS
  Width,     \* 64, the width of uint64_t, scaled down
  IntWidth   \* 32, the width of int, scaled down

ASSUME WidthAssumption == Width \in Nat \ {0} /\ IntWidth \in 1 .. Width

Word64 == 0 .. (2 ^ Width - 1)

\* Bit i of x.
Bit(x, i) == shiftR(x, i) & 1

SetBits(x) == {i \in 0 .. (Width - 1) : Bit(x, i) = 1}

LowestOf(S) == CHOOSE i \in S : \A j \in S : i <= j

\* __popcnt64 / __builtin_popcountll: the number of 1 bits.  The
\* static_cast<int> of the MSVC form changes no value (at most 64).
popcount_64(x) == Cardinality(SetBits(x))

\* _BitScanForward64(&index, x): nonzero iff x has a set bit, and then the
\* index of the lowest one; index is not written when x = 0.
BitScanForward64(x) ==
  IF SetBits(x) = {} THEN [found |-> FALSE, index |-> 0]
                     ELSE [found |-> TRUE,  index |-> LowestOf(SetBits(x))]

\* Mutant: the 1-based index of ffs() returned for a found bit.
lowest_set_bit_64_ffs(x) ==
  LET r == BitScanForward64(x)
  IN  IF r.found THEN r.index + 1 ELSE Width

\* MSVC: the found index, or the bit width when there is none.
lowest_set_bit_64(x) ==
  LET r == BitScanForward64(x)
  IN  IF r.found THEN r.index ELSE Width

\* GCC/Clang: __builtin_ctzll(x), undefined for x = 0.  The build can
\* produce any result there: a bsf leaves the register it would have
\* written, tzcnt gives the width, and the optimizer may assume x # 0.
\* The set of results a call can produce, the undefined case scaled to
\* 0 .. Width.
CtzllOutcomes(x) ==
  IF x = 0 THEN 0 .. Width ELSE {LowestOf(SetBits(x))}

lowest_set_bit_64_gcc(x) == CtzllOutcomes(x)

\* Mutant: the recursion stops below 1 instead of at 1.
RECURSIVE log2_lt(_)
log2_lt(x) == IF x < 1 THEN 0 ELSE 1 + log2_lt(x \div 2)

\* A uint64_t argument passed to log2's const int parameter: converted
\* modulo 2^IntWidth into the signed range (C++20; before, implementation-
\* defined, and modular on the supported compilers).
ToInt(v) ==
  LET m == v % 2 ^ IntWidth
  IN  IF m < 2 ^ (IntWidth - 1) THEN m ELSE m - 2 ^ IntWidth

\* The largest int.
IntMax == 2 ^ (IntWidth - 1) - 1

\* x <= 1 ? 0 : 1 + log2(x >> 1); the shift is reached only for x > 1,
\* where it halves.
RECURSIVE log2(_)
log2(x) == IF x <= 1 THEN 0 ELSE 1 + log2(x \div 2)

\* Mutant: the x != 0 test dropped.
is_power_of_2_nozero(x) == (x & ((x - 1) % 2 ^ Width)) = 0

\* x != 0 && (x & (x - 1)) == 0, x - 1 in uint64_t arithmetic.
is_power_of_2(x) == x # 0 /\ (x & ((x - 1) % 2 ^ Width)) = 0

VARIABLES
  x,     \* the input word
  pop,   \* popcount_64(x)
  lsb,   \* lowest_set_bit_64(x), MSVC
  ctz,   \* lowest_set_bit_64(x), GCC/Clang
  lg,    \* log2(x), x converted to int
  pow2   \* is_power_of_2(x)

vars == <<x, pop, lsb, ctz, lg, pow2>>

Evaluated(v, p, l, c, g, w) ==
  /\ p = popcount_64(v)
  /\ l = lowest_set_bit_64(v)
  /\ c \in lowest_set_bit_64_gcc(v)
  /\ g = log2(ToInt(v))
  /\ w = is_power_of_2(v)

Init == x \in Word64 /\ Evaluated(x, pop, lsb, ctz, lg, pow2)

\* A caller evaluates the utilities on v.
Probe(v) == x' = v /\ Evaluated(v, pop', lsb', ctz', lg', pow2')

Next == \E v \in Word64 : Probe(v)

Spec == Init /\ [][Next]_vars

(***************************************************************************)
(* Properties, each relating two utilities or one to its arithmetic        *)
(* meaning.                                                                *)
(***************************************************************************)

\* is_power_of_2 holds exactly of the words popcount_64 counts one bit in;
\* the bit trick x & (x - 1) must not accept 0.
PowerOfTwoIsSingleBit == pow2 <=> pop = 1

\* log2 by recursive halving is the floor of the base-2 logarithm of
\* every positive int it is called with, 1 included.
Log2Floor == x \in 1 .. IntMax => 2 ^ lg <= x /\ x < 2 ^ (lg + 1)

\* For a nonzero word both forms of lowest_set_bit_64 return the number of
\* trailing zero bits: x is divisible by 2^r and x / 2^r is odd.
LowestSetBitArith ==
  x # 0 => \A r \in {lsb, ctz} : x % 2 ^ r = 0 /\ (x \div 2 ^ r) % 2 = 1

\* Spec 4.3 and 8: lowest_set_bit_64(0) is one fixed sentinel, the bit
\* width, on every toolchain.
ZeroSentinel == x = 0 => lsb = Width /\ ctz = Width

=============================================================================
