-------------------------------- MODULE Words --------------------------------
(***************************************************************************)
(* The values of one width class of src/mt-kahypar/utils/atomic_ops.h.     *)
(*                                                                         *)
(* A value of the caller's type T is represented by its bit pattern, a     *)
(* number in Word = 0 .. 2^Bits - 1 (Bits = 8 * sizeof(T)).  The MSVC      *)
(* branch hands every value to an _Interlocked* intrinsic of the signed    *)
(* type of the same width (char, short, long, long long); such a value is  *)
(* a number in SWord.  The two casts the code makes between them,          *)
(* static_cast<char>(value) and static_cast<T>(...), are the modular       *)
(* conversions ToSigned and ToUnsigned.                                    *)
(*                                                                         *)
(* The bitwise operators ^ and | of C++ on Bits-bit words are parameters:  *)
(* the model-checking modules instantiate them with the bitwise operators  *)
(* of the Bitwise module; the proofs use only that they return words.      *)
(***************************************************************************)
EXTENDS Integers

CONSTANTS
  Bits,         \* 8 * sizeof(T): the width class, scaled down for TLC
  BitXor(_, _), \* the C++ operator ^ on two Bits-bit words
  BitOr(_, _)   \* the C++ operator | on two Bits-bit words

ASSUME BitsAssumption == Bits \in Nat \ {0}

Mod  == 2 ^ Bits
Half == 2 ^ (Bits - 1)

\* 2^Bits = 2 * 2^(Bits-1), a fact about powers of two the provers do not
\* derive from the definition of ^.
ASSUME PowerAssumption == Half \in Nat \ {0} /\ Mod = 2 * Half

\* Bit patterns of T.
Word == 0 .. (Mod - 1)

\* Values of the signed intrinsic type of the same width.
SWord == (-Half) .. (Half - 1)

\* ^ and | return words, and OR with 0 changes nothing.
ASSUME BitOpsAssumption ==
  /\ \A x, y \in Word : BitXor(x, y) \in Word /\ BitOr(x, y) \in Word
  /\ \A x \in Word : BitOr(x, 0) = x

\* static_cast<char/short/long/long long>(i): two's complement wrap of i.
ToSigned(i) ==
  LET u == i % Mod IN IF u < Half THEN u ELSE u - Mod

\* static_cast<T>(i) of a signed intrinsic result back to T's bit pattern.
ToUnsigned(i) == i % Mod

=============================================================================
