------------------------------- MODULE MsvcOps -------------------------------
(***************************************************************************)
(* The MSVC branch of atomic_ops.h (lines 60-187) as operators on the      *)
(* content s of the shared location, held as the intrinsic's signed type.  *)
(*                                                                         *)
(* The four `if constexpr (sizeof(T) == ...)` arms of every function call  *)
(* the same intrinsic at widths 8, 16, 32 and 64; Bits stands for the one  *)
(* the caller's T selects.  Each _Interlocked* intrinsic is one atomic     *)
(* read-modify-write returning the previous content; _ReadWriteBarrier is  *)
(* a compiler barrier that changes no value and is left out here.          *)
(***************************************************************************)
EXTENDS Words

(***************************************************************************)
(* The intrinsics: the new content and the previous one (`old`).          *)
(***************************************************************************)
InterlockedOr(s, v) ==
  [old |-> s, new |-> ToSigned(BitOr(ToUnsigned(s), ToUnsigned(v)))]

InterlockedExchange(s, v) == [old |-> s, new |-> v]

InterlockedExchangeAdd(s, v) == [old |-> s, new |-> ToSigned(s + v)]

InterlockedXor(s, v) ==
  [old |-> s, new |-> ToSigned(BitXor(ToUnsigned(s), ToUnsigned(v)))]

InterlockedCompareExchange(s, exchange, comparand) ==
  [old |-> s, new |-> IF s = comparand THEN exchange ELSE s]

(***************************************************************************)
(* detail::atomic_* of the MSVC branch: the new content `mem` and the      *)
(* value returned to the caller `ret` (none for the void atomic_store).    *)
(***************************************************************************)

\* Mutant: a load emulated with _InterlockedAnd(ptr, 0), which clears it.
atomic_load_and0(s) ==
  LET r == InterlockedExchange(s, 0)
  IN  [mem |-> r.new, ret |-> ToUnsigned(r.old)]

\* A load is emulated by _InterlockedOr(ptr, 0): a read-modify-write.
atomic_load(s) ==
  LET r == InterlockedOr(s, 0)
  IN  [mem |-> r.new, ret |-> ToUnsigned(r.old)]

\* A store is an _InterlockedExchange whose result is dropped.
atomic_store(s, v) ==
  [mem |-> InterlockedExchange(s, ToSigned(v)).new]

atomic_exchange(s, v) ==
  LET r == InterlockedExchange(s, ToSigned(v))
  IN  [mem |-> r.new, ret |-> ToUnsigned(r.old)]

\* Mutant: _InterlockedAdd, which returns the new value, used in place of
\* _InterlockedExchangeAdd.
atomic_fetch_add_new(s, v) ==
  LET r == InterlockedExchangeAdd(s, ToSigned(v))
  IN  [mem |-> r.new, ret |-> ToUnsigned(r.new)]

atomic_fetch_add(s, v) ==
  LET r == InterlockedExchangeAdd(s, ToSigned(v))
  IN  [mem |-> r.new, ret |-> ToUnsigned(r.old)]

\* static_cast<T>(-static_cast<std::make_signed_t<T>>(value)).  For the
\* 4- and 8-byte classes, negating the most negative value overflows; the
\* MSVC build wraps, which is what ToUnsigned of the negation gives.
NegateT(v) == ToUnsigned(-ToSigned(v))

\* Subtraction is addition of the negated value.
atomic_fetch_sub(s, v) == atomic_fetch_add(s, NegateT(v))

\* Mutant: the result of _InterlockedXor returned as it is (the old value).
atomic_xor_fetch_old(s, v) ==
  LET r == InterlockedXor(s, ToSigned(v))
  IN  [mem |-> r.new, ret |-> ToUnsigned(r.old)]

\* _InterlockedXor returns the previous value; the function returns
\* old_val ^ value, the new one.
atomic_xor_fetch(s, v) ==
  LET r == InterlockedXor(s, ToSigned(v))
  IN  [mem |-> r.new, ret |-> BitXor(ToUnsigned(r.old), v)]

(***************************************************************************)
(* atomic_compare_exchange in its two steps: the intrinsic, which reads    *)
(* *expected as the comparand, then the comparison of old_val with         *)
(* *expected read again, which writes old_val to *expected on failure.     *)
(***************************************************************************)
\* Mutant: old_val taken as the intrinsic's signed result, without the
\* static_cast back to T.
cas_interlocked_signedold(s, desired, exp) ==
  LET r == InterlockedCompareExchange(s, ToSigned(desired), ToSigned(exp))
  IN  [mem |-> r.new, old_val |-> r.old]

\* Mutant: exchange and comparand handed to the intrinsic in each other's
\* place (_InterlockedCompareExchange takes the new value first).
cas_interlocked_swapped(s, desired, exp) ==
  LET r == InterlockedCompareExchange(s, ToSigned(exp), ToSigned(desired))
  IN  [mem |-> r.new, old_val |-> ToUnsigned(r.old)]

cas_interlocked(s, desired, exp) ==
  LET r == InterlockedCompareExchange(s, ToSigned(desired), ToSigned(exp))
  IN  [mem |-> r.new, old_val |-> ToUnsigned(r.old)]

\* Mutant: the failure branch without `*expected = old_val`.
cas_compare_nowb(old_val, exp) ==
  IF old_val = exp
    THEN [success |-> TRUE,  expected |-> exp]
    ELSE [success |-> FALSE, expected |-> exp]

cas_compare(old_val, exp) ==
  IF old_val = exp
    THEN [success |-> TRUE,  expected |-> exp]
    ELSE [success |-> FALSE, expected |-> old_val]

=============================================================================
