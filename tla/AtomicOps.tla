------------------------------ MODULE AtomicOps ------------------------------
(***************************************************************************)
(* What the ordering-tagged API of atomic_ops.h promises: the GCC/Clang    *)
(* branch (lines 204-239), where every mtk_atomic_* call is one            *)
(* __atomic_* builtin, i.e. one indivisible step on the shared location.   *)
(*                                                                         *)
(* One shared location `mem` of the width class Bits is used by the        *)
(* threads in Threads.  expected[t] is the caller-owned variable whose     *)
(* address thread t passes to mtk_atomic_compare_exchange; ret[t] is the   *)
(* value its last value-returning call returned and success[t] the result  *)
(* of its last compare-exchange.  Memory orderings change no value         *)
(* computed here; they are left out of this module.                        *)
(***************************************************************************)
EXTENDS Words

CONSTANTS
  Threads,  \* the calling threads
  Vals      \* the arguments callers pass (value, delta, mask, desired)

VARIABLES mem, expected, ret, success

vars == <<mem, expected, ret, success>>

TypeOK ==
  /\ mem \in Word
  /\ expected \in [Threads -> Word]
  /\ ret \in [Threads -> Word]
  /\ success \in [Threads -> BOOLEAN]

Init ==
  /\ mem \in Word
  /\ expected \in [Threads -> Word]
  /\ ret = [t \in Threads |-> 0]
  /\ success = [t \in Threads |-> FALSE]

Return(t, v) == ret' = [ret EXCEPT ![t] = v] /\ UNCHANGED success

Succeed(t, b) == success' = [success EXCEPT ![t] = b] /\ UNCHANGED ret

\* __atomic_load_n(ptr, order)
Load(t) ==
  /\ Return(t, mem)
  /\ UNCHANGED <<mem, expected>>

\* __atomic_store_n(ptr, value, order)
Store(t, v) ==
  /\ mem' = v
  /\ UNCHANGED <<expected, ret, success>>

\* __atomic_exchange_n(ptr, value, order): returns the previous value.
Exchange(t, v) ==
  /\ mem' = v
  /\ Return(t, mem)
  /\ UNCHANGED expected

\* __atomic_fetch_add(ptr, value, order): wrapping add, previous value.
FetchAdd(t, v) ==
  /\ mem' = (mem + v) % Mod
  /\ Return(t, mem)
  /\ UNCHANGED expected

\* __atomic_fetch_sub(ptr, value, order): wrapping subtract, previous value.
FetchSub(t, v) ==
  /\ mem' = (mem - v) % Mod
  /\ Return(t, mem)
  /\ UNCHANGED expected

\* __atomic_xor_fetch(ptr, value, order): returns the NEW value.
XorFetch(t, v) ==
  /\ mem' = BitXor(mem, v)
  /\ Return(t, BitXor(mem, v))
  /\ UNCHANGED expected

\* __atomic_compare_exchange(ptr, expected, &desired, false, ...): strong
\* CAS; on failure the current value is written to *expected.
CompareExchange(t, d) ==
  IF mem = expected[t]
    THEN /\ mem' = d
         /\ Succeed(t, TRUE)
         /\ UNCHANGED expected
    ELSE /\ expected' = [expected EXCEPT ![t] = mem]
         /\ Succeed(t, FALSE)
         /\ UNCHANGED mem

\* mtk_atomic_compare_exchange_n(ptr, e, d): expected passed by value, so
\* the caller's variables do not change.
CompareExchangeN(t, e, d) ==
  /\ mem' = IF mem = e THEN d ELSE mem
  /\ Succeed(t, mem = e)
  /\ UNCHANGED expected

\* The caller assigns its own expected variable (not a call of the API).
SetExpected(t, v) ==
  /\ expected' = [expected EXCEPT ![t] = v]
  /\ UNCHANGED <<mem, ret, success>>

Next ==
  \E t \in Threads :
    \/ Load(t)
    \/ \E v \in Vals : Store(t, v) \/ Exchange(t, v) \/ FetchAdd(t, v)
                       \/ FetchSub(t, v) \/ XorFetch(t, v)
                       \/ CompareExchange(t, v) \/ SetExpected(t, v)
    \/ \E e, d \in Vals : CompareExchangeN(t, e, d)

Spec == Init /\ [][Next]_vars

=============================================================================
