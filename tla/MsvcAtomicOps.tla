---------------------------- MODULE MsvcAtomicOps ----------------------------
(***************************************************************************)
(* Threads calling the public API (mtk_atomic_*, lines 247-290) built on   *)
(* the MSVC branch.  Every call is one step except the compare-exchanges,  *)
(* which take two: the _InterlockedCompareExchange, then the comparison    *)
(* of old_val with *expected and the write-back on failure (lines          *)
(* 181-186).  `smem` is the location as the intrinsic's signed type;       *)
(* oldv[t] is the local old_val and copy[t] the by-value `expected`        *)
(* parameter of mtk_atomic_compare_exchange_n while thread t is between    *)
(* those two steps.  The module is shown to implement AtomicOps.           *)
(***************************************************************************)
EXTENDS MsvcOps

CONSTANTS Threads, Vals

ASSUME ValsAssumption == Vals \subseteq Word

VARIABLES smem, expected, ret, success, pc, oldv, copy

vars == <<smem, expected, ret, success, pc, oldv, copy>>

\* "idle": not inside a call; "cas_cmp"/"casn_cmp": between the two steps
\* of mtk_atomic_compare_exchange / mtk_atomic_compare_exchange_n.
PC == {"idle", "cas_cmp", "casn_cmp"}

TypeOK ==
  /\ smem \in SWord
  /\ expected \in [Threads -> Word]
  /\ ret \in [Threads -> Word]
  /\ success \in [Threads -> BOOLEAN]
  /\ pc \in [Threads -> PC]
  /\ oldv \in [Threads -> Word]
  /\ copy \in [Threads -> Word]

Init ==
  /\ smem \in SWord
  /\ expected \in [Threads -> Word]
  /\ ret = [t \in Threads |-> 0]
  /\ success = [t \in Threads |-> FALSE]
  /\ pc = [t \in Threads |-> "idle"]
  /\ oldv = [t \in Threads |-> 0]
  /\ copy = [t \in Threads |-> 0]

\* A one-step call by thread t with result r = [mem, ret].
Call(t, r) ==
  /\ pc[t] = "idle"
  /\ smem' = r.mem
  /\ ret' = [ret EXCEPT ![t] = r.ret]
  /\ UNCHANGED <<expected, success, pc, oldv, copy>>

Store(t, v) ==
  /\ pc[t] = "idle"
  /\ smem' = atomic_store(smem, v).mem
  /\ UNCHANGED <<expected, ret, success, pc, oldv, copy>>

Load(t)          == Call(t, atomic_load(smem))
Exchange(t, v)   == Call(t, atomic_exchange(smem, v))
FetchAdd(t, v)   == Call(t, atomic_fetch_add(smem, v))
FetchSub(t, v)   == Call(t, atomic_fetch_sub(smem, v))
XorFetch(t, v)   == Call(t, atomic_xor_fetch(smem, v))

\* mtk_atomic_compare_exchange(ptr, &expected[t], d): the intrinsic.
CasInterlocked(t, d) ==
  LET r == cas_interlocked(smem, d, expected[t])
  IN  /\ pc[t] = "idle"
      /\ smem' = r.mem
      /\ oldv' = [oldv EXCEPT ![t] = r.old_val]
      /\ pc' = [pc EXCEPT ![t] = "cas_cmp"]
      /\ UNCHANGED <<expected, ret, success, copy>>

\* ... then `if (old_val == *expected) ... else *expected = old_val`.
CasCompare(t) ==
  LET r == cas_compare(oldv[t], expected[t])
  IN  /\ pc[t] = "cas_cmp"
      /\ expected' = [expected EXCEPT ![t] = r.expected]
      /\ success' = [success EXCEPT ![t] = r.success]
      /\ pc' = [pc EXCEPT ![t] = "idle"]
      /\ oldv' = [oldv EXCEPT ![t] = 0]
      /\ UNCHANGED <<smem, ret, copy>>

\* mtk_atomic_compare_exchange_n(ptr, e, d): the same on the copy of e.
CasNInterlocked(t, e, d) ==
  LET r == cas_interlocked(smem, d, e)
  IN  /\ pc[t] = "idle"
      /\ smem' = r.mem
      /\ oldv' = [oldv EXCEPT ![t] = r.old_val]
      /\ copy' = [copy EXCEPT ![t] = e]
      /\ pc' = [pc EXCEPT ![t] = "casn_cmp"]
      /\ UNCHANGED <<expected, ret, success>>

\* The comparison writes only the copy, which dies with the call.
CasNCompare(t) ==
  LET r == cas_compare(oldv[t], copy[t])
  IN  /\ pc[t] = "casn_cmp"
      /\ success' = [success EXCEPT ![t] = r.success]
      /\ pc' = [pc EXCEPT ![t] = "idle"]
      /\ oldv' = [oldv EXCEPT ![t] = 0]
      /\ copy' = [copy EXCEPT ![t] = 0]
      /\ UNCHANGED <<smem, ret, expected>>

\* The caller assigns its own expected variable between calls.
SetExpected(t, v) ==
  /\ pc[t] = "idle"
  /\ expected' = [expected EXCEPT ![t] = v]
  /\ UNCHANGED <<smem, ret, success, pc, oldv, copy>>

Next ==
  \E t \in Threads :
    \/ Load(t)
    \/ \E v \in Vals : Store(t, v) \/ Exchange(t, v) \/ FetchAdd(t, v)
                       \/ FetchSub(t, v) \/ XorFetch(t, v)
                       \/ CasInterlocked(t, v) \/ SetExpected(t, v)
    \/ \E e, d \in Vals : CasNInterlocked(t, e, d)
    \/ CasCompare(t)
    \/ CasNCompare(t)

Spec == Init /\ [][Next]_vars

(***************************************************************************)
(* Refinement.  A compare-exchange takes effect at its intrinsic; while    *)
(* the thread is between the two steps, the abstract state already holds  *)
(* the boolean it will return and, for the pointer form, the value its     *)
(* write-back will leave in *expected.                                     *)
(***************************************************************************)
ExpectedBar ==
  [t \in Threads |->
     IF pc[t] = "cas_cmp" THEN cas_compare(oldv[t], expected[t]).expected
                          ELSE expected[t]]

SuccessBar ==
  [t \in Threads |->
     CASE pc[t] = "cas_cmp"  -> cas_compare(oldv[t], expected[t]).success
       [] pc[t] = "casn_cmp" -> cas_compare(oldv[t], copy[t]).success
       [] OTHER              -> success[t]]

Abs == INSTANCE AtomicOps
         WITH mem <- ToUnsigned(smem), expected <- ExpectedBar,
              success <- SuccessBar

(***************************************************************************)
(* The MSVC branch implements the GCC/Clang contract call by call: every   *)
(* step of a call is a step of the same call, with the same arguments, of  *)
(* AtomicOps (the second step of a compare-exchange changes no abstract    *)
(* state), from an initial state of AtomicOps.  It fails if any call       *)
(* returns, stores or writes back to *expected other than what the         *)
(* __atomic_* builtin would, at any width-class edge: the wrap of          *)
(* fetch_add, the negation of the most negative value in fetch_sub, the    *)
(* post-value of xor_fetch, the OR-with-zero load, the signed intrinsic    *)
(* types.  It implies Abs!Spec.                                            *)
(***************************************************************************)
CallsMatch ==
  \A t \in Threads :
    /\ Load(t) => Abs!Load(t)
    /\ \A v \in Vals :
         /\ Store(t, v) => Abs!Store(t, v)
         /\ Exchange(t, v) => Abs!Exchange(t, v)
         /\ FetchAdd(t, v) => Abs!FetchAdd(t, v)
         /\ FetchSub(t, v) => Abs!FetchSub(t, v)
         /\ XorFetch(t, v) => Abs!XorFetch(t, v)
         /\ CasInterlocked(t, v) => Abs!CompareExchange(t, v)
         /\ SetExpected(t, v) => Abs!SetExpected(t, v)
    /\ \A e, d \in Vals : CasNInterlocked(t, e, d) => Abs!CompareExchangeN(t, e, d)
    /\ CasCompare(t) \/ CasNCompare(t) => UNCHANGED Abs!vars

ImplementsContract == Abs!Init /\ [][CallsMatch]_vars

=============================================================================
