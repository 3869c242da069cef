------------------------------ MODULE GccCompat ------------------------------
(***************************************************************************)
(* The GCC-builtin compatibility shim of atomic_ops.h (lines 294-337),     *)
(* active on MSVC: code written against __atomic_fetch_add,                *)
(* __atomic_fetch_sub, __atomic_exchange_n and __atomic_compare_exchange_n *)
(* with an argument of another integer type U and an integer ordering     *)
(* code runs on the public API and so on the MSVC branch (MsvcAtomicOps).  *)
(* A call converts its argument with static_cast<T>(val); its ordering,   *)
(* converted by mtk_map_gcc_order, changes no value (see MsvcBarriers);    *)
(* the `weak` flag is ignored, so every compare-exchange is strong.        *)
(***************************************************************************)
EXTENDS MsvcAtomicOps

CONSTANT UVals   \* arguments of type U (int) the legacy code passes

ASSUME UValsAssumption == UVals \subseteq Int

(***************************************************************************)
(* The shims: static_cast<T>(val), then the public API.                    *)
(***************************************************************************)

\* Mutant: __atomic_fetch_sub forwarding to mtk_atomic_fetch_add.
ShimFetchSub_add(t, u) == FetchAdd(t, ToUnsigned(u))

ShimFetchAdd(t, u)  == FetchAdd(t, ToUnsigned(u))
ShimFetchSub(t, u)  == FetchSub(t, ToUnsigned(u))
ShimExchange(t, u)  == Exchange(t, ToUnsigned(u))
ShimCompareExchangeN(t, u) == CasInterlocked(t, ToUnsigned(u))

\* Legacy code making shim calls, and the second step of a compare-exchange.
ShimNext ==
  \E t \in Threads :
    \/ \E u \in UVals :
         \/ ShimFetchAdd(t, u) \/ ShimFetchSub(t, u) \/ ShimExchange(t, u)
         \/ ShimCompareExchangeN(t, u)
    \/ \E v \in Vals : SetExpected(t, v)
    \/ CasCompare(t)

ShimSpec == Init /\ [][ShimNext]_vars

(***************************************************************************)
(* Properties.                                                             *)
(***************************************************************************)

\* A legacy call through the shim does what the native GCC builtin does
\* with an int argument: fetch_add/fetch_sub add/subtract it modulo
\* 2^Bits (a negative delta included), exchange and compare_exchange use
\* its conversion to T; the value returned, stored and written back to
\* *expected is the builtin's.
ShimCallsMatch ==
  \A t \in Threads :
    /\ \A u \in UVals :
         /\ ShimFetchAdd(t, u) => Abs!FetchAdd(t, u)
         /\ ShimFetchSub(t, u) => Abs!FetchSub(t, u)
         /\ ShimExchange(t, u) => Abs!Exchange(t, u % Mod)
         /\ ShimCompareExchangeN(t, u) => Abs!CompareExchange(t, u % Mod)
    /\ \A v \in Vals : SetExpected(t, v) => Abs!SetExpected(t, v)
    /\ CasCompare(t) => UNCHANGED Abs!vars

ShimImplementsBuiltins == Abs!Init /\ [][ShimCallsMatch]_vars

=============================================================================
