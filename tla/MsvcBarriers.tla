---------------------------- MODULE MsvcBarriers ----------------------------
(***************************************************************************)
(* The memory orderings of the MSVC branch of atomic_ops.h.  There the     *)
(* order is not an argument of the _Interlocked* intrinsic: a function     *)
(* emits _ReadWriteBarrier() before the intrinsic for some orders and      *)
(* after it for others, and otherwise nothing.  A _ReadWriteBarrier keeps  *)
(* the compiler from moving plain memory accesses across it; without one,  *)
(* a plain access next to the call may be emitted on its other side (the   *)
(* premise of spec 4.1, which requires those barriers).  The processor is  *)
(* taken to execute the emitted order (x86-TSO keeps the order of two      *)
(* stores and of two loads, the only pairs below).                         *)
(*                                                                         *)
(* The check is the message-passing idiom the orders exist for:           *)
(*   writer:  data = 1;            op_w(&flag, 1, wo);                     *)
(*   reader:  r = op_r(&flag, ro); if (r == 1) d = data;                   *)
(* where op_w sets the flag from 0 to 1 (store, exchange, fetch_add,       *)
(* xor_fetch or compare_exchange from 0) and op_r returns the flag's       *)
(* content.  The value each op computes is in MsvcOps; here only where     *)
(* its barriers lie matters.  A thread calls either the public API with a  *)
(* MemoryOrder, or, for the functions the compatibility shim provides, the *)
(* legacy __atomic_* entry point with a GCC ordering code, which reaches   *)
(* the same function with mtk_map_gcc_order of the code.                   *)
(***************************************************************************)
EXTENDS Naturals, Sequences, MemoryOrder

CONSTANTS
  WriterOps,  \* the functions the writer may publish the flag with
  ReaderOps   \* the functions the reader may read the flag with

Ops == {"load", "store", "exchange", "fetch_add", "fetch_sub", "xor_fetch",
        "compare_exchange"}

ASSUME OpsAssumption ==
  WriterOps \subseteq Ops \ {"load"} /\ ReaderOps \subseteq Ops \ {"store"}

\* _ReadWriteBarrier() before the intrinsic: atomic_store and
\* atomic_exchange, for Release, SeqCst and AcqRel.
BarrierBefore(op, o) ==
  op \in {"store", "exchange"} /\ o \in {"Release", "SeqCst", "AcqRel"}

\* Mutant: the AcqRel case of the load's test forgotten.
BarrierAfter_noacqrel(op, o) ==
  op = "load" /\ o \in {"Acquire", "SeqCst"}

\* _ReadWriteBarrier() after the intrinsic: atomic_load only, for
\* Acquire, SeqCst and AcqRel.  No other function has a barrier after.
BarrierAfter(op, o) ==
  op = "load" /\ o \in {"Acquire", "SeqCst", "AcqRel"}

\* The functions the shim has an entry point for (lines 319-337).
ShimOps == {"exchange", "fetch_add", "fetch_sub", "compare_exchange"}

\* The orders the compiler may emit each thread's two accesses in.
WriterOrders(op, o) ==
  {<<"data", "flag">>} \cup
  (IF BarrierBefore(op, o) THEN {} ELSE {<<"flag", "data">>})

ReaderOrders(op, o) ==
  {<<"flag", "data">>} \cup
  (IF BarrierAfter(op, o) THEN {} ELSE {<<"data", "flag">>})

VARIABLES
  wop, wo, wseq, wpc,   \* writer: function, order, emitted order, position
  rop, ro, rseq, rpc,   \* reader: the same
  wrel, racq,           \* the writer asked for release, the reader acquire
  data, flag,           \* the plain and the atomic location
  r, d                  \* the reader's locals

vars == <<wop, wo, wseq, wpc, rop, ro, rseq, rpc, wrel, racq, data, flag, r, d>>

\* The orders a call of op can hand the MSVC function, each with the
\* guarantees the caller asked for: a MemoryOrder of the public API, or a
\* code passed to the shim, which maps it with mtk_map_gcc_order.
CallOrders(op) ==
  {[order |-> o, rel |-> HasRelease(o), acq |-> HasAcquire(o)] : o \in Orders}
  \cup
  IF op \in ShimOps
    THEN {[order |-> mtk_map_gcc_order(c), rel |-> GccReleases(c),
           acq |-> GccAcquires(c)] : c \in GccCodes}
    ELSE {}

\* The compiler fixes each thread's emitted order once, for whichever
\* function and order the source passes.
Init ==
  /\ wop \in WriterOps /\ rop \in ReaderOps
  /\ \E w \in CallOrders(wop) : wo = w.order /\ wrel = w.rel
  /\ \E x \in CallOrders(rop) : ro = x.order /\ racq = x.acq
  /\ wseq \in WriterOrders(wop, wo) /\ rseq \in ReaderOrders(rop, ro)
  /\ wpc = 1 /\ rpc = 1
  /\ data = 0 /\ flag = 0 /\ r = 0 /\ d = 0

\* The writer's next emitted access: the plain write or the intrinsic.
WriterStep ==
  /\ wpc <= 2
  /\ IF wseq[wpc] = "data" THEN data' = 1 /\ UNCHANGED flag
                          ELSE flag' = 1 /\ UNCHANGED data
  /\ wpc' = wpc + 1
  /\ UNCHANGED <<wop, wo, wseq, rop, ro, rseq, rpc, wrel, racq, r, d>>

\* The reader's next emitted access: the intrinsic returning the flag, or
\* the plain read of data (whose value is used only if r == 1).
ReaderStep ==
  /\ rpc <= 2
  /\ IF rseq[rpc] = "flag" THEN r' = flag /\ UNCHANGED d
                          ELSE d' = data /\ UNCHANGED r
  /\ rpc' = rpc + 1
  /\ UNCHANGED <<wop, wo, wseq, rop, ro, rseq, wpc, wrel, racq, data, flag>>

Next == WriterStep \/ ReaderStep

Spec == Init /\ [][Next]_vars

\* Message passing: a reader whose call, asked for acquire semantics,
\* sees the flag that a call of the writer asked for release semantics set
\* also sees the writer's earlier plain write.  It fails if a function
\* omits the barrier its order calls for, or the shim maps a code to an
\* order without it, so that the compiler sinks the data write below the
\* flag's publication or hoists the data read above its observation.
MessagePassing == (rpc = 3 /\ r = 1 /\ wrel /\ racq) => d = 1

\* A writer whose call asked for release semantics publishes the flag only
\* after its plain write of data: the step that sets the flag finds the
\* data already written.  It fails if the store or exchange puts no
\* _ReadWriteBarrier before the intrinsic for an order, or a shim code,
\* that promises release, letting the compiler sink the data write.
ReleasePublishes == [][wrel /\ flag' # flag => data = 1]_vars

\* The inductive form of MessagePassing.  A writer that asked for release
\* emits its plain write first, and the data is written from its second
\* access on, so whenever the flag is set, and whenever the reader has
\* read the flag as set; a reader that asked for acquire emits the flag
\* read first, so its later read of data sees the written data.
BarrierInv ==
  /\ wpc \in 1 .. 3 /\ rpc \in 1 .. 3
  /\ wrel => wseq = <<"data", "flag">>
  /\ racq => rseq = <<"flag", "data">>
  /\ wrel /\ wpc >= 2 => data = 1
  /\ wrel /\ flag = 1 => data = 1
  /\ wrel /\ r = 1 => data = 1
  /\ MessagePassing

=============================================================================
