----------------------------- MODULE GccBarriers -----------------------------
(***************************************************************************)
(* The memory orderings of the GCC/Clang branch of atomic_ops.h (lines     *)
(* 189-239), on the message-passing program of MsvcBarriers.  There every  *)
(* detail::atomic_* is one __atomic_* builtin that receives the order as   *)
(* to_gcc_order(order).  The builtin is the compiler's: with a code that   *)
(* releases, no earlier access of the thread is emitted after it; with a   *)
(* code that acquires, no later access is emitted before it; and it emits  *)
(* whatever fence the processor needs for that.  The same program, the     *)
(* same steps (WriterStep, ReaderStep); only which emitted orders the      *)
(* compiler may choose differs from the MSVC branch.                       *)
(***************************************************************************)
EXTENDS MsvcBarriers

\* The orders a caller may pass (spec section 2): an operation that only
\* reads takes Relaxed, Acquire or SeqCst, one that only writes Relaxed,
\* Release or SeqCst, and a read-modify-write any of the five.  With
\* these, to_gcc_order always yields a code valid for the builtin.
ValidOrders(op) ==
  CASE op = "load"  -> {"Relaxed", "Acquire", "SeqCst"}
    [] op = "store" -> {"Relaxed", "Release", "SeqCst"}
    [] OTHER        -> Orders

\* The emitted orders of the writer's two accesses: the plain write may
\* sink below the builtin unless its code releases.
GccWriterOrders(o) ==
  {<<"data", "flag">>} \cup
  (IF GccReleases(to_gcc_order(o)) THEN {} ELSE {<<"flag", "data">>})

\* The reader's: the plain read may rise above the builtin unless its code
\* acquires.
GccReaderOrders(o) ==
  {<<"flag", "data">>} \cup
  (IF GccAcquires(to_gcc_order(o)) THEN {} ELSE {<<"data", "flag">>})

\* Each thread calls the public API with a valid order; the compiler fixes
\* its emitted order once.
GccInit ==
  /\ wop \in WriterOps /\ rop \in ReaderOps
  /\ wo \in ValidOrders(wop) /\ ro \in ValidOrders(rop)
  /\ wrel = HasRelease(wo) /\ racq = HasAcquire(ro)
  /\ wseq \in GccWriterOrders(wo) /\ rseq \in GccReaderOrders(ro)
  /\ wpc = 1 /\ rpc = 1
  /\ data = 0 /\ flag = 0 /\ r = 0 /\ d = 0

GccSpec == GccInit /\ [][Next]_vars

=============================================================================
