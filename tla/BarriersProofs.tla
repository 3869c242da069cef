--------------------------- MODULE BarriersProofs ---------------------------
(***************************************************************************)
(* Message passing through the flag is safe on the GCC branch for every    *)
(* function and every order a caller may pass, and on the MSVC branch for *)
(* the functions that carry barriers: store or exchange publishing, load   *)
(* observing, through the public API or the shim.  Both rest on the one    *)
(* inductive invariant BarrierInv of the shared program; only the initial  *)
(* states, where the compiler fixes each thread's emitted order, differ.   *)
(***************************************************************************)
EXTENDS GccBarriers, TLAPS

\* Every step of the program keeps BarrierInv: the writer's and the
\* reader's accesses in whatever order the compiler emitted them.
LEMMA BarrierStep == BarrierInv /\ [Next]_vars => BarrierInv'
  <1> SUFFICES ASSUME BarrierInv, [Next]_vars PROVE BarrierInv'
    OBVIOUS
  <1>1. CASE WriterStep
    <2>1. CASE wseq[wpc] = "data"
      BY <1>1, <2>1 DEF WriterStep, BarrierInv, MessagePassing
    <2>2. CASE wseq[wpc] = "flag"
      <3>1. wrel => wpc = 2
        BY <1>1, <2>2 DEF WriterStep, BarrierInv
      <3>2. QED
        BY <1>1, <2>2, <3>1 DEF WriterStep, BarrierInv, MessagePassing
    <2>3. CASE wseq[wpc] # "data" /\ wseq[wpc] # "flag"
      BY <1>1, <2>3 DEF WriterStep, BarrierInv, MessagePassing
    <2>4. QED
      BY <2>1, <2>2, <2>3
  <1>2. CASE ReaderStep
    <2>1. CASE rseq[rpc] = "flag"
      <3>1. racq => rpc = 1
        BY <1>2, <2>1 DEF ReaderStep, BarrierInv
      <3>2. QED
        BY <1>2, <2>1, <3>1 DEF ReaderStep, BarrierInv, MessagePassing
    <2>2. CASE rseq[rpc] # "flag"
      <3>1. racq => rpc = 2
        BY <1>2, <2>2 DEF ReaderStep, BarrierInv
      <3>2. QED
        BY <1>2, <2>2, <3>1 DEF ReaderStep, BarrierInv, MessagePassing
    <2>3. QED
      BY <2>1, <2>2
  <1>3. CASE UNCHANGED vars
    BY <1>3 DEF vars, BarrierInv, MessagePassing
  <1>4. QED
    BY <1>1, <1>2, <1>3 DEF Next

\* In a state of BarrierInv, a step that sets the flag under release
\* finds the data written: with wrel the flag is the writer's second
\* access, and the first wrote the data.
LEMMA PublishStep ==
  BarrierInv /\ [Next]_vars => [wrel /\ flag' # flag => data = 1]_vars
  <1> SUFFICES ASSUME BarrierInv, Next, wrel, flag' # flag PROVE data = 1
    BY DEF vars
  <1>1. WriterStep /\ wseq[wpc] # "data"
    BY DEF Next, WriterStep, ReaderStep
  <1>2. wpc = 2
    BY <1>1 DEF WriterStep, BarrierInv
  <1>3. QED
    BY <1>2 DEF BarrierInv

\* The GCC branch's initial states: the builtin with a releasing code
\* keeps the plain write first, one with an acquiring code keeps the plain
\* read last, and to_gcc_order gives such a code to every order that
\* promises release or acquire.
LEMMA GccInitInv == GccInit => BarrierInv
  <1> SUFFICES ASSUME GccInit PROVE BarrierInv
    OBVIOUS
  <1>1. wo \in Orders /\ ro \in Orders
    BY DEF GccInit, ValidOrders, Orders
  <1>2. wrel => GccReleases(to_gcc_order(wo))
    BY <1>1 DEF GccInit, HasRelease, GccReleases, to_gcc_order, Orders
  <1>3. racq => GccAcquires(to_gcc_order(ro))
    BY <1>1 DEF GccInit, HasAcquire, GccAcquires, to_gcc_order, Orders
  <1>4. QED
    BY <1>2, <1>3 DEF GccInit, GccWriterOrders, GccReaderOrders,
                      BarrierInv, MessagePassing

\* The MSVC branch's initial states when the flag is published by store
\* or exchange and read by load: each order or shim code that promises
\* release puts the barrier before the intrinsic, each order that promises
\* acquire puts it after the load (load has no shim entry point).
LEMMA MsvcInitInv ==
  ASSUME WriterOps \subseteq {"store", "exchange"}, ReaderOps \subseteq {"load"}
  PROVE  Init => BarrierInv
  <1> SUFFICES ASSUME Init PROVE BarrierInv
    OBVIOUS
  <1>1. wrel => BarrierBefore(wop, wo)
    <2>1. PICK w \in CallOrders(wop) : wo = w.order /\ wrel = w.rel
      BY DEF Init
    <2>2. wop \in {"store", "exchange"}
      BY DEF Init
    <2>3. CASE \E o \in Orders :
                 w = [order |-> o, rel |-> HasRelease(o), acq |-> HasAcquire(o)]
      <3>1. PICK o \in Orders :
              w = [order |-> o, rel |-> HasRelease(o), acq |-> HasAcquire(o)]
        BY <2>3
      <3>2. wo = o /\ wrel = HasRelease(o)
        BY <2>1, <3>1
      <3>3. QED
        BY <2>2, <3>2 DEF HasRelease, BarrierBefore
    <2>4. CASE \E c \in GccCodes :
                 w = [order |-> mtk_map_gcc_order(c), rel |-> GccReleases(c),
                      acq |-> GccAcquires(c)]
      <3>1. PICK c \in GccCodes :
              w = [order |-> mtk_map_gcc_order(c), rel |-> GccReleases(c),
                   acq |-> GccAcquires(c)]
        BY <2>4
      <3>2. wo = mtk_map_gcc_order(c) /\ wrel = GccReleases(c)
        BY <2>1, <3>1
      <3>3. GccReleases(c) => mtk_map_gcc_order(c) \in {"Release", "SeqCst", "AcqRel"}
        BY DEF GccReleases, mtk_map_gcc_order
      <3>4. QED
        BY <2>2, <3>2, <3>3 DEF BarrierBefore
    <2>5. QED
      BY <2>1, <2>3, <2>4 DEF CallOrders
  <1>2. racq => BarrierAfter(rop, ro)
    <2>1. PICK x \in CallOrders(rop) : ro = x.order /\ racq = x.acq
      BY DEF Init
    <2>2. rop = "load" /\ rop \notin ShimOps
      BY DEF Init, ShimOps
    <2>3. PICK o \in Orders :
            x = [order |-> o, rel |-> HasRelease(o), acq |-> HasAcquire(o)]
      BY <2>1, <2>2 DEF CallOrders
    <2>4. ro = o /\ racq = HasAcquire(o)
      BY <2>1, <2>3
    <2>5. QED
      BY <2>2, <2>4 DEF HasAcquire, BarrierAfter
  <1>3. QED
    BY <1>1, <1>2 DEF Init, WriterOrders, ReaderOrders, BarrierInv,
                      MessagePassing

\* On the GCC branch a reader that asked for acquire and saw the flag a
\* writer set with release sees the writer's data, whichever function
\* each uses to publish and observe the flag and whichever valid orders
\* they pass.
THEOREM GccMessagePassing == GccSpec => []MessagePassing
  <1>1. BarrierInv => MessagePassing
    BY DEF BarrierInv
  <1>2. QED
    BY GccInitInv, BarrierStep, <1>1, PTL DEF GccSpec

\* On the MSVC branch the same holds for the functions whose barriers the
\* header places (store and exchange publishing with Release, AcqRel or
\* SeqCst, load observing with Acquire, AcqRel or SeqCst), called through
\* the public API or, for exchange, through the shim with any code.
THEOREM MsvcMessagePassing ==
  ASSUME WriterOps \subseteq {"store", "exchange"}, ReaderOps \subseteq {"load"}
  PROVE  Spec => []MessagePassing
  <1>1. Init => BarrierInv
    BY MsvcInitInv
  <1>2. BarrierInv => MessagePassing
    BY DEF BarrierInv
  <1>3. QED
    BY <1>1, <1>2, BarrierStep, PTL DEF Spec

\* A writer that asked for release, on the GCC branch with any valid order
\* and function, sets the flag only after its data write.
THEOREM GccReleasePublishes == GccSpec => ReleasePublishes
  BY GccInitInv, BarrierStep, PublishStep, PTL DEF GccSpec, ReleasePublishes

\* The same on the MSVC branch for store or exchange with any order or
\* shim code that promises release: the barrier before the intrinsic
\* keeps the data write first.
THEOREM MsvcReleasePublishes ==
  ASSUME WriterOps \subseteq {"store", "exchange"}, ReaderOps \subseteq {"load"}
  PROVE  Spec => ReleasePublishes
  <1>1. Init => BarrierInv
    BY MsvcInitInv
  <1>2. QED
    BY <1>1, BarrierStep, PublishStep, PTL DEF Spec, ReleasePublishes

=============================================================================
