----------------------------- MODULE MemoryOrder -----------------------------
(***************************************************************************)
(* The orderings of atomic_ops.h: enum class MemoryOrder (lines 50-56) and *)
(* the integer codes of the GCC builtins that the MSVC compatibility shim  *)
(* maps onto it (lines 299-316), and the mapping the GCC branch applies   *)
(* the other way (to_gcc_order, lines 193-202).                            *)
(***************************************************************************)
EXTENDS Integers

Orders == {"Relaxed", "Acquire", "Release", "AcqRel", "SeqCst"}

\* What the header's comment (lines 33-37) promises of an order: ACQUIRE
\* keeps later reads and writes after the operation, RELEASE keeps
\* earlier ones before it; AcqRel and SeqCst do both.
HasAcquire(o) == o \in {"Acquire", "AcqRel", "SeqCst"}
HasRelease(o) == o \in {"Release", "AcqRel", "SeqCst"}

\* __ATOMIC_RELAXED .. __ATOMIC_SEQ_CST are 0 .. 5; -1 and 6 stand for
\* the codes no macro names.
GccCodes == -1 .. 6

\* What the GCC builtins promise of a code: __ATOMIC_CONSUME (1) is a
\* weaker acquire.
GccAcquires(c) == c \in {1, 2, 4, 5}
GccReleases(c) == c \in {3, 4, 5}

\* Mutant: the ACQUIRE and RELEASE cases swapped.
mtk_map_gcc_order_swapped(c) ==
  CASE c = 0 -> "Relaxed" [] c = 2 -> "Release" [] c = 3 -> "Acquire"
    [] c = 4 -> "AcqRel" [] OTHER -> "SeqCst"

\* The switch; codes it does not list, __ATOMIC_CONSUME among them, fall
\* to the default, SeqCst.
mtk_map_gcc_order(c) ==
  CASE c = 0 -> "Relaxed" [] c = 2 -> "Acquire" [] c = 3 -> "Release"
    [] c = 4 -> "AcqRel" [] OTHER -> "SeqCst"

\* Mutant: the Acquire and Release cases sent to each other's code.
to_gcc_order_swapped(o) ==
  CASE o = "Relaxed" -> 0 [] o = "Acquire" -> 3 [] o = "Release" -> 2
    [] o = "AcqRel" -> 4 [] OTHER -> 5

\* The GCC branch's switch from MemoryOrder to __ATOMIC_* codes; SeqCst and
\* the return after the switch both give __ATOMIC_SEQ_CST.
to_gcc_order(o) ==
  CASE o = "Relaxed" -> 0 [] o = "Acquire" -> 2 [] o = "Release" -> 3
    [] o = "AcqRel" -> 4 [] OTHER -> 5

=============================================================================
