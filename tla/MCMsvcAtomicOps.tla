--------------------------- MODULE MCMsvcAtomicOps ---------------------------
(***************************************************************************)
(* Model-checking instance of MsvcAtomicOps: the bitwise parameters are    *)
(* the Bitwise module's operators.                                         *)
(***************************************************************************)
EXTENDS MsvcAtomicOps, Bitwise, TLC

\* ^ and | on words, tabulated once.
XorTable == [p \in Word \X Word |-> p[1] ^^ p[2]]
OrTable  == [p \in Word \X Word |-> p[1] | p[2]]

MCXor(x, y) == XorTable[x, y]
MCOr(x, y)  == OrTable[x, y]

\* Threads are interchangeable: the properties checked are safety properties.
MCSymmetry == Permutations(Threads)

=============================================================================
