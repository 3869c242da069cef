----------------------------- MODULE MCGccCompat -----------------------------
(***************************************************************************)
(* Model-checking instance of GccCompat: the bitwise parameters are the    *)
(* Bitwise module's operators.                                             *)
(***************************************************************************)
EXTENDS GccCompat, Bitwise, TLC

\* ^ and | on words, tabulated once.
XorTable == [p \in Word \X Word |-> p[1] ^^ p[2]]
OrTable  == [p \in Word \X Word |-> p[1] | p[2]]

MCXor(x, y) == XorTable[x, y]
MCOr(x, y)  == OrTable[x, y]

\* int arguments of legacy calls: two decrements and a value wider than T.
MCUVals == {-1, -2, 5}

\* Threads are interchangeable in the action and the order properties.
MCSymmetry == Permutations(Threads)

=============================================================================
