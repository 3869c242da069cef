----------------------------- MODULE MCCasCounter -----------------------------
(***************************************************************************)
(* Model-checking instance of CasCounter.                                  *)
(***************************************************************************)
EXTENDS CasCounter, Bitwise

\* ^ and | on words, tabulated once.
XorTable == [p \in Word \X Word |-> p[1] ^^ p[2]]
OrTable  == [p \in Word \X Word |-> p[1] | p[2]]

MCXor(x1, x2) == XorTable[x1, x2]
MCOr(x1, x2)  == OrTable[x1, x2]

=============================================================================
