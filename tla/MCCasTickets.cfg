\* Three threads, two increments each, on a 3-bit counter: a thread's
\* second increment races the others' first and second, by fetch_add or
\* by the compare-exchange loop; the six increments cross from 3 to -4 in
\* the signed intrinsic type.  TicketInv is the inductive invariant of the
\* proof of TicketsUnique (module CasTicketsProofs).
CONSTANTS
  Bits = 3
  BitXor <- MCXor
  BitOr <- MCOr
  Threads = {t1, t2, t3}
  Rounds = 2
SPECIFICATION Spec
INVARIANT TicketInv
