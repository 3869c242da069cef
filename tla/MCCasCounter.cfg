\* Four threads, one increment each, on a 2-bit counter: every thread can
\* interfere with a compare-exchange of every other; the fourth increment
\* wraps the counter back to 0, the second crosses from 1 to -2 in the
\* signed intrinsic type, and every ticket 0..3 is handed out.
CONSTANTS
  Bits = 2
  BitXor <- MCXor
  BitOr <- MCOr
  Threads = {t1, t2, t3, t4}
  Rounds = 1
SPECIFICATION Spec
INVARIANTS NoLostUpdate CounterInv TicketsUnique
PROPERTY AllIncrementsComplete
