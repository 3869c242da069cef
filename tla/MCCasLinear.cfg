\* Two threads, two increments each, on a 2-bit counter: the four
\* increments, by fetch_add or by the compare-exchange loop, interleave
\* with every step of the other thread's loop, and the last one wraps
\* the counter to 0, so the abstract counter's % 2^Bits is exercised.
CONSTANTS
  Bits = 2
  BitXor <- MCXor
  BitOr <- MCOr
  Threads = {t1, t2}
  Rounds = 2
SPECIFICATION Spec
PROPERTY CounterLinearizable
