\* Two threads on a 2-bit location.  The arguments are 2, the most
\* negative value of the signed intrinsic type (whose negation in
\* fetch_sub overflows), and 3, i.e. -1, whose static_cast changes the
\* value handed to the intrinsic; the location takes every value,
\* 0 included, through the wrap of fetch_add and the stores; every CAS
\* outcome occurs, and a thread may call while the other is between the
\* two steps of a compare-exchange.
CONSTANTS
  Bits = 2
  BitXor <- MCXor
  BitOr <- MCOr
  Threads = {t1, t2}
  Vals = {2, 3}
SPECIFICATION Spec
SYMMETRY MCSymmetry
PROPERTY ImplementsContract
