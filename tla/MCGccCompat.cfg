\* Two threads on a 2-bit location.  The legacy int arguments -1, -2 and
\* 5 are negative or wider than T: -1 and -2 as deltas are the usual
\* decrements, 5 truncates to 1; -2 converts to the most negative value
\* of the intrinsic type.
CONSTANTS
  Bits = 2
  BitXor <- MCXor
  BitOr <- MCOr
  Threads = {t1, t2}
  Vals = {1, 2}
  UVals <- MCUVals
SPECIFICATION ShimSpec
SYMMETRY MCSymmetry

PROPERTY ShimImplementsBuiltins
