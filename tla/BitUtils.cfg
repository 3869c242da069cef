\* A 7-bit word: every input 0..127, with the powers of two 1..64, the
\* words of one and of several bits, and the all-zero word.  log2's int
\* has 5 bits: its positive values are 1..15, and the words from 16 up
\* reach log2 converted, as a uint64_t beyond INT_MAX does.
CONSTANTS
  Width = 7
  IntWidth = 5
SPECIFICATION Spec
INVARIANTS PowerOfTwoIsSingleBit Log2Floor LowestSetBitArith
