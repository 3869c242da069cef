\* The all-zero input on the GCC/Clang form of lowest_set_bit_64.
CONSTANTS
  Width = 7
  IntWidth = 5
SPECIFICATION Spec
INVARIANT ZeroSentinel
