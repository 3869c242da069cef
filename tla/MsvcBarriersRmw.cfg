\* The writer publishes the flag with a read-modify-write.
CONSTANTS
  WriterOps = {"fetch_add", "xor_fetch", "compare_exchange"}
  ReaderOps = {"load"}
SPECIFICATION Spec
INVARIANT MessagePassing
CHECK_DEADLOCK FALSE
