\* The reader takes the flag with atomic_exchange.
CONSTANTS
  WriterOps = {"store"}
  ReaderOps = {"exchange"}
SPECIFICATION Spec
INVARIANT MessagePassing
CHECK_DEADLOCK FALSE
