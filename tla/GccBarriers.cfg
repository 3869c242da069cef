\* Every function as the writer's publication and as the reader's
\* observation of the flag, with every order the spec allows for it.
CONSTANTS
  WriterOps = {"store", "exchange", "fetch_add", "fetch_sub", "xor_fetch", "compare_exchange"}
  ReaderOps = {"load", "exchange", "fetch_add", "fetch_sub", "xor_fetch", "compare_exchange"}
SPECIFICATION GccSpec
INVARIANT MessagePassing
CHECK_DEADLOCK FALSE
