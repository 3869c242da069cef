\* The functions with barriers: every order of the writer (store or
\* exchange) against every order of the reader (load).
CONSTANTS
  WriterOps = {"store", "exchange"}
  ReaderOps = {"load"}
SPECIFICATION Spec
INVARIANT MessagePassing
PROPERTY ReleasePublishes
CHECK_DEADLOCK FALSE
