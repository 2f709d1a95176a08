\* A pending request is overwritten while the buffer lives.
SPECIFICATION OneBufferSpec
CONSTANTS
  MaxBps = 3
  Size = 4
  Kinds = {"KERNEL", "SOURCE"}
  MaxInferiors = 1
  MaxRuns = 1
INVARIANT PendingRequestIsCached
\* gdb stops when it quits or an assertion fails.
CHECK_DEADLOCK FALSE
