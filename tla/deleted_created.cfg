\* A breakpoint deleted while it waits for debug information.
SPECIFICATION MCSpec
CONSTANTS
  MaxBps = 1
  Size = 4
  Kinds = {"KERNEL", "SOURCE"}
  MaxInferiors = 1
  MaxRuns = 1
PROPERTY DeletedStaysDeleted
\* gdb stops when it quits or an assertion fails.
CHECK_DEADLOCK FALSE
