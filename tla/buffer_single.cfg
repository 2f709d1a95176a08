\* One inferior at a time; three breakpoints, a buffer they can fill, three
\* runs.
SPECIFICATION MCSpec
CONSTANTS
  MaxBps = 3
  Size = 3
  Kinds = {"KERNEL", "SOURCE"}
  MaxInferiors = 1
  MaxRuns = 3
INVARIANTS
  TypeOK
  AtMostOneCreatePerRun
  NothingSendableWaits
  LengthCoversPending
  CreatedIsKnown
  PendingIsOfLiveBreakpoint
  ReSetBeforeInitialization
  KernelBreakpointsStay
PROPERTY LinkSpec
\* gdb stops when it quits or an assertion fails.
CHECK_DEADLOCK FALSE
