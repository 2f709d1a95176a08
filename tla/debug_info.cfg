\* Small kernels; the searches go two places ahead, and one line back.
SPECIFICATION Spec
CONSTANTS
  AddrReadAhead = 2
  AddrReadBack = 0
  LineReadAhead = 2
  LineReadBack = 2
  MaxLine = 2
  MaxHAddr = 4
  MaxLAddr = 3
  MaxHighRows = 3
  MaxLowRows = 3
  Trees <- MCTrees
  MomentarySize = 3
INVARIANTS
  TypeOK
  MappingsAgree
  BreakpointMapsBack
  StepInReachesBreakpoints
  StepOutTargets
  OverflowIsGenuine
\* gdb stops when an assertion fails.
CHECK_DEADLOCK FALSE
