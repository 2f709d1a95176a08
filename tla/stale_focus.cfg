\* A process is started while gdb still has the focus of an earlier one.
SPECIFICATION Spec
CONSTANTS
  Lanes = 1
  Unknown = none
  MaxRuns = 2
  MaxDispatches = 1
  MaxUnread = 2
  Restart = "any"
INVARIANT AssertionsHold
\* gdb stops when it quits or at an assertion.
CHECK_DEADLOCK FALSE
