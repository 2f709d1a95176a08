\* Two processes and two dispatches, in one process or in two, with up to three
\* notifications unread whenever the user types.
SPECIFICATION Spec
CONSTANTS
  Lanes = 2
  Unknown = none
  MaxRuns = 2
  MaxDispatches = 2
  MaxUnread = 3
  Restart = "clean"
INVARIANTS
  TypeOK
  AssertionsHold
  ViewIsCurrent
  StepsItsDispatch
  FocusIsActive
PROPERTIES
  WavesKilledFirst
  KillIsConfirmed
  KillCompletes
\* gdb stops when it quits or at an assertion.
CHECK_DEADLOCK FALSE
