\* Two threads, two signals for them and three ^C.
SPECIFICATION MCSpec
CONSTANTS
  NumLwps = 2
  MaxSignals = 2
  MaxTyped = 3
INVARIANTS
  TypeOK
  AssertionsHold
  EventsAccounted
  InterruptReachesCore
PROPERTY StopCompletes
\* The process ends.
CHECK_DEADLOCK FALSE
