\* Two threads and two ^C.
SPECIFICATION MCSpec
CONSTANTS
  NumLwps = 2
  MaxSignals = 0
  MaxTyped = 2
INVARIANT InterruptAccounted
\* The process ends.
CHECK_DEADLOCK FALSE
