SPECIFICATION OrderlySpec
CONSTANTS
  MaxRuns = 2
  MaxAlarms = 3
  Agent = "paced"
INVARIANT AlarmsCounted
PROPERTY HandshakeCompletes
\* gdb stops when an assertion fails.
CHECK_DEADLOCK FALSE
