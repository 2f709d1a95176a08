SPECIFICATION FairSpec
CONSTANTS
  MaxRuns = 1
  MaxAlarms = 4
  Agent = "reloading"
PROPERTY AlarmsAreHarmless
\* gdb stops when an assertion fails.
CHECK_DEADLOCK FALSE
