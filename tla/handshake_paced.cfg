SPECIFICATION FairSpec
CONSTANTS
  MaxRuns = 3
  MaxAlarms = 4
  Agent = "paced"
INVARIANTS
  TypeOK
  ReadsItsAgent
PROPERTIES
  LinkSpec
  EndIsHandled
\* gdb stops when an assertion fails.
CHECK_DEADLOCK FALSE
