SPECIFICATION Spec
CONSTANTS
  N = 3
  M = 2
  MaxRuns = 2
INVARIANTS TypeOK ComparesThisResult
PROPERTIES WaitReturns
\* The last test bench ends.
CHECK_DEADLOCK FALSE
