SPECIFICATION Spec
CONSTANTS
  N = 3
  M = 2
  MaxRuns = 1
PROPERTY WaitAlwaysReturns
CHECK_DEADLOCK FALSE
