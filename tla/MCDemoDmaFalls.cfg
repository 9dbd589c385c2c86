SPECIFICATION Spec
CONSTANTS
  Word = 16
  Burst = 2
  Jobs <- MCJobs
  MaxPrograms = 1
  MaxChanges = 2
CHECK_DEADLOCK FALSE
PROPERTIES
  DoneOnlyWhenCopied
