SPECIFICATION Spec
CONSTANTS
  Word = 16
  Burst = 2
  Jobs <- MCJobs
  MaxPrograms = 2
  MaxChanges = 4
\* The program ends, and the DMA waits for the next one.
CHECK_DEADLOCK FALSE
INVARIANTS
  TypeOK
  CopiesExactly
  NoLostWakeup
PROPERTIES
  StartedCopyInterrupts
