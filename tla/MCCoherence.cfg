SPECIFICATION Spec
CONSTANTS
  m1 = m1
  m2 = m2
  lite = lite
  None = None
INVARIANTS
  TypeOK
  CachesCoherent
  NothingWaitsInRing
  ExclusivesHold
  DvmCompletes
  SlaveNodeAnswers
\* Bounded traffic ends.
CHECK_DEADLOCK FALSE
