SPECIFICATION Spec
CONSTANTS
  m1 = m1
  m2 = m2
  lite = lite
  None = None
INVARIANTS
  StoresSurvive
\* Bounded traffic ends.
CHECK_DEADLOCK FALSE
