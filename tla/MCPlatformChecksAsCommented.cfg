SPECIFICATION Spec
CONSTANTS
  Unset = Unset
INVARIANTS
  ChecksAsCommented
\* Drivers, programs and bounded traffic end.
CHECK_DEADLOCK FALSE
