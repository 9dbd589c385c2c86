SPECIFICATION Spec
CONSTANTS
  Unset = Unset
INVARIANTS
  TypeOK
  DescriptorsArriveWhole
  BusDelivers
  ArrayConvolves
  RemotePortAnswers
  BridgesDeliver
  CheckersExact
PROPERTIES
  FirstWeightsStay
\* Drivers, programs and bounded traffic end.
CHECK_DEADLOCK FALSE
