SPECIFICATION Spec
CONSTANTS
  Word = 8
  Garbage <- MCGarbage
  Programs <- MCPrograms
  RamSize = 5
  MM2S = TRUE
  Indeterminate <- MCIndeterminate
  Zero = Zero
  MaxEdges = 8
  MaxAborts = 2
INVARIANTS
  TypeOK
  InBounds
  CountInRange
  FollowsSchedule
  FinishedMeansBlockDone
  StreamShowsLastEdge
PROPERTIES
  RacedOnlyWhenLeftEnabled
  Completes
