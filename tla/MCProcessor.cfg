SPECIFICATION Spec
CONSTANTS
  Word = 128
  Garbage = {}
  IMAGE_SIZE = 16
  IMAGE_WIDTH = 4
  groupCount = 3
  peArraySize = 3
  kernel <- mc_kernel
  Uninitialised = {7}
  MaxEdges = 93
  Images <- MCImages
  Pixel <- MCPixel
  RamSize = 24
  Indeterminate = {6}
  RESULT = 50
  MaxRuns = 2
INVARIANTS
  TypeOK
  AccessesInside
  ResultIsFiltered
  ReadersFollowWriters
  FinishedMeansRecorded
PROPERTIES
  ResultArrives
