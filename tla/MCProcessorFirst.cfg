SPECIFICATION Spec
CONSTANTS
  Word = 64
  Garbage = {}
  IMAGE_SIZE = 9
  IMAGE_WIDTH = 3
  groupCount = 2
  peArraySize = 2
  kernel <- mc_kernel
  Uninitialised = {7}
  MaxEdges = 50
  Images <- MCImages
  Pixel <- MCPixel
  RamSize = 12
  Indeterminate = {6}
  RESULT = 30
  MaxRuns = 2
INVARIANT
  ResultStartsWithFirstPixel
