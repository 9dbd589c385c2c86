SPECIFICATION Spec
CONSTANTS
  Word = 16
  Garbage = {}
  IMAGE_SIZE = 2
  Images <- MCImages
  Pixel <- MCPixel
  Zero = 0
  RamSize = 3
  Indeterminate = {6}
INVARIANTS
  TypeOK
  AccessesInside
  SlicesFaithful
PROPERTIES
  CopiesInOrder
  CopyCompletes
