SPECIFICATION MCSpec
CONSTANTS
  Empty = Empty
  BYTE_BITS = 2
  MAX_CODE_BITS = 4
  MinCodeSizes = {1, 2, 3}
  OutLens = {1, 5, 6, 14}
  InLens = {3, 8, 22}
  Heights = {1, 3, 5, 6, 14}
  ShortImage = 6
  ShortData = 9
  Width = 2
  Height = 1
  GIF_MAX_FRAMES = 4
  FirstCapacity = 1
  FileBlocks <- AllBlocks
  MaxBlocks = 7
  GlobalTable <- TwoColours
  OutOfMemory <- MayRunOut
CHECK_DEADLOCK FALSE
INVARIANTS
  LzwInv
  RowsInPlace
  CopiesDecodedRows
  FramesAreLayers
  LoadIsSound
PROPERTIES
  ImplementsLzw
