SPECIFICATION MCSpec
CONSTANTS
  Empty = Empty
  Width = 2
  Height = 1
  FirstCapacity = 1
  FileChunks <- AllChunks
  MaxChunks = 16
  OutOfMemory <- MayRunOut
  Animations <- AllAnimations
  MaxPalette = 2
  SaveMayFail <- MayRunOut
  Colours = {0, 127, 255}
  Alphas = {0, 1, 2, 128, 255}
CHECK_DEADLOCK FALSE
INVARIANTS
  ApngInv
  FramesAreLayers
  VerdictIsExact
  SavedFilesAreValid
  SavedFilesLoadBack
PROPERTY
  BlendIsSound
