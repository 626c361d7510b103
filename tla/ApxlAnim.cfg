SPECIFICATION Spec
CONSTANTS
  APXL_MAX_PIXELS = 4
  APXL_MAX_FRAMES = 2
  APXL_MAX_PALETTE = 2
  Uint32Max = 15
  SizeValues = 128
  RgbValues = 3
  AlphaValues = 2
  IndexValues = 2
  HashSlots = 4
  Hash <- SmallHash
  Assembled <- AllAnims
  Foreign <- AllFiles
  IndexDecoded = FALSE
  OutOfMemory <- MayRunOut
INVARIANTS
  AnimInv
  Lossless
PROPERTIES
  TryIndexIsExact
  OwnFilesDecode
