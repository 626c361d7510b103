SPECIFICATION MCSpec
CONSTANTS
  PXL_HEADER_BYTES = 2
  PXL_MAX_DIM = 8
  PXL_MAX_PIXELS = 16
  PXL_MAX_PALETTE = 4
  MaxFrame = 3
  MaxHeight = 2
  Trailing = {0, 1}
  Files <- AllFiles
  OutOfMemory <- MayRunOut
  Sources <- SmallSources
  FrameSizes = {1, 2}
  Uint32Max = 136
  EncodeOom <- MayRunOut
  Base = 4
  Pictures <- SmallPictures
  Images <- SmallImages
CHECK_DEADLOCK FALSE
INVARIANTS
  CodecInv
  ReturnIsSound
  WholeFileVerdict
  SmallestFrameKept
  OwnFilesDecode
  UnfilteredIsOriginal
  RowsFilteredBest
  PixelsAreShown
PROPERTY
  CallsReturn
