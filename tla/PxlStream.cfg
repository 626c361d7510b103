SPECIFICATION FairSpec
CONSTANTS
  PXL_HEADER_BYTES = 2
  PXL_MAX_DIM = 8
  PXL_MAX_PIXELS = 16
  PXL_MAX_PALETTE = 4
  MaxFrame = 3
  MaxHeight = 2
  Trailing = {0, 1}
  Files <- SomeFiles
  OutputFormats <- AllFormats
  OutOfMemory <- MayRunOut
INVARIANTS
  StreamInv
  NothingWaits
  CompleteMeansExact
PROPERTIES
  FeedingLeadsOn
  VerdictIsFinal
  ImplementsRowSource
