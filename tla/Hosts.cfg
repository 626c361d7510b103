SPECIFICATION MCSpec
CONSTANTS
  Pictures <- AllPictures
  Blocks <- FileBlocks
  OutOfMemory <- MayRunOut
  PngFiles <- AllPngs
  PxlImages <- AllStills
  MaxEntries = 4
  MemoryFails <- MayRunOut
  FfFrames <- SmallFrames
  MaxSent = 3
  FirstCap = 1
  TimeBase <- Thirds
  MaxTerm = 5
  Ticks = 10
  FfFails <- MayRunOut
  Word = 32
  Align = 4
  PageSize = 8
  HeapBase = 4
  FirstPages = 1
  MaxPages = 4
  WasmFiles <- SmallFiles
  FileBytes = {1, 5}
  Scratch <- SmallScratch
  QtFiles <- SmallQtFiles
  QtNoMemory <- MayRunOut
CHECK_DEADLOCK FALSE
INVARIANTS
  WellPlaced
  NothingLost
  SavingIsStable
  ToolIsSound
  PngComesBack
  ContextsOwn
  FramesComeBack
  WasmIsSound
  HandlerKeepsPlace
