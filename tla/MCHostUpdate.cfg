CONSTANTS
  TableSectors = 4
  SectorSize <- MCSectorSize
  FlashSectors = 2
  ChipSectors = 3
  AppSizeMax = 10
  AddressSpace = 64
  WordSize = 2
  Base = 32
  Bits = {0, 1}
  BootCode = {0}
  WornWords = {2}
  MaxPayload = 1
  BitOr <- MCOr
  Image <- MCImage
  ImageAddress = 34
  ChunkWords = 1
  MaxDisturbances = 3
SPECIFICATION FairHostSpec
INVARIANT AcknowledgedIsInPlace
INVARIANT BootedIsImage
PROPERTY OnlyImageChanges
PROPERTY UpdateCompletes
PROPERTY ImplementsUpdater
CHECK_DEADLOCK FALSE
