CONSTANTS
  TableSectors = 4
  SectorSize <- MCSectorSize
  FlashSectors = 3
  ChipSectors = 3
  AppSizeMax = 8
  AddressSpace = 64
  WordSize = 2
  Base = 32
  Bits = {0, 1}
  BootCode = {0}
  WornWords = {}
  MaxPayload = 2
  BitOr <- MCOr
  HostAddress = {34}
  HostSize = {6}
  HostSector = {}
SPECIFICATION Spec
PROPERTY FlashErasesItsRange
CHECK_DEADLOCK FALSE
