CONSTANTS
  TableSectors = 4
  SectorSize <- MCSectorSize
  FlashSectors = 2
  ChipSectors = 3
  AppSizeMax = 8
  AddressSpace = 64
  WordSize = 2
  Base = 32
  Bits = {0, 1}
  BootCode = {0}
  WornWords = {1}
  MaxPayload = 2
  BitOr <- MCOr
  HostAddress = {34}
  HostSize = {2}
  HostSector = {}
SPECIFICATION Spec
PROPERTY WriteErrorIsReported
CHECK_DEADLOCK FALSE
