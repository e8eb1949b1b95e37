CONSTANTS
  TableSectors = 4
  SectorSize <- MCSectorSize
  FlashSectors = 2
  ChipSectors = 3
  AppSizeMax = 6
  AddressSpace = 32
  WordSize = 2
  Base = 16
  Bits = {0}
  BootCode = {}
  WornWords = {}
  MaxPayload = 2
  BitOr <- MCOr
  HostAddress = {15, 18}
  HostSize = {2}
  HostSector = {0, 1, 2}
SPECIFICATION Spec
INVARIANT TypeOK
INVARIANT SessionStartsClean
INVARIANT UnlockedOnlyWhileWriting
PROPERTY BeyondIsWriteOnce
CHECK_DEADLOCK FALSE
