CONSTANTS
  TableSectors = 24
  SectorSize <- MCSectorSize
  FlashSectors = 11
  AppSizeMax <- MCAppSizeMax
  AddressSpace <- MCAddressSpace
  Probe <- MCProbe
  Base <- MCBase
  Damage <- MCDamage
  Struck <- MCStruck
  Image <- MCImage
SPECIFICATION FramesSpec
INVARIANT AcceptedIsInTable
INVARIANT ErasesOnlyImage
INVARIANT OnlyDamageIsRefused
INVARIANT DataCrcIsRemainder
PROPERTY ImplementsFlashRange
CHECK_DEADLOCK FALSE
