CONSTANTS
  Size = 4
  Byte = {0, 1}
  Zero = 0
  NoByte = NoByte
  MaxPacket = 4
  Packet <- MCPacket
SPECIFICATION Spec
INVARIANT TypeOK
INVARIANT SlotIsSafe
INVARIANT RetIsOldest
PROPERTY ImplementsFifo
