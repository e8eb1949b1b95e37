CONSTANTS
  Plain = {}
  FrameLength <- MCFrameLength
  PayloadSize = {1, 2}
  RingSize = 2
  IO_TIMEOUT = 2
  BL_TIMEOUT = 4
  Burst = 1
  Packet <- MCPacket
SPECIFICATION Spec
INVARIANT TypeOK
INVARIANT SilenceRealigns
INVARIANT SilenceEndsSession
CHECK_DEADLOCK FALSE
