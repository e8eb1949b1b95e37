CONSTANTS
  Plain = {"ERASE"}
  FrameLength <- MCFrameLength
  PayloadSize = {2}
  RingSize = 6
  IO_TIMEOUT = 1
  BL_TIMEOUT = 3
  Returns = TRUE
  RetryPeriod = 8
  MaxFrames = 2
SPECIFICATION HostSpec
PROPERTY HandshakeIsAnswered
CHECK_DEADLOCK FALSE
