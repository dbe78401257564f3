\* Does a disconnect while streaming end the run with a failure?
CONSTANTS
  NumXfers = 1
  NumPackets = 1
  PacketSize = 1
  InLens = {}
  FrameSize = 1
  MaxBytes = 0
  MaxReplugs = 0
  EventErrors = FALSE
SPECIFICATION FairSpec
PROPERTY DisconnectExitsNonZero
CHECK_DEADLOCK FALSE
