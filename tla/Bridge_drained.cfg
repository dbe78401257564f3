\* Is the device closed only once every transfer is back?
CONSTANTS
  NumXfers = 2
  NumPackets = 1
  PacketSize = 1
  InLens = {}
  FrameSize = 1
  MaxBytes = 0
  MaxReplugs = 0
  EventErrors = FALSE
SPECIFICATION Spec
INVARIANT DrainedBeforeClose
CHECK_DEADLOCK FALSE
