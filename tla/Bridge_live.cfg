\* One transfer per direction, fair scheduling.
CONSTANTS
  NumXfers = 1
  NumPackets = 1
  PacketSize = 1
  InLens = {}
  FrameSize = 1
  MaxBytes = 0
  MaxReplugs = 0
  EventErrors = TRUE
SPECIFICATION FairSpec
PROPERTY EndsWhenAsked
PROPERTY HeartbeatGoesOn
CHECK_DEADLOCK FALSE
