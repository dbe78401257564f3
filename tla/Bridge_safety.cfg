\* Two transfers per direction, every failure.
CONSTANTS
  NumXfers = 2
  NumPackets = 1
  PacketSize = 1
  InLens = {}
  FrameSize = 1
  MaxBytes = 0
  MaxReplugs = 0
  EventErrors = TRUE
SPECIFICATION Spec
INVARIANT TypeOK
INVARIANT ReleasedAtExit
INVARIANT EngineRunsOnLiveResources
PROPERTY ImplementsStatus
PROPERTY UsesEngine
PROPERTY DrainsWithoutResubmitting
CHECK_DEADLOCK FALSE
