\* Two transfers per direction, two packets per transfer of a whole frame or of
\* half a frame more, rings that give any number of bytes, a host and a client
\* that go on.
CONSTANTS
  NumXfers = 2
  NumPackets = 2
  PacketSize = 2
  InLens = {2, 3}
  FrameSize = 2
  MaxBytes = 6
SPECIFICATION FairSpec
INVARIANT TypeOK
INVARIANT NoTransferDropped
INVARIANT NothingPlayedTwice
INVARIANT SamplesInStep
PROPERTY StaysStopped
PROPERTY Drains
CHECK_DEADLOCK FALSE
