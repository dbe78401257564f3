\* IO buffers shorter and longer than the ring, an impulse of one frame.
CONSTANTS
  Cap = 2
  Word = 16
  PacketLens = {1}
  BufferSizes = {1, 3}
  ImpulseLen = 1
  ToolBuf = 1
  MaxSleeps = 1
  MaxPos = 3
SPECIFICATION FairSpec
INVARIANT TypeOK
INVARIANT NeverAheadOfInput
PROPERTY OutputRecovers
PROPERTY InputConsumed
CHECK_DEADLOCK FALSE
