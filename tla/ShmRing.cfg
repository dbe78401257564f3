\* One ring with every kind of call: writes of up to a whole ring, reads of less
\* and of more than a ring, and a consumer that resynchronises.
CONSTANTS
  Cap = 3
  WriteLens = {1, 2, 3}
  ReadLens = {2, 4}
  Resyncs = TRUE
  MaxPos = 8
SPECIFICATION FairSpec
INVARIANT TypeOK
INVARIANT ConsumerBehindProducer
INVARIANT IntactUnlessOverwritten
PROPERTY PositionsMonotonic
PROPERTY ImplementsStream
PROPERTY EverythingConsumed
