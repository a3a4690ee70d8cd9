SPECIFICATION FairSpec
CONSTANTS
  MaxFrame = 3
  LastBlock = 0
  MaxShards = 2
  TailShards = 2
  Parity = 0
  FullFrameTimeout = 1
  IdrRequestTimeout = 2
  StallTimeout = 3
  DiscardLimit = 3

INVARIANTS PlayedInOrder
PROPERTIES ImplementsDecodableStream StuckStreamAsks CompleteFramePlayed
