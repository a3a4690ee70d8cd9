SPECIFICATION DepayloaderSpec
CONSTANTS
  MaxFrame = 2
  LastBlock = 1
  MaxShards = 2
  TailShards = 1
  Parity = 1
INVARIANTS CompleteFramesIntact EnoughPacketsComplete CountedParityAtHand
