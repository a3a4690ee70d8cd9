SPECIFICATION FairSpec
CONSTANTS
  SeqSpace = 16
  DataShards = 4
  MaxFrame = 7
  FirstSeq = 0
  Duration = 5
  Fec = TRUE
  Undecryptable = {1}
  MaxWait = 1
  FecRepeated = FALSE
INVARIANTS PlayedIntactInOrder EnoughShardsRecover
PROPERTIES BufferedFramesPassed
