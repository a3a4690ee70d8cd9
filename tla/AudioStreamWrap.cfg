SPECIFICATION Spec
CONSTANTS
  SeqSpace = 8
  DataShards = 4
  MaxFrame = 9
  FirstSeq = 0
  Duration = 5
  Fec = TRUE
  Undecryptable = {}
  MaxWait = 1
  FecRepeated = FALSE
PROPERTY OnlyOldDropped
