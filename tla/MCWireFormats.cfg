SPECIFICATION FormatSpec
CONSTANTS
  HeaderSize = 2
  PayloadLen = 3
  MaxShards = 3
  FecConfigs <- MCFecConfigs
  SeqModulus = 16
  BlockModulus = 4
  PercentModulus = 256
  FrameLens = {3, 4, 5, 6, 7, 8, 12, 16, 17, 25, 31}
  Versions <- MCVersions
  MaxFrame = 2
  Profiles <- MCProfiles
  Controllers = {0, 1}
  TextLens = {0, 32, 40}
  TriggerLens = {4, 10}
  MaxSent = 2
INVARIANTS LongFramesRoundTrip ParityAgreed ArrivesAsSent ControllerUpdatesInOrder
PROPERTY LastingInputArrives
CHECK_DEADLOCK FALSE
