SPECIFICATION FairSpec
CONSTANTS
  MaxMotion = 1
  Key = {k}
  Pad = {p}
  Position = {spot}
  PingInterval = 3
  HostInterval = 2
  EarlyInput = FALSE
  Sunshine = TRUE
  MaxEvents = 1
INVARIANTS FirstPackets ServerInStep MotionConserved PingInTime EndReported
PROPERTIES MotionSent
CHECK_DEADLOCK FALSE
