SPECIFICATION DriversSpec
CONSTANTS
  MaxQueued = 1
  Deadlines = {TRUE, FALSE}
  MaxProduced = 3
  MaxWaiting = 1
INVARIANTS SleepersHaveNoWork RunEndsStopped AsleepForNothing TransmitsKept
PROPERTIES TransmitServed StoppedTimedThreadsEnd
CHECK_DEADLOCK FALSE
