SPECIFICATION FairSpec
CONSTANTS
  MaxQueued = 1
  Deadlines = {TRUE}
PROPERTY StoppedConsumerReturns
