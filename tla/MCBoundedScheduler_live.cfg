SPECIFICATION FairSpec
CONSTANTS
  Requests = {r1, r2, r3}
  MaximumConcurrency = 1
  MaximumQueueSize = 1
PROPERTIES
  EveryCallAnswered
  CapacityRecovered
CHECK_DEADLOCK FALSE
