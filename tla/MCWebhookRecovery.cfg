SPECIFICATION FairSpec
CONSTANTS
  w1 = w1
  w2 = w2
  x1 = x1
  Worker = {w1, w2}
  Nobody = Nobody
  Endpoint = {x1}
  NumEvents = 2
  NumJobs = 1
  Subscriptions <- MCSubscriptions
  BatchSize = 2
  MaxAttempts = 2
  Lease = 1
  WaveSize = 1
  RetryDelay = 1
  FaultDelay = 1
  MayStall = TRUE
  MaxClock = 4
  Horizon = 2
  MaxFaults = 2
INVARIANTS
  JobAccounting
PROPERTIES
  OnlyOwnerSettles
  ClosedEventsStay
  JobCompletes
CHECK_DEADLOCK FALSE
