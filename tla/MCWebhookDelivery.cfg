SPECIFICATION Spec
CONSTANTS
  w1 = w1
  w2 = w2
  x1 = x1
  x2 = x2
  Worker = {w1, w2}
  Nobody = Nobody
  Endpoint = {x1, x2}
  NumEvents = 1
  NumJobs = 3
  Subscriptions <- MCSubscriptions
  BatchSize = 1
  MaxAttempts = 2
  Lease = 2
  WaveSize = 1
  RetryDelay = 1
  FaultDelay = 1
  MayStall = FALSE
  MaxClock = 4
  Horizon = 4
  MaxFaults = 1
SYMMETRY MCSymmetry
INVARIANTS
  TypeOK
  UndecidedIsDispatchable
  DeliveryHistory
  PosterIsAlone
PROPERTIES
  KeepsPromise
  DeliveredToAll
CHECK_DEADLOCK FALSE
