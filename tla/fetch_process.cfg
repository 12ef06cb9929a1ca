SPECIFICATION FetchProcessSpec
CONSTANTS
  p1 = p1
  p2 = p2
  limited = limited
  free = free
  Keys = {limited, free}
  InMemory = {}
  Unit = 3
  Rate <- Rates
  TicksPerSecond = 1
  TTL = 2
  Procs = {p1, p2}
  Region <- NoRegion
  FetcherOf <- Fetching
  Msgs = {1, 2}
  QueueOf <- AllInDefaultQueue
  BucketOf <- SharedBuckets
  Obeying = {1}
  Served <- RobotsHistory
  MaxAttempts = 1
INVARIANTS
  FetchTypeOK
  RateBound
  WaitIsEnough
PROPERTIES
  RobotsObeyed
