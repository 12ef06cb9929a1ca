SPECIFICATION FairFetchProcessSpec
CONSTANTS
  p1 = p1
  p2 = p2
  limited = limited
  free = free
  Keys = {limited, free}
  InMemory = {}
  Unit = 1
  Rate <- FastRates
  TicksPerSecond = 1
  TTL = 1
  Procs = {p1, p2}
  Region <- OneRegion
  FetcherOf <- Fetching
  Msgs = {1, 3}
  QueueOf <- AllInDefaultQueue
  BucketOf <- SharedBuckets
  Obeying = {}
  Served <- OneVersion
  MaxAttempts = 2
INVARIANTS
  EveryMessageHasOnePlace
PROPERTIES
  CleanExit
  DrainEnds
