SPECIFICATION KafkaFairSpec
CONSTANTS
  Consumers = {k1, k2}
  MaxOffset = 3
  MaxRebalances = 3
  MaxErrors = 1
  MaxLostCommits = 1
INVARIANTS
  KafkaTypeOK
  NoMessageSkipped
PROPERTIES
  EveryMessageHandled
CHECK_DEADLOCK FALSE
