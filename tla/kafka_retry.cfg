SPECIFICATION KafkaSpec
CONSTANTS
  Consumers = {k1}
  MaxOffset = 3
  MaxRebalances = 1
  MaxErrors = 1
  MaxLostCommits = 0
INVARIANTS
  FailedIsRedelivered
CHECK_DEADLOCK FALSE
