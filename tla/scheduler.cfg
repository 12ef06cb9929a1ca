SPECIFICATION SchedFairSpec
CONSTANTS
  Schedulers = {l1, l2}
  MaxTime = 6
  MaxFailures = 1
  NextActivation <- MCNextActivation
INVARIANTS
  SchedTypeOK
  RunsDoNotOverlap
  OneRunPerActivation
PROPERTIES
  DueIsRun
CHECK_DEADLOCK FALSE
