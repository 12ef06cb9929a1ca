SPECIFICATION FairSpec
CONSTANTS
  s1 = s1
  c1 = c1
  c2 = c2
  d1 = d1
  n1 = n1
  x1 = x1
  Tasks = {s1, c1, d1}
  NoTask = none
  Seeds = {s1, d1}
  DupSeeds = {d1}
  Denied = {}
  NoHost = {}
  Links <- MCLinks
  MaxDepth = 1
  Fetchers = {f1}
  Parsers = {p1, p2}
  Slow = {}
  QueueCap = 1
  MaxFaults = 1
INVARIANTS
  FrontierClosed
  ExportIsFinal
PROPERTIES
  OwnerSees
  TasksSettle
  JobExported
CHECK_DEADLOCK FALSE
