SPECIFICATION Spec
CONSTANTS
  s1 = s1
  c1 = c1
  c2 = c2
  d1 = d1
  n1 = n1
  x1 = x1
  Tasks = {s1}
  NoTask = none
  Seeds = {s1}
  DupSeeds = {}
  Denied = {}
  NoHost = {}
  Links <- MCLinks
  MaxDepth = 1
  Fetchers = {f1, f2}
  Parsers = {p1, p2}
  Slow = {s1}
  QueueCap = 1
  MaxFaults = 0
SYMMETRY Symmetry
INVARIANTS
  NoResultLeftOut
CHECK_DEADLOCK FALSE
