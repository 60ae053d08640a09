SPECIFICATION FairSpec
CONSTANTS
  Callers = {c1, c2, c3}
  Keys = {k1}
  MaxWaiters = 2
  MaxCalls = 4
  MaxWrites = 1
  MaxFailures = 1
  MaxCancels = 1
  NULL = NULL
INVARIANTS
  CountsMatch
  NoOlderThanOverlap
PROPERTIES
  EveryCallEnds
CHECK_DEADLOCK FALSE
