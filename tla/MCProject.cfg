SPECIFICATION FairSpec
CONSTANTS
  p1 = p1
  p2 = p2
  v0 = v0
  v1 = v1
  r1 = r1
  r2 = r2
  r3 = r3
  NULL = NULL
  Requests = {r1, r2, r3}
  Projects = {p1, p2}
  Values = {v0, v1}
  Menu <- AnyThree
  Initial = v0
  MaxFailures = 1
INVARIANTS
  CopiesOfCommits
PROPERTIES
  LockedKeepsTheRest
  EveryRequestEnds
CHECK_DEADLOCK FALSE
