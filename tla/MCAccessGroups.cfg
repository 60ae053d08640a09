SPECIFICATION FairSpec
CONSTANTS
  a = a
  b = b
  u1 = u1
  NULL = NULL
  n1 = n1
  n2 = n2
  c1 = c1
  c2 = c2
  Nodes = {n1, n2}
  Clients = {c1, c2}
  Users = {u1}
  Home <- MCHome
  Names = {a, b}
  Projects = {"p"}
  Studio = "_"
  Groups <- MCGroups
  InitialNames <- MCInitialNames
  Lists <- MCLists
  MaxRequests = 2
  MaxFaults = 1
INVARIANTS
  TypeOK
  CopyIsCurrent
  NoDeletedNames
PROPERTIES
  NodesCatchUp
CHECK_DEADLOCK FALSE
