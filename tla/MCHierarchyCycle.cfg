SPECIFICATION Spec
CONSTANTS
  a = a
  b = b
  x = x
  p1 = p1
  c1 = c1
  c2 = c2
  NULL = NULL
  Folders = {a, b, x}
  Products = {}
  Clients = {c1, c2}
  InitialParent <- Roots
  Resembles <- Plain
  MaxConcurrent = 2
  MaxMovers = 2
  MayForce = FALSE
  ForceAlone = FALSE
  MaySkip = FALSE
INVARIANTS
  Acyclic
CHECK_DEADLOCK FALSE
