SPECIFICATION Spec
CONSTANTS
  a = a
  b = b
  x = x
  p1 = p1
  c1 = c1
  c2 = c2
  NULL = NULL
  Folders = {a, b, x}
  Products = {p1}
  Clients = {c1, c2}
  InitialParent <- Nested
  Resembles <- Plain
  MaxConcurrent = 2
  MaxMovers = 1
  MayForce = TRUE
  ForceAlone = TRUE
  MaySkip = TRUE
SYMMETRY ClientSymmetry
INVARIANTS
  TypeOK
  Acyclic
  ViewIsCurrent
PROPERTIES
  PublishedStays
  DeletedInside
CHECK_DEADLOCK FALSE
