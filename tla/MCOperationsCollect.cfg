SPECIFICATION BackgroundSpec
CONSTANTS
  b1 = b1
  b2 = b2
  e1 = e1
  e2 = e2
  v1 = v1
  v2 = v2
  NULL = NULL
  Batches = {b1, b2}
  Entities = {e1, e2}
  Values = {v1, v2}
  Scripts <- MCScripts
  Modes = {"collect"}
  ForegroundModes = {"collect"}
  BackgroundModes = {}
  MaxBackground = 0
  WaitForEvents = TRUE
  InitialRows <- OneRow
  MaxConcurrent = 2
  MaxBusy = 0
  MaxOutages = 0
  MaxCrashes = 0
INVARIANTS
  AllOrNothing
CHECK_DEADLOCK FALSE
