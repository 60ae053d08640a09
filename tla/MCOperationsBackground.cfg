SPECIFICATION BackgroundSpec
CONSTANTS
  b1 = b1
  b2 = b2
  e1 = e1
  e2 = e2
  v1 = v1
  v2 = v2
  NULL = NULL
  Batches = {b1, b2}
  Entities = {e1, e2}
  Values = {v1, v2}
  Scripts <- CrossingScripts
  Modes = {"raise", "can_fail", "collect"}
  ForegroundModes = {"raise"}
  BackgroundModes = {"can_fail", "collect"}
  MaxBackground = 1
  WaitForEvents = TRUE
  InitialRows <- TwoRows
  MaxConcurrent = 2
  MaxBusy = 3
  MaxOutages = 1
  MaxCrashes = 1
INVARIANTS
  RaisingIsAtomic
  AnnouncedOnce
  ReplayMatches
  CompletedIsTrue
PROPERTIES
  IsAtomic
  EveryBatchEnds
  StatusGoesForward
  EveryTaskReports
CHECK_DEADLOCK FALSE
