SPECIFICATION FairSpec
CONSTANTS
  w1 = w1
  w2 = w2
  r1 = r1
  r2 = r2
  t1 = t1
  t2 = t2
  NULL = NULL
  Writers = {w1, w2}
  Readers = {r1, r2}
  Tasks = {t1, t2}
  MayDelete = TRUE
  MayExpire = TRUE
  MaxChanges = 2
  MaxWriters = 2
  MaxFaults = 1
PROPERTIES
  EventuallyCurrent
  EveryListAnswered
CHECK_DEADLOCK FALSE
