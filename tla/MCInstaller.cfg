SPECIFICATION FairSpec
CONSTANTS
  Uploads = {u1}
  Urls = {a1}
  Packages = {p1}
  addon = addon
  package = package
  Places = {addon, package}
  PlaceOf <- MCPlaceOf
  Requesters = {r1}
  Maintenance = auto_update
  RetryLimit = 1
  PatchStatuses = {"aborted", "finished"}
  PatchRetries = {0}
  MaxRequests = 2
  MaxFaults = 1
  NULL = NULL
INVARIANTS TypeOK NoneForgotten FinishedIsInstalled 
CHECK_DEADLOCK FALSE
PROPERTIES ComesToRest
