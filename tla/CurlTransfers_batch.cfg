SPECIFICATION Spec
CONSTANTS
  d1 = d1
  d2 = d2
  u1 = u1
  NoRequest = NoRequest
  Downloads <- MCDownloads
  Uploads <- MCNone
  RetryCount = 1
  Outcomes <- MCOutcomes
  WaitsFor <- MCNoWait
INVARIANT HandlesExact
PROPERTIES ReportedOnce WaitsReturn
CHECK_DEADLOCK FALSE
