SPECIFICATION Spec
CONSTANTS
  d1 = d1
  d2 = d2
  u1 = u1
  NoRequest = NoRequest
  Downloads <- MCOneDownload
  Uploads <- MCUploads
  RetryCount = 1
  Outcomes <- MCCertificate
  WaitsFor <- MCNoWait
PROPERTY ReportedOnce
CHECK_DEADLOCK FALSE
