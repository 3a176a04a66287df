SPECIFICATION Spec
CONSTANTS
  d1 = d1
  d2 = d2
  u1 = u1
  NoRequest = NoRequest
  Downloads <- MCOneDownload
  Uploads <- MCUploads
  RetryCount = 1
  Outcomes <- MCOutcomes
  WaitsFor <- MCUploadWaits
PROPERTY WaitsReturn
CHECK_DEADLOCK FALSE
