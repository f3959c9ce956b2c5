SPECIFICATION Spec
CONSTANTS
  a1 = a1
  a2 = a2
  b1 = b1
  streamA = streamA
  streamB = streamB
  Run = {a1, a2, b1}
  StreamOf <- TwoStreams
  FolderName <- OwnNames
  Uploads = {a1}
  Retains = {b1}
  MaxTogether = 2
  None = None
  CurrentOnly = TRUE
  MaxAttempts = 2
  MaxCalls = 2
  MaxCrashes = 1
  MaxRequests = 2
CHECK_DEADLOCK FALSE
INVARIANTS CompletedIsUploaded NoDuplicateObjects
PROPERTIES PackagingNeverLoses
