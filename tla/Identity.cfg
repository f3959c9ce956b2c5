SPECIFICATION Spec
CONSTANTS
  v1 = v1
  p1 = p1
  main = main
  Issued <- MCIssued
  Version = {v1}
  Preparation = {p1}
  Main = main
  Required = FALSE
  Careful = TRUE
  MaxRevision = 2
  MaxStarts = 2
  MaxEdits = 1
CHECK_DEADLOCK FALSE
INVARIANTS OneIdentity CommittedUnderOneNode
