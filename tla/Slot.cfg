SPECIFICATION Spec
CONSTANTS
  s1 = s1
  s2 = s2
  m1 = m1
  m2 = m2
  l1 = l1
  NoStart = NoStart
  Stream = {s1, s2}
  Managed = {m1, m2}
  Legacy = {l1}
  StreamOf <- TwoStreams
  HasPackager = TRUE
  EagerCommits = FALSE
  LateAborts = FALSE
  AbortsMayTimeOut = TRUE
CHECK_DEADLOCK FALSE
INVARIANTS SlotExclusive LiveChildHoldsSlot ReleasedMeansReaped PackageTargetsOwnRun
PROPERTIES EndedNeverRuns ImplementsLease
