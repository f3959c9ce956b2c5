SPECIFICATION Spec
CONSTANTS
  p1 = p1
  p2 = p2
  d1 = d1
  d2 = d2
  h1 = h1
  Staged = {p1, p2}
  Direct = {d1, d2}
  Stop = {h1}
  MaxFrames = 2
  Patient = TRUE
SYMMETRY Symmetry
CHECK_DEADLOCK FALSE
INVARIANTS RunHasItsBridges NoOrphanBridge NewestFrameKept
