SPECIFICATION Spec
CONSTANTS
  NoRun = NoRun
  r1 = r1
  r2 = r2
  r3 = r3
  Run = {r1, r2, r3}
SYMMETRY RunSymmetry
CHECK_DEADLOCK FALSE
INVARIANTS AnsweredStopIsRemembered ReceiptMeansExit SyncedRemovalIsFinal
