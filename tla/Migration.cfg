SPECIFICATION Spec
CONSTANTS
  c1 = c1
  c2 = c2
  Entry = {1, 2, 3}
  Command = {c1, c2}
  MaxKills = 2
  MaxDeletes = 1
CHECK_DEADLOCK FALSE
INVARIANTS Recoverable ForeignKept CanResume
