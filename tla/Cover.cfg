SPECIFICATION FairSpec
CONSTANTS
  None = None
  Wait = Wait
  a1 = a1
  a2 = a2
  s1 = s1
  s2 = s2
  k1 = k1
  k2 = k2
  Applier = {a1, a2}
  Setter = {s1}
  Key = {k1, k2}
  MaxRevision = 2
  MaxFrame = 1
  MaxReplay = 1
INVARIANTS AppliedIsShown WitnessIsCurrent NeverResent LastGoodIsNewest EndedStaysTerminal
PROPERTIES EndProcessed
