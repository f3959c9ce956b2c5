SPECIFICATION Spec
CONSTANTS
  Event <- MCEvent
  MaxSeen = 2
  MaxRecent = 1
  MaxPosts = 6
  MaxRuns = 2
  MaxFails = 1
  MaxCrashes = 1
CHECK_DEADLOCK FALSE
INVARIANTS GenerationsInOrder CaptionOnce
