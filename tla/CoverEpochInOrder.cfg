SPECIFICATION Spec
CONSTANTS
  MaxJob = 3
  MaxGeneration = 3
  LegacyInOrder = TRUE
CHECK_DEADLOCK FALSE
PROPERTIES EpochsIncrease
