CONSTANTS
  Hazards = {}
  MaxLevel = 3
  MaxBlocks = 5
  MaxReorgs = 1
  MaxFaults = 1
  RetryCount = 2
SPECIFICATION FairSpec
CHECK_DEADLOCK FALSE
INVARIANTS
  CanonicalWhenQuiet
  RollbackCoversIndex
  NeverFails
PROPERTY
  Settles
