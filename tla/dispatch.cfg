CONSTANTS
  Indexes = {"a", "b"}
  Hazards = {}
  MaxLevel = 3
  MaxCrashes = 1
  MaxReorgs = 1
SPECIFICATION FairSpec
CHECK_DEADLOCK FALSE
INVARIANTS
  NothingMissed
  BoundKept
  EndsComplete
  NeverFails
PROPERTIES
  HookFires
