CONSTANTS
  Depth = 2
  BufferSizes = {0}
  Hazards = {"backlog", "stale_channel", "above_rollback", "early_message"}
  MaxLevel = 3
  MaxBlocks = 4
  MaxReorgs = 3
  MaxFaults = 2
SPECIFICATION FairSpec
INVARIANT
  NeverFails
PROPERTIES
  LevelOnlyRollsBack
  Settles
