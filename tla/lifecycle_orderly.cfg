CONSTANTS
  Depth = 2
  BufferSizes = {0, 1, 2}
  Hazards = {}
  MaxLevel = 4
  MaxBlocks = 4
  MaxReorgs = 2
  MaxFaults = 2
SPECIFICATION FairSpec
INVARIANTS
  CanonicalWhenQuiet
PROPERTIES
  NeverIndexedTwice
  CatchesUp
