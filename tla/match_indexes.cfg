CONSTANTS
  user = user  A = A  B = B  C = C  rollup = rollup  h = h  g = g
  x = x  y = y  e = e  f = f  o = o  q = q
  None = None
  Rollups = {rollup}
  CodeHash <- CodeHashes
  Configs <- AllConfigs
  Neighbours <- AllNeighbours
  Operations <- Chain
  Emitted <- Things
  Abi <- Abis
  Metadata = {8, 9, 12}
  FieldsRead = {"value"}
  Hazards = {}
  MaxSubgroup = 3
  MaxCalls = 6
SPECIFICATION FairSpec
CHECK_DEADLOCK FALSE
INVARIANTS
  CallsAreMatches
  EveryMatchCalls
  HistoryMatchesRealtime
