CONSTANTS
  Kinds = {"operations", "token_transfers", "big_maps", "events", "evm_events", "evm_transactions", "starknet", "substrate"}
  Hazards = {}
  MaxLevel = 3
  MaxItems = 4
  PageSize = 2
  ReadaheadLimit = 2
  RetryCount = 1
  MaxFaults = 1
  LastMile = 1
  MaxBatch = 2
SPECIFICATION FairSpec
INVARIANTS
  NeverRaises
  NothingStranded
PROPERTIES
  ImplementsStream
  CatchesUp
