CONSTANTS
  Indexes = {"a", "b"}
  Jobs = {"j", "k"}
  Hazards = {}
  MaxLevel = 3
  MaxRuns = 1
  MaxRollbacks = 1
SPECIFICATION Spec
CHECK_DEADLOCK FALSE
INVARIANTS
  RowsAreTheirWriters
  NeverFails
