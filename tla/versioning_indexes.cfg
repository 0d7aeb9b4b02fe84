CONSTANTS
  k1 = k1  k2 = k2  k3 = k3  i1 = i1  i2 = i2  c1 = c1  c2 = c2  f1 = f1  f2 = f2
  NoRow = NoRow
  Indexes = {i1, i2}
  Keys = {k1, k2}
  Fields = {f1}
  Vals = {0, 1}
  Owner <- TwoOwners
  Chains = {c1}
  Chain <- OneChain
  Depth = 2
  Immune = {}
  Cached = {k1}
  Unsafe = {"dirty_delete", "ignore_conflicts", "upsert", "in_place"}
  HeadLag = 0
  TooDeep = "wipe"
  CrashPoints = {"none", "level", "rollback"}
  MaxLevel = 2
  MaxUpdates = 3
SPECIFICATION Spec
CHECK_DEADLOCK FALSE
INVARIANTS
  RevertNeverConflicts
  NoUpdateFromAbove
PROPERTY
  RowsMoveWithTheirIndex
