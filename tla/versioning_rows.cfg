CONSTANTS
  k1 = k1  k2 = k2  k3 = k3  i1 = i1  i2 = i2  c1 = c1  c2 = c2  f1 = f1  f2 = f2
  NoRow = NoRow
  Indexes = {i1}
  Keys = {k1}
  Fields = {f1, f2}
  Vals = {0, 1}
  Owner <- OneOwner
  Chains = {c1}
  Chain <- OneChain
  Depth = 2
  Immune = {}
  Cached = {}
  Unsafe = {}
  HeadLag = 0
  TooDeep = "wipe"
  CrashPoints = {"none", "level", "rollback"}
  MaxLevel = 3
  MaxUpdates = 3
SPECIFICATION Spec
SYMMETRY FieldSymmetry
CHECK_DEADLOCK FALSE
INVARIANTS
  TablesMatchLevel
  LogSuffices
PROPERTY
  ImplementsStore
