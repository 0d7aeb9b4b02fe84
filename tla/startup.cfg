CONSTANTS
  NoHash = NoHash  NoRow = NoRow
  i1 = i1  i2 = i2  c1 = c1
  Indexes = {i1, i2}
  Templated = {i2}
  Contract = c1
  Factory = i1
  FactoryLevel = 1
  Policies <- MCPolicies
  Databases = {"postgres", "postgres with migrations", "sqlite"}
  Circumstances = {}
  MaxEdits = 2
  MaxCommands = 1
  MaxStops = 1
  MaxLevel = 2
SPECIFICATION FairSpec
CHECK_DEADLOCK FALSE
INVARIANTS
  OneDefinition
  ApprovalHolds
  PreparedFirst
  HasuraConfigured
PROPERTIES
  RefusesUntilSettled
  Resumes
