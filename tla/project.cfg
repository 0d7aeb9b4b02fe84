CONSTANTS
  NoFile = NoFile  NoConfig = NoConfig  NoCommand = NoCommand
  Contracts = {"token", "dex", "para"}
  KindOf <- MCKindOf
  Hooks = {"cleanup"}
  Template <- MCTemplate
  Circumstances = {}
  MaxCommands = 4
  MaxEdits = 2
  MaxStops = 1
SPECIFICATION Spec
CHECK_DEADLOCK FALSE
INVARIANTS
  NeverFails
  RenewedAreCurrent
  TypesDecode
PROPERTIES
  FilesKept
