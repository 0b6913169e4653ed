SPECIFICATION DatabaseSpec
CONSTANTS
  DBRow = {1, 2}
  MaxDepth = 3
  MaxSteps = 9
  AutoID = {"postgres", "mysql"}
  Id = {1, 2, 3}
  Clause <- Clauses
  Number = {0, 2}
  MaxCalls = 3
  MaxQueries = 2
  Node = {1, 2}
  MaxStructs = 2
  MaxRelSteps = 4
  Sample <- Fields
  MaxText = 5
  Request = {1, 2, 3}
  MaxOpen = 2
  Migration = {1, 2}
  UpRepeats = {1}
  DownRepeats = {1}
  Deployer = {1, 2}
  Known <- Releases
  Dialects = {"postgres", "mysql"}
  MaxCommands = 4
  Backuper = {1, 2}
  Size = 1
  MaxSecond = 2
INVARIANTS
  DatabaseTypeOK
  TxExact
  BuilderExact
  TextsSanitized
  MigrationsExact
  DumpsComplete
PROPERTIES
  RelationsExact
  DatabaseFinishes
CHECK_DEADLOCK FALSE
