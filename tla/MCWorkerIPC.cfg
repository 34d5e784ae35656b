SPECIFICATION Spec
CONSTANTS
  NumWorkers = 2
  Methods = {"run", "sync", "method"}
  CellCount = 4
  MaxCommands = 2
INVARIANTS CollectivesMatch NeverBackwards
PROPERTIES RefinesBroadcast Shutdown
CHECK_DEADLOCK FALSE
