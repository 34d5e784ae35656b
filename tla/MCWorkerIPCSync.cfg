SPECIFICATION Spec
CONSTANTS
  NumWorkers = 2
  Methods = {"run", "sync"}
  CellCount = 4
  MaxCommands = 2
INVARIANTS CollectivesPair
CHECK_DEADLOCK FALSE
