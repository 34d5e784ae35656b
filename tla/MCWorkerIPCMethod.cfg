SPECIFICATION Spec
CONSTANTS
  NumWorkers = 2
  Methods = {"run", "method"}
  CellCount = 4
  MaxCommands = 3
INVARIANTS NoneSkipped
CHECK_DEADLOCK FALSE
