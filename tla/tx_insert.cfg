SPECIFICATION TxSpec
CONSTANTS
  DBRow = {1}
  MaxDepth = 2
  MaxSteps = 6
  AutoID = {"postgres", "mysql"}
INVARIANT AllOrNothing
CHECK_DEADLOCK FALSE
