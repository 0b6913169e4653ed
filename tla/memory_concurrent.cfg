SPECIFICATION Spec
CONSTANTS
  None = None
  Node <- TwoNodes
  Proc <- TwoProcs
  Key <- OneKey
  Val <- TwoVals
  TTL <- NoTTL
  Setups <- Writers
INVARIANT Converged
CHECK_DEADLOCK FALSE
