SPECIFICATION Spec
CONSTANTS
  Node = {a, b}
  Channel <- MCChannel
  MaxEvents = 1
INVARIANT ReachesPeers
CHECK_DEADLOCK FALSE
