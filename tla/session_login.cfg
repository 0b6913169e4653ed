SPECIFICATION SessSpec
CONSTANTS
  User = {1}
  PageRequest = {1, 2}
  Overlap = 1
  MaxID = 4
INVARIANT LoginSticks
CHECK_DEADLOCK FALSE
