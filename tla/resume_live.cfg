SPECIFICATION LiveSpec
CONSTANTS
  Channel = {"chat"}
  Broadcaster = {p1}
  Size = 4
  SendBuf = 6
  MaxEvents = 3
  MaxDrops = 1
INVARIANT NoMissedEvents
CHECK_DEADLOCK FALSE
