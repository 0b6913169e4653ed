SPECIFICATION RealtimeSpec
CONSTANTS
  Node <- MCNode
  Proc <- MCProc
  Home <- MCHome
  MaxTS = 2
  Sub = {s1}
  Publisher = {p1, p2}
  Pattern <- MCPattern
  Topic <- MCTopic
  ChanCap = 2
  MaxPub = 3
  MaxCancel = 2
  Conn = {1, 2}
  PresenceChannel <- TwoRooms
  Hooks = {"ok", "fails"}
  ChannelObj = {1, 2}
  MaxUses = 6
  MaxLosses = 2
INVARIANTS
  CausalityRespected
  SingleWinner
  DeliveryOK
  PresenceOK
  ClientAgrees
PROPERTIES
  NothingAfterCancel
  RealtimeFinishes
CHECK_DEADLOCK FALSE
