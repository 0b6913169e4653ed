SPECIFICATION CoreSpec
CONSTANTS
  None = None
  Node <- TwoNodes
  Proc <- TwoProcs
  Key <- OneKey
  Val <- OneVal
  TTL <- ShortTTL
  Setups <- Deployments
  Event <- MCEvent
  Cap = 3
  Nil = Nil
  Channel = {"chat", "news"}
  Broadcaster = {b1, b2}
  Size = 2
  SendBuf = 3
  MaxEvents = 3
  MaxDrops = 1
INVARIANTS
  StoreOK
  RingOK
  SinceReplaysRest
  ResumeOK
PROPERTIES
  LiveEntriesStay
  UpdateAtomic
  NoCausalRegress
  EventualAgreement
  ImplementsRecent
  ResumeDelivers
CHECK_DEADLOCK FALSE
