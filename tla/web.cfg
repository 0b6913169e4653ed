SPECIFICATION WebSpec
CONSTANTS
  Word = {"a", "b"}
  Declared <- Routes
  Opened <- Groups
  Room = TRUE
  MaxRoutes = 2
  MaxOps = 4
  MaxParts = 3
  User = {1}
  PageRequest = {1, 2}
  Overlap = 2
  MaxID = 4
  Service = {1, 2}
  Maker = {g1, g2}
  MaxBuilt = 2
  MaxBinds = 2
  Role = {1, 2}
  MaxSegs = 3
  RateKey = {k1}
  Request = {r1, r2}
  Limit = 2
  Window = 2
  MaxRequests = 4
  MaxTime = 3
  Chains <- MCChains
  MaxDocs = 2
INVARIANTS
  WebTypeOK
  RoutesExact
  NoFixation
  SessionFollows
  ContainerExact
  LimitHolds
  AnswerExact
PROPERTIES
  CanExact
CHECK_DEADLOCK FALSE
