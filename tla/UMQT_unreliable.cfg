SPECIFICATION FairSpec
CONSTANTS
  n1 = n1
  n2 = n2
  t1 = t1
  c1 = c1
  c2 = c2
  i1 = i1
  i2 = i2
  Nodes = {n1, n2}
  Topics = {t1}
  Calls = {c2}
  Ids = {i1}
  NodeOf <- OneSender
  TopicOf <- OneTopic
  Reliable = {}
  Oversized = {}
  ServerTable <- BothServe
  HandlerTable <- BothHandle
  DistinctIds = TRUE
  Duplicating = FALSE
  MaxStops <- EachStops
  NoCall = NoCall
  NoMsg = NoMsg
  NoId = NoId
CHECK_DEADLOCK FALSE
INVARIANTS
  UnreliableOnce
PROPERTIES
  SendReturns
  Delivers
