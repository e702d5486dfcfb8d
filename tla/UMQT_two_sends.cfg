SPECIFICATION Spec
CONSTANTS
  n1 = n1
  n2 = n2
  t1 = t1
  c1 = c1
  c2 = c2
  i1 = i1
  i2 = i2
  Nodes = {n1, n2}
  Topics = {t1}
  Calls = {c1, c2}
  Ids = {i1, i2}
  NodeOf <- OneSender
  TopicOf <- OneTopic
  Reliable = {c1}
  Oversized = {}
  ServerTable <- RemoteServes
  HandlerTable <- RemoteHandles
  DistinctIds = TRUE
  Duplicating = TRUE
  MaxStops <- SenderStops
  NoCall = NoCall
  NoMsg = NoMsg
  NoId = NoId
SYMMETRY IdSymmetry
CHECK_DEADLOCK FALSE
INVARIANTS
  TypeOK
  ReturnedWasReceived
  NeverStranded
