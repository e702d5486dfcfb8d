SPECIFICATION FairSpec
CONSTANTS
  c1 = c1
  c2 = c2
  c3 = c3
  c4 = c4
  t1 = t1
  t2 = t2
  w1 = w1
  w2 = w2
  i1 = i1
  i2 = i2
  i3 = i3
  i4 = i4
  Push = Push
  App = App
  NoCall = NoCall
  NoId = NoId
  NoTask = NoTask
  Calls = {c1, c2, c3, c4}
  Topics = {t1}
  Ids = {i1, i2, i3, i4}
  Workers = {w1, w2}
  TopicOf <- OneTopic
  Program <- Chain
  DistinctIds = TRUE
  Switches = {"producer"}
CHECK_DEADLOCK FALSE
PROPERTIES
  HangsOnlyByNesting
  SetProducerReturns
  Replies
