SPECIFICATION Spec
CONSTANTS
  c1 = c1
  c2 = c2
  c3 = c3
  c4 = c4
  t1 = t1
  t2 = t2
  w1 = w1
  w2 = w2
  i1 = i1
  i2 = i2
  i3 = i3
  i4 = i4
  Push = Push
  App = App
  NoCall = NoCall
  NoId = NoId
  NoTask = NoTask
  Calls = {c1, c2, c3}
  Topics = {t1, t2}
  Ids = {i1, i2, i3}
  Workers = {w1, w2}
  TopicOf <- TwoTopics
  Program <- Nesting
  DistinctIds = FALSE
  Switches = {}
SYMMETRY Symmetry
CHECK_DEADLOCK FALSE
INVARIANTS
  NoRecvPanic
