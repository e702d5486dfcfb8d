SPECIFICATION FairSpec
CONSTANTS
  r1 = r1
  r2 = r2
  c1 = c1
  c2 = c2
  c3 = c3
  t1 = t1
  t2 = t2
  Push = Push
  Hand = Hand
  Queue = Queue
  Garbage = Garbage
  NoCall = NoCall
  NoInstance = NoInstance
  Instances = {r1, r2}
  Topics = {t1, t2}
  Calls = {c1, c3}
  InstOf <- TwoInstances
  TopicOf <- NestedTopic
  Serves <- Split
  Program <- Callbacks
  Plans <- AnyPlan
  Mortal = {t1}
  ZeroBytes = {c3}
  MaxId = 6
CHECK_DEADLOCK FALSE
INVARIANTS
  TypeOK
  StreamsOfActions
  ServedWhileTopicLives
PROPERTIES
  HangsOnlyIfAbandoned
