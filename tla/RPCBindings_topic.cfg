SPECIFICATION Spec
CONSTANTS
  r1 = r1
  r2 = r2
  c1 = c1
  c2 = c2
  c3 = c3
  t1 = t1
  t2 = t2
  Push = Push
  Hand = Hand
  Queue = Queue
  Garbage = Garbage
  NoCall = NoCall
  NoInstance = NoInstance
  Instances = {r1}
  Topics = {t1, t2}
  Calls = {c1}
  InstOf <- TwoInstances
  TopicOf <- OneTopic
  Serves <- Both
  Program <- Pushing
  Plans <- DefaultPlan
  Mortal = {t1}
  ZeroBytes = {}
  MaxId = 4
CHECK_DEADLOCK FALSE
INVARIANTS
  ServedByItsTopic
