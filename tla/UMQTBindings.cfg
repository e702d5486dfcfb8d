SPECIFICATION Spec
CONSTANTS
  u1 = u1
  u2 = u2
  j1 = j1
  j2 = j2
  t1 = t1
  t2 = t2
  Garbage = Garbage
  NoJob = NoJob
  Instances = {u1, u2}
  Topics = {t1, t2}
  Jobs = {j1, j2}
  Sender <- Senders
  Receiver <- Receivers
  TopicOf <- Subjects
  Mortal = {t2}
CHECK_DEADLOCK FALSE
INVARIANTS
  ReturnedIsHandled
