----------------------------- MODULE MCRPCBindings -----------------------------
(* Small instances of RPCBindings.                                         *)
EXTENDS RPCBindings

CONSTANTS r1, r2, c1, c2, c3, t1, t2

\* c3 is sent by the action of c1.
TwoInstances == [c \in Calls |-> IF c = c1 THEN r1 ELSE r2]
NestedTopic == [c \in Calls |-> IF c = c3 THEN t2 ELSE t1]
\* Both serve t1, and only r1 serves t2.
Split == {<<r1, t1>>, <<r2, t1>>, <<r1, t2>>}
Both == Instances \X Topics
OneTopic == [c \in Calls |-> t1]
Callbacks ==
  [c \in Calls |-> CASE c = c1 -> <<c3, Push>> [] OTHER -> <<Hand>>]
Pushing == [c \in Calls |-> <<Push>>]

\* Both instances on the queue, one of them alone, or one on a direct broker.
AnyPlan ==
  {[i \in Instances |-> "queue"],
   [i \in Instances |-> IF i = r1 THEN "default" ELSE "queue"],
   [i \in Instances |-> IF i = r1 THEN "direct" ELSE "queue"]}
QueuePlan == {[i \in Instances |-> "queue"]}
DefaultPlan == {[i \in Instances |-> "default"]}
=============================================================================
