------------------------------- MODULE MCUMQT -------------------------------
(* Small instances of UMQT: all calls are made on n1.                      *)
EXTENDS UMQT, TLC

CONSTANTS n1, n2, t1, c1, c2, i1, i2

OneSender == [c \in Calls |-> n1]
OneTopic == [c \in Calls |-> t1]
BothServe == {<<n1, t1, n1>>, <<n1, t1, n2>>}
RemoteServes == {<<n1, t1, n2>>}
RemoteHandles == {<<n2, t1>>}
BothHandle == {<<n1, t1>>, <<n2, t1>>}
ServerStops == [n \in Nodes |-> IF n = n2 THEN 1 ELSE 0]
\* The job of c1 fits the block of n2, not the one of its own node.
OwnTooSmall == {<<c1, n1>>}
EachStops == [n \in Nodes |-> 1]
SenderStops == [n \in Nodes |-> IF n = n1 THEN 1 ELSE 0]

IdSymmetry == Permutations(Ids)
=============================================================================
