---------------------------- MODULE MCUMQTBindings ----------------------------
(* A small instance of UMQTBindings.                                       *)
EXTENDS UMQTBindings

CONSTANTS u1, u2, j1, j2, t1, t2

\* u1 sends to u2 and to itself, as tests/transport/umqt.cpp does.
Senders == [j \in Jobs |-> u1]
Receivers == [j \in Jobs |-> IF j = j1 THEN u2 ELSE u1]
Subjects == [j \in Jobs |-> IF j = j1 THEN t1 ELSE t2]
=============================================================================
