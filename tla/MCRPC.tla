-------------------------------- MODULE MCRPC --------------------------------
(* Small instances of RPC.                                                 *)
EXTENDS RPC, TLC

CONSTANTS c1, c2, c3, c4, t1, t2, w1, w2, i1, i2, i3, i4

\* The action of c1 sends c3 and then answers twice.
Nesting ==
  [c \in Calls |-> CASE c = c1 -> <<c3, Push, Push>> [] OTHER -> <<Push>>]
\* The action of c1 sends c3, whose action sends c2: two workers can wait.
Chain == [c \in Calls |-> CASE c = c1 -> <<c3, Push>>
                            [] c = c3 -> <<c2, Push>> [] OTHER -> <<Push>>]
TwoTopics == [c \in Calls |-> IF c = c3 THEN t2 ELSE t1]
OneTopic == [c \in Calls |-> t1]
Symmetry == Permutations(Ids) \cup Permutations(Workers)
=============================================================================
