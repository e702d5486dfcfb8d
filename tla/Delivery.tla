------------------------------- MODULE Delivery -------------------------------
(***************************************************************************)
(* What UMQT promises about a call of send(), with no word of queries,     *)
(* answers, confirmations, maps or timers: the servers of the topic are    *)
(* asked, one of them is chosen, the job goes to that one and to no other, *)
(* and a reliable call returns only after it got there. A reliable job may *)
(* be handled again and again, an unreliable one as often as the network   *)
(* delivers it.                                                            *)
(***************************************************************************)
EXTENDS Naturals

CONSTANTS
  Calls, Nodes,
  Reliable,     \* the calls that are confirmed, and so repeated
  Duplicating,  \* TRUE: the network may deliver a datagram more than once
  HandledCap    \* bound: where the handler counter saturates

VARIABLES
  asked,     \* per call, the servers it asks
  server,    \* per call, the one that was chosen: none or a singleton
  received,  \* <<call, node>>: the job reached the node
  handled,   \* per call and node, how often the handler got the job
  returned   \* the calls that have returned

vars == <<asked, server, received, handled, returned>>

Init ==
  /\ asked = [c \in Calls |-> {}]
  /\ server = [c \in Calls |-> {}]
  /\ received = {}
  /\ handled = [c \in Calls |-> [n \in Nodes |-> 0]]
  /\ returned = {}

Ask(c, servers) ==
  /\ asked[c] = {} /\ servers \subseteq Nodes
  /\ asked' = [asked EXCEPT ![c] = servers]
  /\ UNCHANGED <<server, received, handled, returned>>

Choose(c, n) ==
  /\ server[c] = {} /\ n \in asked[c]
  /\ server' = [server EXCEPT ![c] = {n}]
  /\ UNCHANGED <<asked, received, handled, returned>>

Arrive(c, n) ==
  /\ n \in server[c]
  /\ received' = received \cup {<<c, n>>}
  /\ UNCHANGED <<asked, server, handled, returned>>

\* An unreliable job is not repeated: without duplication it is handled once.
Handle(c, n) ==
  /\ <<c, n>> \in received /\ handled[c][n] < HandledCap
  /\ c \in Reliable \/ Duplicating \/ handled[c][n] = 0
  /\ handled' = [handled EXCEPT ![c][n] = @ + 1]
  /\ UNCHANGED <<asked, server, received, returned>>

Return(c) ==
  /\ c \notin returned
  /\ \E n \in server[c] : c \in Reliable => <<c, n>> \in received
  /\ returned' = returned \cup {c}
  /\ UNCHANGED <<asked, server, received, handled>>

Next ==
  \E c \in Calls :
    \/ \E servers \in SUBSET Nodes : Ask(c, servers)
    \/ \E n \in Nodes : Choose(c, n) \/ Arrive(c, n) \/ Handle(c, n)
    \/ Return(c)

Spec == Init /\ [][Next]_vars
=============================================================================
