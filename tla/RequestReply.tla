----------------------------- MODULE RequestReply -----------------------------
(***************************************************************************)
(* What the RPC layer promises about a call of send(), with no word of     *)
(* ids, channels, consumers, brokers or workers: its request is served at  *)
(* most once; the action pushes, and makes calls of its own, in the order  *)
(* of its program, and waits for each of these calls; send() returns only  *)
(* after the action of its own request has pushed. That it returns at all  *)
(* is not promised.                                                        *)
(***************************************************************************)
EXTENDS Naturals, Sequences

CONSTANTS
  Calls,
  Program,  \* what the action does with the request of each call: a sequence
            \* of Push and of calls it sends and waits for
  Push

Nested == UNION {{Program[c][k] : k \in 1 .. Len(Program[c])} : c \in Calls} \ {Push}

VARIABLES
  sent,      \* the calls that were sent
  returned,  \* the calls that have returned
  begun,     \* the calls whose action has begun
  over,      \* the calls whose action is over
  pushed     \* the calls whose action has pushed

vars == <<sent, returned, begun, over, pushed>>

Init == sent = {} /\ returned = {} /\ begun = {} /\ over = {} /\ pushed = {}

\* The action of call c runs, and the calls before its step k have returned.
Reached(c, k) ==
  /\ c \in begun \ over
  /\ \A j \in 1 .. k - 1 : Program[c][j] # Push => Program[c][j] \in returned

\* An action is at a step that makes call d, or nothing but the application is
\* to make it.
Made(d) ==
  d \in Nested =>
    \E c \in Calls : \E k \in 1 .. Len(Program[c]) :
      Program[c][k] = d /\ Reached(c, k)

Send(c) ==
  /\ c \notin sent /\ Made(c)
  /\ sent' = sent \cup {c}
  /\ UNCHANGED <<returned, begun, over, pushed>>

Serve(c) ==
  /\ c \in sent \ begun
  /\ begun' = begun \cup {c}
  /\ UNCHANGED <<sent, returned, over, pushed>>

Respond(c) ==
  /\ \E k \in 1 .. Len(Program[c]) : Program[c][k] = Push /\ Reached(c, k)
  /\ pushed' = pushed \cup {c}
  /\ UNCHANGED <<sent, returned, begun, over>>

Finish(c) ==
  /\ Reached(c, Len(Program[c]) + 1)
  /\ over' = over \cup {c}
  /\ UNCHANGED <<sent, returned, begun, pushed>>

Return(c) ==
  /\ c \in pushed \ returned /\ Made(c)
  /\ returned' = returned \cup {c}
  /\ UNCHANGED <<sent, begun, over, pushed>>

Next ==
  \E c \in Calls : Send(c) \/ Serve(c) \/ Respond(c) \/ Finish(c) \/ Return(c)

Spec == Init /\ [][Next]_vars
=============================================================================
