----------------------------- MODULE UMQT_proofs -----------------------------
(***************************************************************************)
(* Theorems about UMQT, for every set of nodes, topics, calls and ids: its *)
(* types; that a job goes to one server; that a reliable send() that       *)
(* returned has delivered.                                                 *)
(***************************************************************************)
EXTENDS UMQT, TLAPS

\* Every datagram the acceptor builds out of another one is well formed.
LEMMA AnswerType ==
  ASSUME NEW m \in Message, NEW p \in Prefixes, NEW j \in Calls \cup {NoCall}
  PROVE  /\ Answer(m, p, j) \in Message
         /\ Answer(m, p, j).prefix = p
         /\ Answer(m, p, j).job = j
         /\ Answer(m, p, j).id = m.id
         /\ Answer(m, p, j).src = m.dst
         /\ Answer(m, p, j).dst = m.src
BY DEF Message, Answer

\* A query is well formed and carries no job.
LEMMA QueryType ==
  ASSUME NEW c \in Calls, request_id[c] \in Ids, NEW s \in Nodes
  PROVE  /\ Query(c, s) \in Message
         /\ Query(c, s).prefix = "i"
         /\ Query(c, s).job = NoCall
BY CallsAssumption DEF Message, Query, Prefixes

\* The network after a tick, and the servers a call may find.
LEMMA QueriesType ==
  ASSUME NetTypes, NEW c \in Calls, request_id[c] \in Ids,
         targets[c] \subseteq Nodes,
         net' = net \cup {Query(c, s) : s \in targets[c]}
  PROVE  /\ net' \subseteq Message
         /\ \A m \in net' : m.prefix = "_" => m \in net /\ m.job \in Calls
         /\ \A m \in net' : m.prefix # "i" => m \in net
<1>1. ASSUME NEW m \in net' PROVE m \in net \/ (m \in Message /\ m.prefix = "i")
  <2>1. m \in net \/ \E s \in targets[c] : m = Query(c, s)
    BY <1>1
  <2>2. \A s \in targets[c] :
          m = Query(c, s) => m \in Message /\ m.prefix = "i"
    BY QueryType
  <2> QED
    BY <2>1, <2>2
<1> QED
  BY <1>1 DEF NetTypes

\* What send() finds in topic_servers is a set of nodes.
LEMMA ServersType ==
  ASSUME ConfigTypes, NEW c \in Calls
  PROVE  topic_servers[NodeOf[c]][TopicOf[c]] \in SUBSET Nodes
BY CallsAssumption DEF ConfigTypes

\* The maps by id stay maps.
LEMMA MapTypes ==
  ASSUME NEW map \in IdMap, NEW n \in Nodes, NEW i \in Ids, NEW c \in Calls
  PROVE  /\ Insert(map, n, i, c) \in IdMap
         /\ Remove(map, n, i) \in IdMap
BY DEF IdMap, Insert, Remove

\* What a datagram that arrives is, and what the network may hold afterwards.
LEMMA ArrivesType ==
  ASSUME TypeOK, NEW m \in net, NEW p, Arrives(m, p)
  PROVE  /\ m \in Message /\ m.prefix = p
         /\ m.src \in Nodes /\ m.dst \in Nodes /\ m.id \in Ids
         /\ m.reliable \in BOOLEAN /\ m.topic \in Topics
         /\ p = "_" => m.job \in Calls
BY DEF TypeOK, NetTypes, Arrives, Message

\* The network stays well typed when answers without a job replace a datagram.
LEMMA DeliveredTypes ==
  ASSUME NetTypes, NEW m, NEW out, Delivered(m, out), tasks' = tasks,
         \A k \in out : k \in Message /\ k.prefix # "_"
  PROVE  NetTypes'
BY DEF Delivered, NetTypes

\* The network stays well typed when a datagram gets no answer.
LEMMA DeliveredNothing ==
  ASSUME NetTypes, NEW m, Delivered(m, {}), tasks' = tasks
  PROVE  NetTypes'
BY DEF Delivered, NetTypes

-----------------------------------------------------------------------------
(* Type correctness.                                                       *)

\* Each part of the type invariant depends on its own variables only.
LEMMA Frames ==
  /\ ConfigTypes /\ UNCHANGED confVars /\ UNCHANGED lifeVars => ConfigTypes'
  /\ AcceptorTypes /\ UNCHANGED accVars => AcceptorTypes'
  /\ IdMapTypes /\ UNCHANGED mapVars => IdMapTypes'
  /\ CallTypes /\ UNCHANGED callVars /\ UNCHANGED permits => CallTypes'
  /\ NetTypes /\ UNCHANGED net /\ UNCHANGED tasks => NetTypes'
  /\ HistoryTypes /\ UNCHANGED histVars => HistoryTypes'
<1>1. ConfigTypes /\ UNCHANGED confVars /\ UNCHANGED lifeVars => ConfigTypes'
  BY DEF ConfigTypes, confVars, lifeVars
<1>2. AcceptorTypes /\ UNCHANGED accVars => AcceptorTypes'
  BY DEF AcceptorTypes, accVars
<1>3. IdMapTypes /\ UNCHANGED mapVars => IdMapTypes'
  BY DEF IdMapTypes, mapVars
<1>4. CallTypes /\ UNCHANGED callVars /\ UNCHANGED permits => CallTypes'
  BY DEF CallTypes, callVars
<1>5. NetTypes /\ UNCHANGED net /\ UNCHANGED tasks => NetTypes'
  BY DEF NetTypes
<1>6. HistoryTypes /\ UNCHANGED histVars => HistoryTypes'
  BY DEF HistoryTypes, histVars
<1> QED
  BY <1>1, <1>2, <1>3, <1>4, <1>5, <1>6

\* The state before the application does anything is well typed.
LEMMA TypeInit == Init => TypeOK
BY CallsAssumption
   DEF Init, TypeOK, ConfigTypes, AcceptorTypes, IdMapTypes, CallTypes, NetTypes,
       HistoryTypes, AccStates, Busy, PCs, Numbered, IdMap, HandledCap

\* What a turn of the acceptor leaves in acc, cur and shutdown.
LEMMA NextTurnType ==
  ASSUME AcceptorTypes, NEW n \in Nodes, NextTurn(n)
  PROVE  AcceptorTypes'
BY DEF AcceptorTypes, NextTurn, AccStates, Busy

\* A message the acceptor keeps over an await point suits the state it goes to.
LEMMA ContinueType ==
  ASSUME AcceptorTypes, NEW n \in Nodes, NEW m \in Message,
         NEW label \in Busy, Continue(n, label, m),
         label = "v_job" => m.dst = n,
         label \in {"v_sent", "handler"} => m.job \in Calls
  PROVE  AcceptorTypes'
BY DEF AcceptorTypes, Continue, AccStates, Busy

\* add_server() and on() preserve the types.
LEMMA TypeConfig ==
  ASSUME TypeOK, NEW n \in Nodes, NEW t \in Topics, NEW s \in Nodes,
         AddServer(n, t, s) \/ On(n, t)
  PROVE  TypeOK'
<1> USE DEF TypeOK
<1>1. CASE AddServer(n, t, s)
  <2>1. ConfigTypes'
    BY <1>1 DEF AddServer, ConfigTypes, lifeVars
  <2> QED
    BY <1>1, <2>1, Frames DEF AddServer
<1>2. CASE On(n, t)
  <2>1. ConfigTypes'
    BY <1>2 DEF On, ConfigTypes, lifeVars
  <2> QED
    BY <1>2, <2>1, Frames DEF On
<1> QED
  BY <1>1, <1>2

\* Every step of send() preserves the types.
LEMMA TypeSend ==
  ASSUME TypeOK, NEW c \in Calls,
         SendLookup(c) \/ SendTick(c) \/ SendStep(c)
  PROVE  TypeOK'
<1> USE DEF TypeOK
<1>1. CASE SendLookup(c)
  <2>1. topic_servers[NodeOf[c]][TopicOf[c]] \in SUBSET Nodes
    BY ServersType
  <2>2. CallTypes'
    BY <1>1, <2>1 DEF SendLookup, CallTypes, At, Goto, PCs, Numbered
  <2> QED
    BY <1>1, <2>2, Frames DEF SendLookup
<1>2. CASE SendTick(c)
  <2>1. request_id[c] \in Ids /\ targets[c] \subseteq Nodes
    BY <1>2 DEF SendTick, CallTypes, At, Numbered
  <2>2. NetTypes'
    BY <1>2, <2>1, QueriesType DEF SendTick, NetTypes
  <2> QED
    BY <1>2, <2>2, Frames DEF SendTick
<1>3. CASE SendSocket(c)
  <2>1. CallTypes'
    BY <1>3, CallsAssumption DEF SendSocket, CallTypes, At, Goto, PCs, Numbered, callVars
  <2> QED
    BY <1>3, <2>1, Frames DEF SendSocket
<1>4. CASE SendExit(c)
  <2>1. ConfigTypes'
    BY <1>4, CallsAssumption DEF SendExit, ConfigTypes, confVars
  <2> QED
    BY <1>4, <2>1, Frames DEF SendExit
<1>5. CASE SendInsertJob(c)
  <2>1. PICK i \in Ids : /\ request_id' = [request_id EXCEPT ![c] = i]
                         /\ jobs' = Insert(jobs, NodeOf[c], i, c)
    BY <1>5 DEF SendInsertJob, RequestIds
  <2>2. CallTypes'
    BY <1>5, <2>1 DEF SendInsertJob, CallTypes, At, Goto, PCs, Numbered
  <2>3. NodeOf[c] \in Nodes
    BY CallsAssumption
  <2>4. IdMapTypes'
    BY <1>5, <2>1, <2>3, MapTypes DEF SendInsertJob, IdMapTypes
  <2> QED
    BY <1>5, <2>2, <2>4, Frames DEF SendInsertJob
<1>6. CASE SendInsertDiscovery(c)
  <2>1. CallTypes'
    BY <1>6 DEF SendInsertDiscovery, CallTypes, At, Goto, PCs, Numbered, AfterInsertDiscovery
  <2>2. NodeOf[c] \in Nodes /\ request_id[c] \in Ids
    BY <1>6, CallsAssumption DEF SendInsertDiscovery, CallTypes, At, Numbered
  <2>3. IdMapTypes'
    BY <1>6, <2>2, MapTypes DEF SendInsertDiscovery, IdMapTypes
  <2> QED
    BY <1>6, <2>1, <2>3, Frames DEF SendInsertDiscovery
<1>7. CASE SendInsertSent(c)
  <2>1. CallTypes'
    BY <1>7 DEF SendInsertSent, CallTypes, At, Goto, PCs, Numbered, AfterInsertDiscovery
  <2>2. NodeOf[c] \in Nodes /\ request_id[c] \in Ids
    BY <1>7, CallsAssumption DEF SendInsertSent, CallTypes, At, Numbered
  <2>3. IdMapTypes'
    BY <1>7, <2>2, MapTypes DEF SendInsertSent, IdMapTypes
  <2> QED
    BY <1>7, <2>1, <2>3, Frames DEF SendInsertSent
<1>8. CASE SendInsertFinish(c)
  <2>1. CallTypes'
    BY <1>8 DEF SendInsertFinish, CallTypes, At, Goto, PCs, Numbered, AfterInsertDiscovery
  <2>2. NodeOf[c] \in Nodes /\ request_id[c] \in Ids
    BY <1>8, CallsAssumption DEF SendInsertFinish, CallTypes, At, Numbered
  <2>3. IdMapTypes'
    BY <1>8, <2>2, MapTypes DEF SendInsertFinish, IdMapTypes
  <2> QED
    BY <1>8, <2>1, <2>3, Frames DEF SendInsertFinish
<1>9. CASE SendDiscovered(c)
  <2>1. CallTypes'
    BY <1>9 DEF SendDiscovered, AfterDiscovery, CallTypes, At, Goto, PCs, Numbered
  <2> QED
    BY <1>9, <2>1, Frames DEF SendDiscovered
<1>10. CASE SendFinished(c)
  <2>1. CallTypes'
    BY <1>10 DEF SendFinished, CallTypes, At, Goto, PCs, Numbered
  <2> QED
    BY <1>10, <2>1, Frames DEF SendFinished
<1> QED
  BY <1>1, <1>2, <1>3, <1>4, <1>5, <1>6, <1>7, <1>8, <1>9, <1>10 DEF SendStep

\* start(), stop() and the end of the select! loop preserve the types.
LEMMA TypeStart ==
  ASSUME TypeOK, NEW n \in Nodes,
         StartStep(n) \/ Stop(n) \/ Break(n)
  PROVE  TypeOK'
<1> USE DEF TypeOK
<1>1. CASE StartBind(n)
  <2>1. AcceptorTypes'
    BY <1>1 DEF StartBind, AcceptorTypes, AccStates, Busy
  <2> QED
    BY <1>1, <2>1, Frames DEF StartBind
<1>2. CASE StartPublish(n)
  <2>1. AcceptorTypes'
    BY <1>2, NextTurnType DEF StartPublish
  <2>2. ConfigTypes'
    BY <1>2 DEF StartPublish, ConfigTypes, confVars
  <2> QED
    BY <1>2, <2>1, <2>2, Frames DEF StartPublish
<1>3. CASE Close(n)
  <2>1. AcceptorTypes'
    BY <1>3 DEF Close, AcceptorTypes, AccStates, Busy
  <2>2. ConfigTypes'
    BY <1>3 DEF Close, ConfigTypes, confVars
  <2> QED
    BY <1>3, <2>1, <2>2, Frames DEF Close
<1>4. CASE Stop(n)
  <2>1. AcceptorTypes'
    BY <1>4 DEF Stop, AcceptorTypes, AccStates, Busy, Woken
  <2>2. ConfigTypes'
    BY <1>4 DEF Stop, ConfigTypes, confVars
  <2> QED
    BY <1>4, <2>1, <2>2, Frames DEF Stop
<1>5. CASE Break(n)
  <2>1. AcceptorTypes'
    BY <1>5 DEF Break, AcceptorTypes, AccStates, Busy
  <2> QED
    BY <1>5, <2>1, Frames DEF Break
<1> QED
  BY <1>1, <1>2, <1>3, <1>4, <1>5 DEF StartStep

\* Whatever datagram the acceptor reads, the types are preserved.
LEMMA TypeReceive ==
  ASSUME TypeOK, NEW m \in net,
         Receive(m)
  PROVE  TypeOK'
<1> USE DEF TypeOK
<1>1. CASE RecvI(m)
  <2>1. m \in Message /\ m.dst \in Nodes
    BY <1>1, ArrivesType DEF RecvI
  <2>2. /\ Answer(m, "v", NoCall) \in Message
        /\ Answer(m, "v", NoCall).prefix = "v"
    BY <2>1 DEF Answer, Message, Prefixes
  <2>3. NetTypes'
    BY <1>1, <2>2, DeliveredTypes DEF RecvI
  <2>4. AcceptorTypes'
    BY <1>1, <2>1, NextTurnType DEF RecvI
  <2> QED
    BY <1>1, <2>3, <2>4, Frames DEF RecvI
<1>2. CASE RecvV(m)
  <2> DEFINE n == m.dst
             c == notify_discovery[n][m.id]
  <2>1. m \in Message /\ n \in Nodes /\ m.id \in Ids
    BY <1>2, ArrivesType DEF RecvV
  <2>2. NetTypes'
    BY <1>2, DeliveredNothing DEF RecvV
  <2>3. CASE c = NoCall
    BY <1>2, <2>1, <2>2, <2>3, NextTurnType, Frames DEF RecvV, mapVars, IdMapTypes, histVars
  <2>4. CASE c # NoCall
    <3>1. c \in Calls
      BY <2>1, <2>4 DEF IdMapTypes, IdMap
    <3>2. IdMapTypes'
      BY <1>2, <2>1, <2>4, <3>1, MapTypes DEF RecvV, IdMapTypes
    <3>3. AcceptorTypes'
      BY <1>2, <2>1, <2>4, ContinueType DEF RecvV, Busy
    <3>4. CallTypes'
      BY <1>2, <2>4, <3>1 DEF RecvV, Wake, CallTypes, callVars
    <3>5. {m.src} \in SUBSET Nodes
      BY <2>1 DEF Message
    <3>6. HistoryTypes'
      BY <1>2, <2>4, <3>1, <3>5 DEF RecvV, HistoryTypes
    <3> QED
      BY <1>2, <2>2, <3>2, <3>3, <3>4, <3>6, Frames DEF RecvV
  <2> QED
    BY <1>2, <2>3, <2>4, Frames DEF RecvV
<1>3. CASE RecvX(m)
  <2> DEFINE n == m.dst
             c == notify_finish[n][m.id]
  <2>1. m \in Message /\ n \in Nodes /\ m.id \in Ids
    BY <1>3, ArrivesType DEF RecvX
  <2>2. NetTypes'
    BY <1>3, DeliveredNothing DEF RecvX
  <2>3. CASE c = NoCall
    BY <1>3, <2>1, <2>2, <2>3, NextTurnType, Frames DEF RecvX, mapVars, IdMapTypes
  <2>4. CASE c # NoCall
    <3>1. c \in Calls
      BY <2>1, <2>4 DEF IdMapTypes, IdMap
    <3>2. IdMapTypes'
      BY <1>3, <2>1, <2>4, <3>1, MapTypes DEF RecvX, IdMapTypes
    <3>3. AcceptorTypes'
      BY <1>3, <2>1, <2>4, ContinueType DEF RecvX, Busy
    <3>4. CallTypes'
      BY <1>3, <2>4, <3>1 DEF RecvX, Wake, CallTypes, callVars
    <3> QED
      BY <1>3, <2>2, <3>2, <3>3, <3>4, Frames DEF RecvX
  <2> QED
    BY <1>3, <2>3, <2>4, Frames DEF RecvX
<1>4. CASE RecvData(m)
  <2>1. m \in Message /\ m.dst \in Nodes /\ m.job \in Calls
    BY <1>4, ArrivesType DEF RecvData
  <2>2. /\ Answer(m, "x", NoCall) \in Message
        /\ Answer(m, "x", NoCall).prefix = "x"
    BY <2>1 DEF Answer, Message, Prefixes
  <2>3. NetTypes'
    BY <1>4, <2>2, DeliveredTypes, DeliveredNothing DEF RecvData, Confirmation
  <2>4. AcceptorTypes'
    BY <1>4, <2>1, ContinueType DEF RecvData, Busy
  <2>5. HistoryTypes'
    <3>1. <<m.job, m.dst>> \in Calls \X Nodes
      BY <2>1
    <3> QED
      BY <1>4, <3>1 DEF RecvData, HistoryTypes
  <2> QED
    BY <1>4, <2>3, <2>4, <2>5, Frames DEF RecvData
<1>5. CASE RecvTruncated(m)
  <2>1. m.dst \in Nodes
    BY <1>5, ArrivesType DEF RecvTruncated
  <2>2. NetTypes'
    BY <1>5, DeliveredNothing DEF RecvTruncated
  <2>3. AcceptorTypes'
    BY <1>5, <2>1, NextTurnType DEF RecvTruncated
  <2> QED
    BY <1>5, <2>2, <2>3, Frames DEF RecvTruncated
<1> QED
  BY <1>1, <1>2, <1>3, <1>4, <1>5 DEF Receive

\* The later steps of an iteration of the acceptor preserve the types.
LEMMA TypeAcceptor ==
  ASSUME TypeOK, NEW n \in Nodes,
         AcceptorStep(n)
  PROVE  TypeOK'
<1> USE DEF TypeOK
<1>1. CASE VJob(n)
  <2> DEFINE m == cur[n]
             c == jobs[n][m.id]
  <2>1. m \in Message /\ m.id \in Ids /\ m.dst = n
    BY <1>1 DEF VJob, AcceptorTypes, Busy, Message
  <2>2. IdMapTypes'
    BY <1>1, <2>1, MapTypes DEF VJob, IdMapTypes, IdMap, Remove
  <2>3. CASE c = NoCall
    BY <1>1, <2>2, <2>3, NextTurnType, Frames DEF VJob
  <2>4. CASE c # NoCall
    <3>1. c \in Calls
      BY <2>1, <2>4 DEF IdMapTypes, IdMap
    <3>2. /\ DataFor(m, c) \in Message /\ DataFor(m, c).job = c
          /\ DataFor(m, c).prefix = "_"
      BY <2>1, <3>1 DEF DataFor, Answer, Message, Prefixes
    <3>3. NetTypes'
      BY <1>1, <2>4, <3>1, <3>2 DEF VJob, NetTypes
    <3>4. AcceptorTypes'
      BY <1>1, <2>4, <3>1, <3>2, NextTurnType, ContinueType DEF VJob, Busy
    <3> QED
      BY <1>1, <2>2, <3>3, <3>4, Frames DEF VJob
  <2> QED
    BY <1>1, <2>3, <2>4, Frames DEF VJob
<1>2. CASE VSent(n)
  <2>1. cur[n] \in Message /\ cur[n].id \in Ids /\ cur[n].job \in Calls
    BY <1>2 DEF VSent, AcceptorTypes, Busy, Message
  <2>2. notify_sent[n][cur[n].id] \in Calls \cup {NoCall}
    BY <2>1 DEF IdMapTypes, IdMap
  <2>3. NetTypes'
    <3> DEFINE t == [notify |-> notify_sent[n][cur[n].id], buff |-> cur[n]]
    <3>1. notify_sent[n][cur[n].id] # NoCall => t \in Task /\ t.buff.job \in Calls
      BY <2>1, <2>2 DEF Task
    <3> HIDE DEF t
    <3>2. \A u \in tasks' : u \in tasks \/ (u = t /\ t \in Task /\ t.buff.job \in Calls)
      BY <1>2, <3>1 DEF VSent, t
    <3> QED
      BY <1>2, <3>2 DEF VSent, NetTypes
  <2>4. AcceptorTypes'
    BY <1>2, NextTurnType DEF VSent
  <2> QED
    BY <1>2, <2>3, <2>4, Frames DEF VSent
<1>3. CASE XSent(n)
  <2>1. cur[n] \in Message /\ cur[n].id \in Ids
    BY <1>3 DEF XSent, AcceptorTypes, Busy, Message
  <2>2. notify_sent[n][cur[n].id] \in Calls \cup {NoCall}
    BY <2>1 DEF IdMapTypes, IdMap
  <2>3. IdMapTypes'
    BY <1>3, <2>1 DEF XSent, IdMapTypes, IdMap, Remove
  <2>4. AcceptorTypes'
    BY <1>3, NextTurnType DEF XSent
  <2>5. CallTypes'
    BY <1>3, <2>2 DEF XSent, Wake, CallTypes, callVars
  <2> QED
    BY <1>3, <2>3, <2>4, <2>5, Frames DEF XSent
<1>4. CASE Handle(n)
  <2>1. cur[n].job \in Calls
    BY <1>4 DEF Handle, AcceptorTypes
  <2>2. HistoryTypes'
    <3>1. handled' \in [Calls -> [Nodes -> 0 .. HandledCap]]
      BY <1>4, <2>1 DEF Handle, HistoryTypes, HandledCap
    <3> QED
      BY <1>4, <3>1 DEF Handle, HistoryTypes
  <2>3. AcceptorTypes'
    BY <1>4, NextTurnType DEF Handle
  <2> QED
    BY <1>4, <2>2, <2>3, Frames DEF Handle
<1> QED
  BY <1>1, <1>2, <1>3, <1>4 DEF AcceptorStep

\* A retransmission task preserves the types.
LEMMA TypeTask ==
  ASSUME TypeOK, NEW t \in tasks,
         TaskTick(t) \/ TaskEnd(t)
  PROVE  TypeOK'
<1> USE DEF TypeOK
<1>1. CASE TaskTick(t)
  <2>1. NetTypes'
    BY <1>1 DEF TaskTick, NetTypes, Task
  <2> QED
    BY <1>1, <2>1, Frames DEF TaskTick
<1>2. CASE TaskEnd(t)
  <2>1. NetTypes'
    BY <1>2 DEF TaskEnd, NetTypes
  <2>2. CallTypes'
    BY <1>2 DEF TaskEnd, CallTypes, callVars
  <2> QED
    BY <1>2, <2>1, <2>2, Frames DEF TaskEnd
<1> QED
  BY <1>1, <1>2

\* TypeOK is inductive.
LEMMA TypeNext == TypeOK /\ [Next]_vars => TypeOK'
<1> SUFFICES ASSUME TypeOK, [Next]_vars PROVE TypeOK'
  OBVIOUS
<1>1. ASSUME NEW e \in ServerTable, AddServer(e[1], e[2], e[3]) PROVE TypeOK'
  BY <1>1, TypeConfig, TablesAssumption
<1>2. ASSUME NEW e \in HandlerTable, On(e[1], e[2]) PROVE TypeOK'
  BY <1>2, TypeConfig, TablesAssumption
<1>3. ASSUME NEW c \in Calls, SendLookup(c) \/ SendTick(c) \/ SendStep(c)
      PROVE TypeOK'
  BY <1>3, TypeSend
<1>4. ASSUME NEW n \in Nodes,
             StartStep(n) \/ Stop(n) \/ Break(n) \/ AcceptorStep(n)
      PROVE TypeOK'
  BY <1>4, TypeStart, TypeAcceptor
<1>5. ASSUME NEW m \in net, Receive(m) PROVE TypeOK'
  BY <1>5, TypeReceive
<1>6. ASSUME NEW m \in net, Lose(m) PROVE TypeOK'
  <2>1. NetTypes'
    BY <1>6 DEF Lose, TypeOK, NetTypes
  <2> QED
    BY <1>6, <2>1, Frames DEF Lose, TypeOK
<1>7. ASSUME NEW t \in tasks, TaskTick(t) \/ TaskEnd(t) PROVE TypeOK'
  BY <1>7, TypeTask
<1>8. CASE UNCHANGED vars
  BY <1>8, Frames DEF vars, TypeOK
<1> QED
  BY <1>1, <1>2, <1>3, <1>4, <1>5, <1>6, <1>7, <1>8 DEF Next

\* The type invariant holds for every set of nodes, calls and ids: in
\* particular the acceptor never works on a message it does not have, and no
\* data message leaves without the bytes of a job.
THEOREM TypeCorrect == Spec => []TypeOK
BY TypeInit, TypeNext, PTL DEF Spec

-----------------------------------------------------------------------------
(* A job goes to one server, and a reliable send() that returned has       *)
(* delivered: the inductive invariants and their proofs.                   *)

\* m is a copy of a job on its way to a server: a datagram, what a task keeps
\* sending, or what the acceptor is about to give to a new task.
IsCopy(m) ==
  \/ m \in net /\ m.prefix = "_"
  \/ \E t \in tasks : t.buff = m
  \/ \E n \in Nodes : acc[n] = "v_sent" /\ cur[n] = m

\* The acceptor has taken the job of c out of jobs.
JobGone(c) ==
  request_id[c] \in Ids /\ jobs[NodeOf[c]][request_id[c]] # c

JobsOwned ==
  \A n \in Nodes, i \in Ids :
    jobs[n][i] \in Calls => /\ NodeOf[jobs[n][i]] = n
                            /\ request_id[jobs[n][i]] = i

CopiesOwned ==
  \A m \in Message :
    IsCopy(m) => /\ m.prefix = "_" /\ m.job \in Calls
                 /\ m.src = NodeOf[m.job] /\ m.id = request_id[m.job]
                 /\ JobGone(m.job)

CopiesAgree ==
  \A m, k \in Message :
    IsCopy(m) /\ IsCopy(k) /\ m.job = k.job => m.dst = k.dst

ReceivedAgree ==
  \A c \in Calls, n \in Nodes :
    <<c, n>> \in received =>
      JobGone(c) /\ \A m \in Message : IsCopy(m) /\ m.job = c => m.dst = n

OneServerInv ==
  TypeOK /\ JobsOwned /\ CopiesOwned /\ CopiesAgree /\ ReceivedAgree /\ OneServer

-----------------------------------------------------------------------------
(* Only VJob makes a copy; every other step moves or drops copies.         *)

NoNewCopy == \A m \in Message : IsCopy(m)' => IsCopy(m)

\* A step that touches neither network, tasks nor acceptors makes no copy.
LEMMA CopiesFrame ==
  ASSUME UNCHANGED <<net, tasks, acc, cur>>
  PROVE  NoNewCopy
BY DEF NoNewCopy, IsCopy

\* The network gains no data message, no task starts and no acceptor enters
\* v_sent.
LEMMA CopiesShrink ==
  ASSUME \A m \in net' : m.prefix = "_" => m \in net,
         tasks' \subseteq tasks,
         \A n \in Nodes : acc'[n] = "v_sent" => acc[n] = "v_sent" /\ cur'[n] = cur[n]
  PROVE  NoNewCopy
BY DEF NoNewCopy, IsCopy

\* send() sends queries only: the copies of its job are not its own work.
LEMMA CopiesSend ==
  ASSUME TypeOK, NEW c \in Calls,
         SendLookup(c) \/ SendTick(c) \/ SendStep(c)
  PROVE  NoNewCopy
<1>1. CASE SendTick(c)
  <2>1. request_id[c] \in Ids /\ targets[c] \subseteq Nodes
    BY <1>1 DEF SendTick, TypeOK, CallTypes, At, Numbered
  <2>2. \A m \in net' : m.prefix = "_" => m \in net
    BY <1>1, <2>1, QueriesType DEF SendTick, TypeOK
  <2> QED
    BY <1>1, <2>2, CopiesShrink DEF SendTick, accVars
<1>2. CASE SendLookup(c) \/ SendStep(c)
  <2>1. UNCHANGED <<net, tasks, acc, cur>>
    BY <1>2
       DEF SendLookup, SendStep, SendSocket, SendExit, SendInsertJob,
           SendInsertDiscovery, SendInsertSent, SendInsertFinish,
           SendDiscovered, SendFinished, accVars
  <2> QED
    BY <2>1, CopiesFrame
<1> QED
  BY <1>1, <1>2

\* Starting, stopping, confirming and handling make no copy.
LEMMA CopiesStart ==
  ASSUME TypeOK, NEW n \in Nodes,
         StartStep(n) \/ Stop(n) \/ Break(n) \/ XSent(n) \/ Handle(n)
  PROVE  NoNewCopy
<1>1. net' = net /\ tasks' = tasks
  BY DEF StartStep, StartBind, StartPublish, Close, Stop, Break, XSent, Handle
<1>2. \/ UNCHANGED <<acc, cur>>
      \/ \E label \in AccStates \ {"v_sent"} :
           /\ acc' = [acc EXCEPT ![n] = label]
           /\ UNCHANGED cur \/ \E m : cur' = [cur EXCEPT ![n] = m]
  BY DEF StartStep, StartBind, StartPublish, Close, Stop, Break, XSent, Handle,
         NextTurn, AccStates
<1>3. \A k \in Nodes : acc'[k] = "v_sent" => acc[k] = "v_sent" /\ cur'[k] = cur[k]
  BY <1>2 DEF TypeOK, AcceptorTypes
<1> QED
  BY <1>1, <1>3, CopiesShrink

\* Reading a datagram makes no copy: an answer carries no job.
LEMMA CopiesReceive ==
  ASSUME TypeOK, NEW m \in net, Receive(m)
  PROVE  NoNewCopy
<1>1. tasks' = tasks
  BY DEF Receive, RecvI, RecvV, RecvX, RecvData, RecvTruncated
<1>2. \A k \in net' : k.prefix = "_" => k \in net
  <2>1. \/ Delivered(m, {}) \/ Delivered(m, {Answer(m, "v", NoCall)})
        \/ Delivered(m, {Answer(m, "x", NoCall)})
    BY DEF Receive, RecvI, RecvV, RecvX, RecvData, RecvTruncated, Confirmation
  <2>2. /\ Answer(m, "v", NoCall).prefix = "v"
        /\ Answer(m, "x", NoCall).prefix = "x"
    BY DEF Answer
  <2> QED
    BY <2>1, <2>2 DEF Delivered
<1>3. \E label \in AccStates \ {"v_sent"} :
        /\ acc' = [acc EXCEPT ![m.dst] = label]
        /\ \E k : cur' = [cur EXCEPT ![m.dst] = k]
  BY DEF Receive, RecvI, RecvV, RecvX, RecvData, RecvTruncated, NextTurn,
         Continue, AccStates
<1>4. \A k \in Nodes : acc'[k] = "v_sent" => acc[k] = "v_sent" /\ cur'[k] = cur[k]
  BY <1>3 DEF TypeOK, AcceptorTypes
<1> QED
  BY <1>1, <1>2, <1>4, CopiesShrink

\* The task the acceptor spawns has the copy the acceptor held.
LEMMA CopiesVSent ==
  ASSUME TypeOK, NEW n \in Nodes, VSent(n)
  PROVE  NoNewCopy
<1>1. \A t \in tasks' : t \in tasks \/ t.buff = cur[n]
  BY DEF VSent
<1>2. net' = net /\ acc[n] = "v_sent"
  BY DEF VSent
<1>3. \A k \in Nodes : acc'[k] = "v_sent" => acc[k] = "v_sent" /\ cur'[k] = cur[k]
  BY DEF VSent, NextTurn, TypeOK, AcceptorTypes
<1> QED
  BY <1>1, <1>2, <1>3 DEF NoNewCopy, IsCopy

\* A retransmission is a copy of what the task already held.
LEMMA CopiesTask ==
  ASSUME NEW t \in tasks, TaskTick(t) \/ TaskEnd(t)
  PROVE  NoNewCopy
<1>1. CASE TaskTick(t)
  BY <1>1 DEF TaskTick, NoNewCopy, IsCopy, accVars
<1>2. CASE TaskEnd(t)
  BY <1>2 DEF TaskEnd, NoNewCopy, IsCopy, accVars
<1> QED
  BY <1>1, <1>2

-----------------------------------------------------------------------------
(* The steps that take part: the insertion of a job, VJob and RecvData.    *)

\* Nothing is stored, copied or received at first.
LEMMA InvInit == Init => OneServerInv
<1> SUFFICES ASSUME Init PROVE OneServerInv
  OBVIOUS
<1>1. TypeOK
  BY TypeInit
<1>2. \A m \in Message : ~ IsCopy(m)
  BY DEF Init, IsCopy
<1>3. JobsOwned
  BY CallsAssumption DEF Init, JobsOwned
<1>4. received = {}
  BY DEF Init
<1> QED
  BY <1>1, <1>2, <1>3, <1>4
     DEF OneServerInv, CopiesOwned, CopiesAgree, ReceivedAgree, OneServer

\* A step that makes no copy, reaches no server and leaves jobs alone.
LEMMA InvFrame ==
  ASSUME OneServerInv, TypeOK', NoNewCopy, UNCHANGED <<jobs, request_id, received>>
  PROVE  OneServerInv'
<1>1. JobsOwned'
  BY DEF OneServerInv, JobsOwned
<1>2. \A c \in Calls : JobGone(c) => JobGone(c)'
  BY DEF JobGone
<1>3. CopiesOwned'
  BY <1>2 DEF OneServerInv, CopiesOwned, NoNewCopy
<1>4. CopiesAgree'
  BY DEF OneServerInv, CopiesAgree, NoNewCopy
<1>5. ReceivedAgree'
  BY <1>2 DEF OneServerInv, ReceivedAgree, NoNewCopy
<1>6. OneServer'
  BY DEF OneServerInv, OneServer
<1> QED
  BY <1>1, <1>3, <1>4, <1>5, <1>6 DEF OneServerInv

\* A new call puts its job under its own new id, maybe over that of another.
LEMMA InvInsertJob ==
  ASSUME OneServerInv, TypeOK', NEW c \in Calls, SendInsertJob(c)
  PROVE  OneServerInv'
<1>1. PICK i \in Ids : /\ request_id' = [request_id EXCEPT ![c] = i]
                       /\ jobs' = Insert(jobs, NodeOf[c], i, c)
  BY DEF SendInsertJob, RequestIds
<1>2. request_id[c] \notin Ids /\ NodeOf[c] \in Nodes
  BY CallsAssumption
     DEF OneServerInv, TypeOK, CallTypes, SendInsertJob, At, Numbered
<1>3. JobsOwned'
  BY <1>1, <1>2
     DEF OneServerInv, TypeOK, IdMapTypes, IdMap, CallTypes, JobsOwned, Insert
<1>4. ASSUME NEW d \in Calls, JobGone(d)
      PROVE  JobGone(d)' /\ request_id'[d] = request_id[d]
  <2>1. d # c /\ request_id'[d] = request_id[d] /\ NodeOf[d] \in Nodes
    BY <1>1, <1>2, <1>4, CallsAssumption
       DEF JobGone, OneServerInv, TypeOK, CallTypes
  <2> QED
    BY <1>1, <1>2, <1>4, <2>1
       DEF JobGone, Insert, OneServerInv, TypeOK, IdMapTypes, IdMap
<1>5. NoNewCopy
  BY CopiesSend DEF SendStep, OneServerInv
<1>6. CopiesOwned'
  BY <1>4, <1>5 DEF OneServerInv, CopiesOwned, NoNewCopy
<1>7. CopiesAgree'
  BY <1>5 DEF OneServerInv, CopiesAgree, NoNewCopy
<1>8. received' = received
  BY DEF SendInsertJob, histVars
<1>9. ReceivedAgree'
  BY <1>4, <1>5, <1>8 DEF OneServerInv, ReceivedAgree, NoNewCopy
<1>10. OneServer'
  BY <1>8 DEF OneServerInv, OneServer
<1> QED
  BY <1>3, <1>6, <1>7, <1>9, <1>10 DEF OneServerInv

\* A job that arrives is a copy, so it arrives where its other copies do.
LEMMA InvRecvData ==
  ASSUME OneServerInv, TypeOK', NEW m \in net, RecvData(m)
  PROVE  OneServerInv'
<1>1. m \in Message /\ IsCopy(m) /\ m.job \in Calls /\ m.dst \in Nodes
  BY ArrivesType DEF RecvData, Arrives, IsCopy, OneServerInv
<1>2. NoNewCopy
  BY CopiesReceive DEF Receive, OneServerInv
<1>3. /\ received' = received \cup {<<m.job, m.dst>>}
      /\ UNCHANGED <<jobs, request_id>>
  BY DEF RecvData, mapVars, callVars
<1>4. \A c \in Calls : JobGone(c) => JobGone(c)'
  BY <1>3 DEF JobGone
<1>5. JobsOwned' /\ CopiesOwned' /\ CopiesAgree'
  BY <1>2, <1>3, <1>4
     DEF OneServerInv, JobsOwned, CopiesOwned, CopiesAgree, NoNewCopy
<1>6. \A c \in Calls, n \in Nodes :
        <<c, n>> \in received' =>
          <<c, n>> \in received \/ (c = m.job /\ n = m.dst)
  BY <1>3
<1>7. JobGone(m.job)
  BY <1>1 DEF OneServerInv, CopiesOwned
<1>8. ReceivedAgree'
  BY <1>1, <1>2, <1>4, <1>6, <1>7
     DEF OneServerInv, ReceivedAgree, CopiesAgree, NoNewCopy
<1>9. OneServer'
  BY <1>1, <1>6 DEF OneServerInv, OneServer, ReceivedAgree
<1> QED
  BY <1>5, <1>8, <1>9 DEF OneServerInv

\* The acceptor takes the job out of jobs as it makes the first copy of it.
LEMMA InvVJob ==
  ASSUME OneServerInv, TypeOK', NEW n \in Nodes, VJob(n)
  PROVE  OneServerInv'
<1> DEFINE m == cur[n]
<1>1. m \in Message /\ m.id \in Ids /\ m.dst = n
  BY DEF VJob, OneServerInv, TypeOK, AcceptorTypes, Busy, Message
<1>2. /\ jobs' = Remove(jobs, n, m.id)
      /\ UNCHANGED <<request_id, received, tasks>>
  BY DEF VJob, callVars, histVars
<1>3. \A e \in Calls : JobGone(e) => JobGone(e)'
  BY <1>1, <1>2, CallsAssumption
     DEF JobGone, Remove, OneServerInv, TypeOK, IdMapTypes, IdMap
<1>4. JobsOwned'
  BY <1>1, <1>2, CallsAssumption
     DEF JobsOwned, Remove, OneServerInv, TypeOK, IdMapTypes, IdMap
<1>5. OneServer'
  BY <1>2 DEF OneServer, OneServerInv
<1>6. CASE jobs[n][m.id] = NoCall
  <2>1. net' = net
    BY <1>6 DEF VJob
  <2>2. \A k \in Nodes : acc'[k] = "v_sent" => acc[k] = "v_sent" /\ cur'[k] = cur[k]
    BY <1>6 DEF VJob, NextTurn, OneServerInv, TypeOK, AcceptorTypes
  <2>3. NoNewCopy
    BY <1>2, <2>1, <2>2, CopiesShrink
  <2>4. CopiesOwned' /\ CopiesAgree' /\ ReceivedAgree'
    BY <1>2, <1>3, <2>3
       DEF OneServerInv, CopiesOwned, CopiesAgree, ReceivedAgree, NoNewCopy
  <2> QED
    BY <1>4, <1>5, <2>4 DEF OneServerInv
<1>7. CASE jobs[n][m.id] # NoCall
  <2>1. PICK c \in Calls : c = jobs[n][m.id]
    BY <1>1, <1>7 DEF OneServerInv, TypeOK, IdMapTypes, IdMap
  <2>2. NodeOf[c] = n /\ request_id[c] = m.id
    BY <1>1, <2>1 DEF OneServerInv, JobsOwned
  <2>3. ~ JobGone(c)
    BY <2>1, <2>2 DEF JobGone
  <2>4. JobGone(c)'
    BY <1>1, <1>2, <2>1, <2>2, CallsAssumption
       DEF JobGone, Remove, OneServerInv, TypeOK, IdMapTypes, IdMap
  <2>5. PICK d \in Message : d = DataFor(m, c)
    BY <1>1, <2>1 DEF DataFor, Answer, Message, Prefixes
  <2>6. /\ d \in Message /\ d.prefix = "_" /\ d.job = c
        /\ d.src = n /\ d.id = m.id
    BY <1>1, <2>5 DEF DataFor, Answer
  <2>7. \A k \in Message : IsCopy(k)' => IsCopy(k) \/ k = d
    <3>1. net' \subseteq net \cup {d}
      BY <1>7, <2>1, <2>5 DEF VJob
    <3>2. \A k \in Nodes :
            acc'[k] = "v_sent" => \/ acc[k] = "v_sent" /\ cur'[k] = cur[k]
                                 \/ cur'[k] = d
      BY <1>7, <2>1, <2>5
         DEF VJob, NextTurn, Continue, OneServerInv, TypeOK, AcceptorTypes
    <3> QED
      BY <1>2, <3>1, <3>2 DEF IsCopy
  <2>8. \A k \in Message : IsCopy(k) => k.job \in Calls /\ k.job # c
    BY <2>3 DEF OneServerInv, CopiesOwned
  <2>9. \A k \in Nodes : <<c, k>> \notin received
    BY <2>1, <2>3 DEF OneServerInv, ReceivedAgree
  <2>10. CopiesOwned'
    BY <1>2, <1>3, <2>1, <2>2, <1>1, <2>4, <2>6, <2>7 DEF OneServerInv, CopiesOwned
  <2>11. CopiesAgree'
    BY <2>6, <2>7, <2>8 DEF OneServerInv, CopiesAgree
  <2>12. ReceivedAgree'
    <3>1. ASSUME NEW e \in Calls, NEW k \in Nodes, <<e, k>> \in received'
          PROVE  /\ JobGone(e)'
                 /\ \A r \in Message : IsCopy(r)' /\ r.job = e => r.dst = k
      <4>1. <<e, k>> \in received /\ e # c
        BY <1>2, <2>9, <3>1
      <4> QED
        BY <1>3, <2>6, <2>7, <4>1 DEF OneServerInv, ReceivedAgree
    <3> QED
      BY <3>1 DEF ReceivedAgree
  <2> QED
    BY <1>4, <1>5, <2>10, <2>11, <2>12 DEF OneServerInv
<1> QED
  BY <1>6, <1>7

\* OneServerInv is inductive.
LEMMA InvNext == OneServerInv /\ [Next]_vars => OneServerInv'
<1> SUFFICES ASSUME OneServerInv, [Next]_vars PROVE OneServerInv'
  OBVIOUS
<1>1. TypeOK /\ TypeOK'
  BY TypeNext DEF OneServerInv
<1>2. ASSUME NEW e \in ServerTable, AddServer(e[1], e[2], e[3])
      PROVE  OneServerInv'
  BY <1>1, <1>2, InvFrame, CopiesFrame
     DEF AddServer, accVars, mapVars, callVars, histVars
<1>3. ASSUME NEW e \in HandlerTable, On(e[1], e[2]) PROVE OneServerInv'
  BY <1>1, <1>3, InvFrame, CopiesFrame
     DEF On, accVars, mapVars, callVars, histVars
<1>4. ASSUME NEW c \in Calls, SendLookup(c) \/ SendTick(c) \/ SendStep(c)
      PROVE  OneServerInv'
  <2>1. CASE SendInsertJob(c)
    BY <1>1, <2>1, InvInsertJob
  <2>2. CASE ~ SendInsertJob(c)
    <3>1. UNCHANGED <<jobs, request_id, received>>
      BY <1>4, <2>2
         DEF SendLookup, SendTick, SendStep, SendSocket, SendExit,
             SendInsertDiscovery, SendInsertSent, SendInsertFinish,
             SendDiscovered, SendFinished, mapVars, callVars, histVars
    <3> QED
      BY <1>1, <1>4, <3>1, CopiesSend, InvFrame
  <2> QED
    BY <2>1, <2>2
<1>5. ASSUME NEW n \in Nodes,
             StartStep(n) \/ Stop(n) \/ Break(n) \/ XSent(n) \/ Handle(n)
      PROVE  OneServerInv'
  <2>1. UNCHANGED <<jobs, request_id, received>>
    BY <1>5
       DEF StartStep, StartBind, StartPublish, Close, Stop, Break, XSent,
           Handle, mapVars, callVars, histVars
  <2> QED
    BY <1>1, <1>5, <2>1, CopiesStart, InvFrame
<1>6. ASSUME NEW n \in Nodes, VJob(n) PROVE OneServerInv'
  BY <1>1, <1>6, InvVJob
<1>7. ASSUME NEW n \in Nodes, VSent(n) PROVE OneServerInv'
  BY <1>1, <1>7, CopiesVSent, InvFrame
     DEF VSent, mapVars, callVars, histVars
<1>8. ASSUME NEW m \in net, Receive(m) PROVE OneServerInv'
  <2>1. CASE RecvData(m)
    BY <1>1, <2>1, InvRecvData
  <2>2. CASE ~ RecvData(m)
    <3>1. UNCHANGED <<jobs, request_id, received>>
      BY <1>8, <2>2
         DEF Receive, RecvI, RecvV, RecvX, RecvTruncated, mapVars, callVars,
             histVars
    <3> QED
      BY <1>1, <1>8, <3>1, CopiesReceive, InvFrame
  <2> QED
    BY <2>1, <2>2
<1>9. ASSUME NEW m \in net, Lose(m) PROVE OneServerInv'
  <2>1. NoNewCopy
    BY <1>9 DEF Lose, accVars, NoNewCopy, IsCopy
  <2> QED
    BY <1>1, <1>9, <2>1, InvFrame DEF Lose, mapVars, callVars, histVars
<1>10. ASSUME NEW t \in tasks, TaskTick(t) \/ TaskEnd(t) PROVE OneServerInv'
  BY <1>1, <1>10, CopiesTask, InvFrame
     DEF TaskTick, TaskEnd, mapVars, callVars, histVars
<1>11. CASE UNCHANGED vars
  BY <1>1, <1>11, CopiesFrame, InvFrame
     DEF vars, accVars, mapVars, callVars, histVars
<1> QED
  BY <1>2, <1>3, <1>4, <1>5, <1>6, <1>7, <1>8, <1>9, <1>10, <1>11
     DEF Next, AcceptorStep

\* The strengthening of OneServer holds throughout.
LEMMA OneServerInvariant == Spec => []OneServerInv
BY InvInit, InvNext, PTL DEF Spec

\* However many servers answer a query, in whatever order, again and again, and
\* even when ids collide, the job of a call reaches one server only.
THEOREM JobReachesOneServer == Spec => []OneServer
<1>1. OneServerInv => OneServer
  BY DEF OneServerInv
<1> QED
  BY <1>1, OneServerInvariant, PTL

-----------------------------------------------------------------------------
(* A reliable send() returns only after its job was received: an "x" is a  *)
(* confirmation of the one call that has its id, which needs ids that one  *)
(* node never repeats.                                                     *)

IdsDistinct ==
  \A c, d \in Calls :
    NodeOf[c] = NodeOf[d] /\ request_id[c] = request_id[d]
      /\ request_id[c] \in Ids => c = d

FinishOwned ==
  \A n \in Nodes, i \in Ids :
    notify_finish[n][i] \in Calls => /\ NodeOf[notify_finish[n][i]] = n
                                     /\ request_id[notify_finish[n][i]] = i

Reached(c) == \E n \in Nodes : <<c, n>> \in received

Confirmed ==
  \A m \in net :
    m.prefix = "x" => \E c \in Calls : /\ NodeOf[c] = m.dst
                                       /\ request_id[c] = m.id /\ Reached(c)

FinishConfirmed == \A c \in Calls : <<"finish", c>> \in permits => Reached(c)

ReturnedConfirmed == \A c \in Reliable : pc[c] = "returned" => Reached(c)

ConfirmInv ==
  IdsDistinct /\ FinishOwned /\ Confirmed /\ FinishConfirmed /\ ReturnedConfirmed

\* No confirmation is under way and no call has returned at first.
LEMMA ConfirmInit == Init => ConfirmInv
BY CallsAssumption
   DEF Init, ConfirmInv, IdsDistinct, FinishOwned, Confirmed, FinishConfirmed,
       ReturnedConfirmed

\* A step that hands out no id, confirms nothing, and ends no call.
LEMMA ConfirmFrame ==
  ASSUME ConfirmInv, UNCHANGED <<request_id, notify_finish>>,
         received \subseteq received',
         \A m \in net' : m.prefix = "x" => m \in net,
         \A c \in Calls : <<"finish", c>> \in permits' => <<"finish", c>> \in permits,
         \A c \in Reliable : pc'[c] = "returned" => pc[c] = "returned"
  PROVE  ConfirmInv'
<1>1. \A c \in Calls : Reached(c) => Reached(c)'
  BY DEF Reached
<1>2. IdsDistinct' /\ FinishOwned'
  BY DEF ConfirmInv, IdsDistinct, FinishOwned
<1>3. Confirmed'
  BY <1>1 DEF ConfirmInv, Confirmed
<1>4. FinishConfirmed' /\ ReturnedConfirmed'
  BY <1>1, CallsAssumption DEF ConfirmInv, FinishConfirmed, ReturnedConfirmed
<1> QED
  BY <1>2, <1>3, <1>4 DEF ConfirmInv

\* A new id is that of no other call of the node.
LEMMA ConfirmInsertJob ==
  ASSUME DistinctIds, TypeOK, ConfirmInv, NEW c \in Calls, SendInsertJob(c)
  PROVE  ConfirmInv'
<1>1. PICK i \in Ids :
        /\ request_id' = [request_id EXCEPT ![c] = i]
        /\ \A d \in Calls : NodeOf[d] = NodeOf[c] => request_id[d] # i
  BY DEF SendInsertJob, RequestIds
<1>2. request_id[c] \notin Ids
  BY DEF TypeOK, CallTypes, SendInsertJob, At, Numbered
<1>3. UNCHANGED <<notify_finish, net, received, permits>>
  BY DEF SendInsertJob, histVars
<1>4. \A d \in Calls : request_id[d] \in Ids => d # c /\ request_id'[d] = request_id[d]
  BY <1>1, <1>2 DEF TypeOK, CallTypes
<1>5. request_id'[c] = i /\ \A d \in Calls : d # c => request_id'[d] = request_id[d]
  BY <1>1 DEF TypeOK, CallTypes
<1>6. IdsDistinct'
  BY <1>1, <1>5 DEF ConfirmInv, IdsDistinct
<1>7. FinishOwned'
  BY <1>3, <1>4 DEF ConfirmInv, FinishOwned
<1>8. Confirmed'
  <2>1. \A m \in net : m.id \in Ids
    BY DEF TypeOK, NetTypes, Message
  <2> QED
    BY <1>3, <1>4, <2>1 DEF ConfirmInv, Confirmed, Reached
<1>9. \A d \in Calls : pc'[d] = "returned" => pc[d] = "returned"
  BY DEF SendInsertJob, Goto, TypeOK, CallTypes
<1>10. FinishConfirmed' /\ ReturnedConfirmed'
  BY <1>3, <1>9, CallsAssumption
     DEF ConfirmInv, FinishConfirmed, ReturnedConfirmed, Reached
<1> QED
  BY <1>6, <1>7, <1>8, <1>10 DEF ConfirmInv

\* The entry for the confirmation is made under the id of the call.
LEMMA ConfirmInsertFinish ==
  ASSUME TypeOK, ConfirmInv, NEW c \in Calls, SendInsertFinish(c)
  PROVE  ConfirmInv'
<1>1. NodeOf[c] \in Nodes /\ request_id[c] \in Ids
  BY CallsAssumption DEF TypeOK, CallTypes, SendInsertFinish, At, Numbered
<1>2. UNCHANGED <<request_id, net, received, permits>>
  BY DEF SendInsertFinish, histVars
<1>3. FinishOwned'
  BY <1>1, <1>2
     DEF SendInsertFinish, Insert, TypeOK, IdMapTypes, IdMap, ConfirmInv, FinishOwned
<1>4. \A d \in Calls : pc'[d] = "returned" => pc[d] = "returned"
  BY DEF SendInsertFinish, Goto, TypeOK, CallTypes
<1> QED
  BY <1>2, <1>3, <1>4, CallsAssumption
     DEF ConfirmInv, IdsDistinct, Confirmed, FinishConfirmed, ReturnedConfirmed,
         Reached

\* A reliable call returns only with the permit of its confirmation.
LEMMA ConfirmSend ==
  ASSUME DistinctIds, TypeOK, ConfirmInv, NEW c \in Calls,
         SendLookup(c) \/ SendTick(c) \/ SendStep(c)
  PROVE  ConfirmInv'
<1>1. CASE SendInsertJob(c)
  BY <1>1, ConfirmInsertJob
<1>2. CASE SendInsertFinish(c)
  BY <1>2, ConfirmInsertFinish
<1>3. CASE SendTick(c)
  <2>1. request_id[c] \in Ids /\ targets[c] \subseteq Nodes
    BY <1>3 DEF SendTick, TypeOK, CallTypes, At, Numbered
  <2>2. \A m \in net' : m.prefix = "x" => m \in net
    BY <1>3, <2>1, QueriesType DEF SendTick, TypeOK
  <2> QED
    BY <1>3, <2>2, ConfirmFrame DEF SendTick, mapVars, callVars, histVars
<1>4. CASE SendFinished(c)
  <2>1. UNCHANGED <<request_id, notify_finish, net, received>>
    BY <1>4 DEF SendFinished, mapVars, histVars
  <2>2. Reached(c)
    BY <1>4 DEF SendFinished, ConfirmInv, FinishConfirmed
  <2>3. \A d \in Calls : pc'[d] = "returned" => pc[d] = "returned" \/ d = c
    BY <1>4 DEF SendFinished, Goto, TypeOK, CallTypes
  <2>4. ReturnedConfirmed'
    BY <2>1, <2>2, <2>3, CallsAssumption DEF ConfirmInv, ReturnedConfirmed, Reached
  <2>5. permits' \subseteq permits
    BY <1>4 DEF SendFinished
  <2> QED
    BY <2>1, <2>4, <2>5
       DEF ConfirmInv, IdsDistinct, FinishOwned, Confirmed, FinishConfirmed, Reached
<1>5. CASE SendDiscovered(c)
  <2>1. UNCHANGED <<request_id, notify_finish, net, received>>
    BY <1>5 DEF SendDiscovered, mapVars, histVars
  <2>2. \A d \in Reliable : pc'[d] = "returned" => pc[d] = "returned"
    BY <1>5, CallsAssumption
       DEF SendDiscovered, AfterDiscovery, Goto, TypeOK, CallTypes
  <2>3. permits' \subseteq permits
    BY <1>5 DEF SendDiscovered
  <2> QED
    BY <2>1, <2>2, <2>3, ConfirmFrame
<1>6. CASE SendLookup(c) \/ SendSocket(c) \/ SendExit(c)
           \/ SendInsertDiscovery(c) \/ SendInsertSent(c)
  <2>1. UNCHANGED <<request_id, notify_finish, net, received, permits>>
    BY <1>6
       DEF SendLookup, SendSocket, SendExit, SendInsertDiscovery,
           SendInsertSent, mapVars, callVars, histVars
  <2>2. \A d \in Calls : pc'[d] = "returned" => pc[d] = "returned"
    BY <1>6
       DEF SendLookup, SendSocket, SendExit, SendInsertDiscovery,
           SendInsertSent, AfterInsertDiscovery, Goto, callVars, TypeOK, CallTypes
  <2> QED
    BY <2>1, <2>2, ConfirmFrame, CallsAssumption
<1> QED
  BY <1>1, <1>2, <1>3, <1>4, <1>5, <1>6 DEF SendStep

\* A confirmation wakes the call whose job was received, and no other.
LEMMA ConfirmRecvX ==
  ASSUME TypeOK, ConfirmInv, NEW m \in net, RecvX(m)
  PROVE  ConfirmInv'
<1>1. m.prefix = "x" /\ m.dst \in Nodes /\ m.id \in Ids
  BY ArrivesType DEF RecvX
<1>2. net' \subseteq net /\ UNCHANGED <<request_id, received, pc>>
  BY DEF RecvX, Delivered, callVars, histVars
<1>3. CASE notify_finish[m.dst][m.id] = NoCall
  BY <1>2, <1>3, ConfirmFrame DEF RecvX
<1>4. CASE notify_finish[m.dst][m.id] # NoCall
  <2>1. PICK c \in Calls : c = notify_finish[m.dst][m.id]
    BY <1>1, <1>4 DEF TypeOK, IdMapTypes, IdMap
  <2>2. NodeOf[c] = m.dst /\ request_id[c] = m.id
    BY <1>1, <2>1 DEF ConfirmInv, FinishOwned
  <2>3. Reached(c)
    BY <1>1, <2>2 DEF ConfirmInv, Confirmed, IdsDistinct
  <2>4. permits' = permits \cup {<<"finish", c>>}
    BY <1>4, <2>1, CallsAssumption DEF RecvX, Wake
  <2>5. FinishConfirmed'
    BY <1>2, <2>3, <2>4 DEF ConfirmInv, FinishConfirmed, Reached
  <2>6. notify_finish' = Remove(notify_finish, m.dst, m.id)
    BY <1>4 DEF RecvX
  <2>7. FinishOwned'
    BY <1>1, <1>2, <2>6, CallsAssumption
       DEF Remove, TypeOK, IdMapTypes, IdMap, ConfirmInv, FinishOwned
  <2> QED
    BY <1>2, <2>5, <2>7
       DEF ConfirmInv, IdsDistinct, Confirmed, ReturnedConfirmed, Reached
<1> QED
  BY <1>3, <1>4

\* A confirmation is sent for a job that has been received.
LEMMA ConfirmRecvData ==
  ASSUME OneServerInv, ConfirmInv, NEW m \in net, RecvData(m)
  PROVE  ConfirmInv'
<1>1. m \in Message /\ IsCopy(m) /\ m.job \in Calls /\ m.dst \in Nodes
  BY ArrivesType DEF RecvData, Arrives, IsCopy, OneServerInv
<1>2. m.src = NodeOf[m.job] /\ m.id = request_id[m.job]
  BY <1>1 DEF OneServerInv, CopiesOwned
<1>3. /\ received' = received \cup {<<m.job, m.dst>>}
      /\ UNCHANGED <<request_id, pc, notify_finish, permits>>
  BY DEF RecvData, mapVars, callVars
<1>4. \A c \in Calls : Reached(c) => Reached(c)'
  BY <1>3 DEF Reached
<1>5. Reached(m.job)'
  BY <1>1, <1>3 DEF Reached
<1>6. net' \subseteq net \cup {Answer(m, "x", NoCall)}
  BY DEF RecvData, Confirmation, Delivered
<1>7. Answer(m, "x", NoCall).id = m.id /\ Answer(m, "x", NoCall).dst = m.src
  BY DEF Answer
<1>8. Confirmed'
  BY <1>1, <1>2, <1>3, <1>4, <1>5, <1>6, <1>7 DEF ConfirmInv, Confirmed
<1>9. FinishConfirmed' /\ ReturnedConfirmed'
  BY <1>3, <1>4, CallsAssumption DEF ConfirmInv, FinishConfirmed, ReturnedConfirmed
<1> QED
  BY <1>3, <1>8, <1>9 DEF ConfirmInv, IdsDistinct, FinishOwned

\* Whatever datagram the acceptor reads, confirmations stay truthful.
LEMMA ConfirmReceive ==
  ASSUME OneServerInv, ConfirmInv, NEW m \in net, Receive(m)
  PROVE  ConfirmInv'
<1>1. CASE RecvX(m)
  BY <1>1, ConfirmRecvX DEF OneServerInv
<1>2. CASE RecvData(m)
  BY <1>2, ConfirmRecvData
<1>3. CASE RecvI(m)
  <2>1. Answer(m, "v", NoCall).prefix = "v"
    BY DEF Answer
  <2>2. \A k \in net' : k.prefix = "x" => k \in net
    BY <1>3, <2>1 DEF RecvI, Delivered
  <2> QED
    BY <1>3, <2>2, ConfirmFrame DEF RecvI, mapVars, callVars, histVars
<1>4. CASE RecvV(m)
  <2>1. net' \subseteq net
    BY <1>4 DEF RecvV, Delivered
  <2>2. \A c \in Calls : <<"finish", c>> \in permits' => <<"finish", c>> \in permits
    BY <1>4 DEF RecvV, Wake
  <2> QED
    BY <1>4, <2>1, <2>2, ConfirmFrame DEF RecvV, callVars, histVars
<1>5. CASE RecvTruncated(m)
  <2>1. net' \subseteq net
    BY <1>5 DEF RecvTruncated, Delivered
  <2> QED
    BY <1>5, <2>1, ConfirmFrame DEF RecvTruncated, mapVars, callVars, histVars
<1> QED
  BY <1>1, <1>2, <1>3, <1>4, <1>5 DEF Receive

\* The later steps of the acceptor confirm nothing and end no call.
LEMMA ConfirmAcceptor ==
  ASSUME OneServerInv, ConfirmInv, NEW n \in Nodes,
         StartStep(n) \/ Stop(n) \/ Break(n) \/ AcceptorStep(n)
  PROVE  ConfirmInv'
<1>1. UNCHANGED <<request_id, notify_finish, received, pc>>
  BY DEF StartStep, StartBind, StartPublish, Close, Stop, Break, AcceptorStep,
         VJob, VSent, XSent, Handle, mapVars, callVars, histVars
<1>2. \A c \in Calls : <<"finish", c>> \in permits' => <<"finish", c>> \in permits
  BY DEF StartStep, StartBind, StartPublish, Close, Stop, Break, AcceptorStep,
         VJob, VSent, XSent, Handle, Wake
<1>3. \A m \in net' : m.prefix = "x" => m \in net
  <2>1. \/ net' = net
        \/ net' = net \cup {DataFor(cur[n], jobs[n][cur[n].id])}
    BY DEF StartStep, StartBind, StartPublish, Close, Stop, Break, AcceptorStep,
           VJob, VSent, XSent, Handle
  <2>2. DataFor(cur[n], jobs[n][cur[n].id]).prefix = "_"
    BY DEF DataFor, Answer
  <2> QED
    BY <2>1, <2>2
<1> QED
  BY <1>1, <1>2, <1>3, ConfirmFrame

\* A retransmission task confirms nothing and ends no call.
LEMMA ConfirmTask ==
  ASSUME OneServerInv, ConfirmInv, NEW t \in tasks, TaskTick(t) \/ TaskEnd(t)
  PROVE  ConfirmInv'
<1>1. t.buff \in Message /\ t.buff.prefix = "_"
  BY DEF OneServerInv, CopiesOwned, IsCopy, TypeOK, NetTypes, Task
<1>2. \A m \in net' : m.prefix = "x" => m \in net
  BY <1>1 DEF TaskTick, TaskEnd
<1>3. permits' \subseteq permits
  BY DEF TaskTick, TaskEnd
<1> QED
  BY <1>2, <1>3, ConfirmFrame DEF TaskTick, TaskEnd, mapVars, callVars, histVars

\* ConfirmInv is inductive, next to OneServerInv, when ids are distinct.
LEMMA ConfirmNext ==
  ASSUME DistinctIds
  PROVE  OneServerInv /\ ConfirmInv /\ [Next]_vars => ConfirmInv'
<1> SUFFICES ASSUME OneServerInv, ConfirmInv, [Next]_vars PROVE ConfirmInv'
  OBVIOUS
<1>1. ASSUME NEW e \in ServerTable, AddServer(e[1], e[2], e[3]) PROVE ConfirmInv'
  BY <1>1, ConfirmFrame DEF AddServer, mapVars, callVars, histVars
<1>2. ASSUME NEW e \in HandlerTable, On(e[1], e[2]) PROVE ConfirmInv'
  BY <1>2, ConfirmFrame DEF On, mapVars, callVars, histVars
<1>3. ASSUME NEW c \in Calls, SendLookup(c) \/ SendTick(c) \/ SendStep(c)
      PROVE  ConfirmInv'
  BY <1>3, ConfirmSend DEF OneServerInv
<1>4. ASSUME NEW n \in Nodes,
             StartStep(n) \/ Stop(n) \/ Break(n) \/ AcceptorStep(n)
      PROVE  ConfirmInv'
  BY <1>4, ConfirmAcceptor
<1>5. ASSUME NEW m \in net, Receive(m) PROVE ConfirmInv'
  BY <1>5, ConfirmReceive
<1>6. ASSUME NEW m \in net, Lose(m) PROVE ConfirmInv'
  BY <1>6, ConfirmFrame DEF Lose, mapVars, callVars, histVars
<1>7. ASSUME NEW t \in tasks, TaskTick(t) \/ TaskEnd(t) PROVE ConfirmInv'
  BY <1>7, ConfirmTask
<1>8. CASE UNCHANGED vars
  BY <1>8, ConfirmFrame DEF vars, mapVars, callVars, histVars
<1> QED
  BY <1>1, <1>2, <1>3, <1>4, <1>5, <1>6, <1>7, <1>8 DEF Next

\* Where the clock never gives a node the same id twice, a reliable send()
\* returns only after the very job it was called with has reached a server.
THEOREM ReliableSendDelivers == DistinctIds => (Spec => []ReturnedWasReceived)
<1> SUFFICES ASSUME DistinctIds PROVE Spec => []ReturnedWasReceived
  OBVIOUS
<1>1. Init => ConfirmInv
  BY ConfirmInit
<1>2. OneServerInv /\ ConfirmInv /\ [Next]_vars => ConfirmInv'
  BY ConfirmNext
<1>3. ConfirmInv => ReturnedWasReceived
  BY DEF ConfirmInv, ReturnedConfirmed, ReturnedWasReceived, Reached
<1> QED
  BY <1>1, <1>2, <1>3, OneServerInvariant, PTL DEF Spec
=============================================================================
