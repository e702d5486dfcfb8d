------------------------ MODULE UMQT_refinement_proofs ------------------------
(***************************************************************************)
(* UMQT implements Delivery, and an unreliable job is handled once: the    *)
(* server that is chosen is one that was asked, and whatever is sent,      *)
(* repeated, received and handled for a call afterwards is at that server. *)
(***************************************************************************)
EXTENDS UMQT_proofs

\* Call c is the one that node n knows by id i.
Of(c, n, i) == NodeOf[c] = n /\ request_id[c] = i

\* Until a call has looked its topic up it asks nobody.
IdleAsksNobody == \A c \in Calls : pc[c] = "idle" => targets[c] = {}

\* The states of a call that has been in notify_discovery, and of one that has
\* been in all the maps it uses.
Asking == {"insert_sent", "insert_finish", "discover", "await", "returned"}
Registered == {"discover", "await", "returned"}

\* m is about call c, of node n, that asks server s.
Asks(c, n, s, m) ==
  /\ Of(c, n, m.id) /\ s \in targets[c] /\ pc[c] \in Registered
  /\ m.reliable <=> c \in Reliable

\* Queries and the answers to them are between a call and a server it asks.
QueriesOwned ==
  \A m \in net : m.prefix = "i" => \E c \in Calls : Asks(c, m.src, m.dst, m)
AnswersOwned ==
  \A m \in net : m.prefix = "v" => \E c \in Calls : Asks(c, m.dst, m.src, m)

\* A call is in notify_discovery until its server is chosen, and only then.
DiscoveryOwned ==
  \A n \in Nodes, i \in Ids :
    notify_discovery[n][i] \in Calls =>
      /\ Of(notify_discovery[n][i], n, i)
      /\ winner[notify_discovery[n][i]] = {}
      /\ pc[notify_discovery[n][i]] \in Asking
WinnersAsked == \A c \in Calls : winner[c] # {} => pc[c] \in Registered
DiscoveredChosen ==
  \A c \in Calls : <<"discovery", c>> \in permits => winner[c] # {}
ReturnedChosen ==
  \A c \in Calls : pc[c] \in {"await", "returned"} => winner[c] # {}

\* What a call has done about a server before one is chosen.
AskInv ==
  /\ IdleAsksNobody /\ QueriesOwned /\ AnswersOwned /\ DiscoveryOwned
  /\ WinnersAsked /\ DiscoveredChosen /\ ReturnedChosen

\* m is the answer that node n took for call c.
Answered(c, n, m) ==
  /\ Of(c, n, m.id) /\ winner[c] = {m.src}
  /\ m.reliable <=> c \in Reliable

\* What the acceptor is about to take a job for, every copy of the job and every
\* place that it reached is the server that was chosen.
TakenForWinner ==
  \A n \in Nodes : acc[n] = "v_job" => \E c \in Calls : Answered(c, n, cur[n])
CopiesToWinner == \A m \in Message : IsCopy(m) => winner[m.job] = {m.dst}
ReceivedByWinner ==
  \A c \in Calls, n \in Nodes : <<c, n>> \in received => winner[c] = {n}

\* A handler runs with a job that was received, and every time it is counted.
HandlersReceived ==
  \A n \in Nodes : acc[n] = "handler" => <<cur[n].job, n>> \in received
HandledReceived ==
  \A c \in Calls, n \in Nodes : handled[c][n] > 0 => <<c, n>> \in received

\* Where the job of a call goes once a server is chosen.
GoInv ==
  /\ TakenForWinner /\ CopiesToWinner /\ ReceivedByWinner
  /\ HandlersReceived /\ HandledReceived

-----------------------------------------------------------------------------
(* Asking.                                                                 *)

\* Nobody asks or has chosen at first.
LEMMA AskInit == Init => AskInv
BY CallsAssumption
   DEF Init, AskInv, IdleAsksNobody, QueriesOwned, AnswersOwned, DiscoveryOwned,
       WinnersAsked, DiscoveredChosen, ReturnedChosen

\* An id that was handed out is kept.
IdsKept == \A c \in Calls : request_id[c] \in Ids => request_id'[c] = request_id[c]

\* A call that has its id keeps it.
LEMMA OfKept ==
  ASSUME IdsKept
  PROVE  \A c \in Calls, n \in Nodes, i \in Ids : Of(c, n, i) => Of(c, n, i)'
BY DEF IdsKept, Of

\* A step that asks nobody, registers nobody and chooses nobody.
LEMMA AskFrame ==
  ASSUME TypeOK, TypeOK', AskInv, IdsKept, UNCHANGED <<targets, winner>>,
         \A m \in net' : m.prefix \in {"i", "v"} => m \in net,
         \A n \in Nodes, i \in Ids :
           notify_discovery'[n][i] \in Calls =>
             notify_discovery'[n][i] = notify_discovery[n][i],
         \A c \in Calls : <<"discovery", c>> \in permits'
                            => <<"discovery", c>> \in permits,
         \A c \in Calls : /\ pc'[c] = "idle" => pc[c] = "idle"
                          /\ pc[c] \in Asking => pc'[c] \in Asking
                          /\ pc[c] \in Registered => pc'[c] \in Registered
                          /\ pc'[c] \in {"await", "returned"} =>
                               pc[c] \in {"await", "returned"} \/ winner[c] # {}
  PROVE  AskInv'
<1>1. \A c \in Calls, n \in Nodes, i \in Ids : Of(c, n, i) => Of(c, n, i)'
  BY OfKept
<1>2. \A m \in net' : m.id \in Ids /\ m.src \in Nodes /\ m.dst \in Nodes
  BY DEF TypeOK, NetTypes, Message
<1>3. IdleAsksNobody' /\ WinnersAsked' /\ DiscoveredChosen' /\ ReturnedChosen'
  BY DEF AskInv, IdleAsksNobody, WinnersAsked, DiscoveredChosen, ReturnedChosen
<1>4. QueriesOwned'
  <2>1. \A c \in Calls, m \in net' :
          Asks(c, m.src, m.dst, m) => Asks(c, m.src, m.dst, m)'
    BY <1>1, <1>2 DEF Asks
  <2> QED
    BY <2>1 DEF AskInv, QueriesOwned
<1>5. AnswersOwned'
  <2>1. \A c \in Calls, m \in net' :
          Asks(c, m.dst, m.src, m) => Asks(c, m.dst, m.src, m)'
    BY <1>1, <1>2 DEF Asks
  <2> QED
    BY <2>1 DEF AskInv, AnswersOwned
<1>6. DiscoveryOwned'
  BY <1>1 DEF AskInv, DiscoveryOwned
<1> QED
  BY <1>3, <1>4, <1>5, <1>6 DEF AskInv

\* A call asks the servers it finds, having asked none.
LEMMA AskLookup ==
  ASSUME TypeOK, TypeOK', AskInv, NEW c \in Calls, SendLookup(c)
  PROVE  AskInv' /\ targets[c] = {}
<1>1. targets[c] = {} /\ pc[c] = "idle"
  BY DEF SendLookup, At, AskInv, IdleAsksNobody
<1>2. \A d \in Calls : targets[d] \subseteq targets'[d]
  BY <1>1 DEF SendLookup, TypeOK, CallTypes
<1>3. UNCHANGED <<net, request_id, notify_discovery, winner, permits>>
  BY DEF SendLookup, mapVars, histVars
<1>4. \A d \in Calls : d # c => pc'[d] = pc[d] /\ targets'[d] = targets[d]
  BY DEF SendLookup, Goto, TypeOK, CallTypes
<1>5. pc'[c] \in {"unrouted", "socket"}
  BY DEF SendLookup, Goto, TypeOK, CallTypes
<1>6. IdleAsksNobody' /\ DiscoveredChosen'
  BY <1>3, <1>4, <1>5 DEF AskInv, IdleAsksNobody, DiscoveredChosen
<1>7. pc[c] \notin Asking /\ pc[c] \notin Registered
  BY <1>1 DEF Asking, Registered
<1>8. QueriesOwned' /\ AnswersOwned'
  BY <1>2, <1>3, <1>4, <1>7 DEF AskInv, QueriesOwned, AnswersOwned, Asks, Of
<1>9. DiscoveryOwned'
  BY <1>3, <1>4, <1>7 DEF AskInv, DiscoveryOwned, Of
<1>10. WinnersAsked' /\ ReturnedChosen'
  BY <1>3, <1>4, <1>5, <1>7 DEF AskInv, WinnersAsked, ReturnedChosen
<1> QED
  BY <1>1, <1>6, <1>8, <1>9, <1>10 DEF AskInv

\* A tick asks the servers of the call, in its name.
LEMMA AskTick ==
  ASSUME TypeOK, TypeOK', AskInv, NEW c \in Calls, SendTick(c)
  PROVE  AskInv'
<1>1. UNCHANGED <<request_id, targets, pc, notify_discovery, winner, permits>>
  BY DEF SendTick, callVars, mapVars, histVars
<1>2. \A m \in net' : m \in net \/ \E s \in targets[c] : m = Query(c, s)
  BY DEF SendTick
<1>3. \A s : /\ Query(c, s).prefix = "i" /\ Query(c, s).dst = s
             /\ Query(c, s).reliable = (c \in Reliable)
             /\ Of(c, Query(c, s).src, Query(c, s).id)
  BY DEF Query, Of
<1>4. QueriesOwned'
  <2> SUFFICES ASSUME NEW m \in net', m.prefix = "i"
               PROVE  \E d \in Calls : Asks(d, m.src, m.dst, m)
    BY <1>1 DEF QueriesOwned, Asks, Of
  <2>1. CASE m \in net
    BY <2>1 DEF AskInv, QueriesOwned
  <2>2. CASE \E s \in targets[c] : m = Query(c, s)
    <3>1. PICK s \in targets[c] : m = Query(c, s)
      BY <2>2
    <3>2. Of(c, m.src, m.id) /\ m.dst \in targets[c]
      BY <1>3, <3>1
    <3>3. m.reliable <=> c \in Reliable
      BY <1>3, <3>1
    <3>4. pc[c] \in Registered
      BY DEF SendTick, At, Registered
    <3> QED
      BY <3>2, <3>3, <3>4 DEF Asks
  <2> QED
    BY <1>2, <2>1, <2>2
<1>5. AnswersOwned'
  BY <1>1, <1>2, <1>3 DEF AskInv, AnswersOwned, Asks, Of
<1> QED
  BY <1>1, <1>4, <1>5
     DEF AskInv, IdleAsksNobody, DiscoveryOwned, WinnersAsked, DiscoveredChosen,
         ReturnedChosen, Of

\* A call registers under its own id, before any server is chosen for it.
LEMMA AskInsertDiscovery ==
  ASSUME TypeOK, TypeOK', AskInv, NEW c \in Calls, SendInsertDiscovery(c)
  PROVE  AskInv'
<1>1. NodeOf[c] \in Nodes /\ request_id[c] \in Ids /\ pc[c] = "insert_discovery"
  BY CallsAssumption DEF SendInsertDiscovery, At, TypeOK, CallTypes, Numbered
<1>2. UNCHANGED <<request_id, targets, net, winner, permits>>
  BY DEF SendInsertDiscovery, histVars
<1>3. winner[c] = {} /\ pc[c] \notin Registered
  BY <1>1 DEF AskInv, WinnersAsked, Registered
<1>4. /\ pc'[c] \in {"insert_sent", "discover"}
      /\ \A d \in Calls : d # c => pc'[d] = pc[d]
  BY DEF SendInsertDiscovery, Goto, AfterInsertDiscovery, TypeOK, CallTypes
<1>5. DiscoveryOwned'
  <2> SUFFICES ASSUME NEW n \in Nodes, NEW i \in Ids, NEW d \in Calls,
                      notify_discovery'[n][i] = d
               PROVE  Of(d, n, i)' /\ winner'[d] = {} /\ pc'[d] \in Asking
    BY DEF DiscoveryOwned
  <2>1. CASE n = NodeOf[c] /\ i = request_id[c]
    <3>1. d = c
      BY <1>1, <2>1 DEF SendInsertDiscovery, Insert, TypeOK, IdMapTypes, IdMap
    <3> QED
      BY <1>2, <1>3, <1>4, <2>1, <3>1 DEF Of, Asking
  <2>2. CASE n # NodeOf[c] \/ i # request_id[c]
    <3>1. notify_discovery[n][i] = d
      BY <1>1, <2>2 DEF SendInsertDiscovery, Insert, TypeOK, IdMapTypes, IdMap
    <3>2. Of(d, n, i) /\ winner[d] = {} /\ pc[d] \in Asking
      BY <3>1 DEF AskInv, DiscoveryOwned
    <3>3. d # c
      BY <1>1, <3>2 DEF Asking
    <3> QED
      BY <1>2, <1>4, <3>2, <3>3 DEF Of
  <2> QED
    BY <2>1, <2>2
<1>6. IdleAsksNobody' /\ WinnersAsked' /\ DiscoveredChosen' /\ ReturnedChosen'
  BY <1>1, <1>2, <1>3, <1>4
     DEF AskInv, IdleAsksNobody, WinnersAsked, DiscoveredChosen, ReturnedChosen
<1>7. QueriesOwned' /\ AnswersOwned'
  BY <1>2, <1>3, <1>4 DEF AskInv, QueriesOwned, AnswersOwned, Asks, Of
<1> QED
  BY <1>5, <1>6, <1>7 DEF AskInv

\* The other steps of send() ask nobody, and leave discovery only when chosen.
LEMMA AskSend ==
  ASSUME TypeOK, TypeOK', AskInv, NEW c \in Calls, SendLookup(c) \/ SendTick(c) \/ SendStep(c)
  PROVE  AskInv'
<1>1. CASE SendLookup(c) \/ SendTick(c) \/ SendInsertDiscovery(c)
  BY <1>1, AskLookup, AskTick, AskInsertDiscovery
<1>2. CASE SendDiscovered(c) \/ SendFinished(c)
  <2>1. UNCHANGED <<request_id, targets, net, notify_discovery, winner>>
    BY <1>2 DEF SendDiscovered, SendFinished, mapVars, histVars
  <2>2. permits' \subseteq permits
    BY <1>2 DEF SendDiscovered, SendFinished
  <2>3. winner[c] # {}
    BY <1>2
       DEF SendDiscovered, SendFinished, At, AskInv, DiscoveredChosen, ReturnedChosen
  <2>4. /\ pc[c] \in Asking /\ pc'[c] \in Asking /\ pc'[c] \in Registered
        /\ pc'[c] # "idle"
        /\ \A d \in Calls : d # c => pc'[d] = pc[d]
    BY <1>2
       DEF SendDiscovered, SendFinished, At, Goto, AfterDiscovery, TypeOK,
           CallTypes, Asking, Registered
  <2> QED
    BY <2>1, <2>2, <2>3, <2>4, AskFrame DEF IdsKept
<1>3. CASE \/ SendSocket(c) \/ SendExit(c) \/ SendInsertJob(c)
           \/ SendInsertSent(c) \/ SendInsertFinish(c)
  <2>1. UNCHANGED <<targets, net, notify_discovery, winner, permits>>
    BY <1>3
       DEF SendSocket, SendExit, SendInsertJob, SendInsertSent,
           SendInsertFinish, mapVars, callVars, histVars
  <2>2. IdsKept
    <3>1. CASE SendInsertJob(c)
      BY <3>1 DEF SendInsertJob, At, TypeOK, CallTypes, Numbered, IdsKept
    <3>2. CASE ~ SendInsertJob(c)
      BY <1>3, <3>2
         DEF SendSocket, SendExit, SendInsertSent, SendInsertFinish, callVars,
             IdsKept
    <3> QED
      BY <3>1, <3>2
  <2>3. \A d \in Calls :
          \/ pc'[d] = pc[d]
          \/ /\ pc[d] \in {"socket", "insert_job", "insert_sent", "insert_finish"}
             /\ pc'[d] \in {"insert_job", "insert_discovery", "insert_finish",
                            "discover"}
             /\ pc[d] \in Asking => pc'[d] \in Asking
             /\ pc[d] \notin Registered
    BY <1>3
       DEF SendSocket, SendExit, SendInsertJob, SendInsertSent,
           SendInsertFinish, At, Goto, callVars, TypeOK, CallTypes, Asking,
           Registered
  <2> QED
    BY <2>1, <2>2, <2>3, AskFrame
<1> QED
  BY <1>1, <1>2, <1>3 DEF SendStep

\* A server answers the call that asked it.
LEMMA AskRecvI ==
  ASSUME TypeOK, TypeOK', AskInv, NEW m \in net, RecvI(m)
  PROVE  AskInv'
<1>1. m.prefix = "i" /\ m.reliable \in BOOLEAN
  BY ArrivesType DEF RecvI
<1>2. PICK c \in Calls : Asks(c, m.src, m.dst, m)
  BY <1>1 DEF AskInv, QueriesOwned
<1> DEFINE a == Answer(m, "v", NoCall)
<1>3. /\ a.prefix = "v" /\ a.id = m.id /\ a.reliable = m.reliable
      /\ a.src = m.dst /\ a.dst = m.src
  BY DEF Answer
<1>4. net' \subseteq net \cup {a}
  BY DEF RecvI, Delivered
<1> HIDE DEF a
<1>5. UNCHANGED <<request_id, targets, pc, notify_discovery, winner, permits>>
  BY DEF RecvI, callVars, mapVars, histVars
<1>6. AnswersOwned'
  <2> SUFFICES ASSUME NEW k \in net', k.prefix = "v"
               PROVE  \E d \in Calls : Asks(d, k.dst, k.src, k)
    BY <1>5 DEF AnswersOwned, Asks, Of
  <2>1. CASE k \in net
    BY <2>1 DEF AskInv, AnswersOwned
  <2>2. CASE k = a
    BY <1>2, <1>3, <2>2 DEF Asks
  <2> QED
    BY <1>4, <2>1, <2>2
<1>7. QueriesOwned'
  BY <1>3, <1>4, <1>5 DEF AskInv, QueriesOwned, Asks, Of
<1> QED
  BY <1>5, <1>6, <1>7
     DEF AskInv, IdleAsksNobody, DiscoveryOwned, WinnersAsked, DiscoveredChosen,
         ReturnedChosen, Of

\* Who is chosen: the server that answered, for the one call that asked it under
\* this id and that has no server yet.
LEMMA ChosenAnswer ==
  ASSUME TypeOK, IdsDistinct, AskInv, NEW m \in net, RecvV(m),
         NEW c, c = notify_discovery[m.dst][m.id], c # NoCall
  PROVE  /\ c \in Calls /\ Of(c, m.dst, m.id) /\ winner[c] = {}
         /\ m.src \in targets[c] /\ pc[c] \in Registered
         /\ m.reliable <=> c \in Reliable
<1>1. m.prefix = "v" /\ m.dst \in Nodes /\ m.id \in Ids /\ m.reliable \in BOOLEAN
  BY ArrivesType DEF RecvV
<1>2. c \in Calls
  BY <1>1 DEF TypeOK, IdMapTypes, IdMap
<1>3. Of(c, m.dst, m.id) /\ winner[c] = {} /\ pc[c] \in Asking
  BY <1>1, <1>2 DEF AskInv, DiscoveryOwned
<1>4. PICK d \in Calls : Asks(d, m.dst, m.src, m)
  BY <1>1 DEF AskInv, AnswersOwned
<1>5. c = d
  BY <1>1, <1>2, <1>3, <1>4 DEF Asks, Of, IdsDistinct
<1> QED
  BY <1>2, <1>3, <1>4, <1>5 DEF Asks

\* The first answer chooses; a later one finds no entry.
LEMMA AskRecvV ==
  ASSUME TypeOK, TypeOK', IdsDistinct, AskInv, NEW m \in net, RecvV(m)
  PROVE  AskInv'
<1>1. m.dst \in Nodes /\ m.id \in Ids
  BY ArrivesType DEF RecvV
<1>2. net' \subseteq net /\ UNCHANGED <<request_id, targets, pc>>
  BY DEF RecvV, Delivered, callVars
<1>3. CASE notify_discovery[m.dst][m.id] = NoCall
  BY <1>2, <1>3, AskFrame DEF RecvV, IdsKept
<1>4. CASE notify_discovery[m.dst][m.id] # NoCall
  <2>1. PICK c \in Calls : c = notify_discovery[m.dst][m.id]
    BY <1>1, <1>4 DEF TypeOK, IdMapTypes, IdMap
  <2>2. Of(c, m.dst, m.id) /\ winner[c] = {} /\ pc[c] \in Registered
    BY <1>4, <2>1, ChosenAnswer
  <2>3. /\ winner' = [winner EXCEPT ![c] = {m.src}]
        /\ notify_discovery' = Remove(notify_discovery, m.dst, m.id)
        /\ permits' = permits \cup {<<"discovery", c>>}
    BY <1>4, <2>1, CallsAssumption DEF RecvV, Wake
  <2>4. winner'[c] # {} /\ \A d \in Calls : d # c => winner'[d] = winner[d]
    BY <2>3 DEF TypeOK, HistoryTypes
  <2>5. DiscoveryOwned'
    <3> SUFFICES ASSUME NEW n \in Nodes, NEW i \in Ids, NEW d \in Calls,
                        notify_discovery'[n][i] = d
                 PROVE  Of(d, n, i) /\ winner'[d] = {} /\ pc[d] \in Asking
      BY <1>2 DEF DiscoveryOwned, Of
    <3>1. notify_discovery[n][i] = d /\ (n # m.dst \/ i # m.id)
      BY <1>1, <2>3, CallsAssumption DEF Remove, TypeOK, IdMapTypes, IdMap
    <3>2. Of(d, n, i) /\ winner[d] = {} /\ pc[d] \in Asking
      BY <3>1 DEF AskInv, DiscoveryOwned
    <3>3. d # c
      BY <2>2, <3>1, <3>2 DEF Of
    <3> QED
      BY <2>4, <3>2, <3>3
  <2>6. WinnersAsked' /\ DiscoveredChosen' /\ ReturnedChosen' /\ IdleAsksNobody'
    BY <1>2, <2>2, <2>3, <2>4
       DEF AskInv, WinnersAsked, DiscoveredChosen, ReturnedChosen, IdleAsksNobody
  <2>7. QueriesOwned' /\ AnswersOwned'
    BY <1>2 DEF AskInv, QueriesOwned, AnswersOwned, Asks, Of
  <2> QED
    BY <2>5, <2>6, <2>7 DEF AskInv
<1> QED
  BY <1>3, <1>4

\* The other datagrams ask and choose nobody.
LEMMA AskReceive ==
  ASSUME TypeOK, TypeOK', IdsDistinct, AskInv, NEW m \in net, Receive(m)
  PROVE  AskInv'
<1>1. CASE RecvI(m) \/ RecvV(m)
  BY <1>1, AskRecvI, AskRecvV
<1>2. CASE RecvX(m) \/ RecvData(m) \/ RecvTruncated(m)
  <2>1. UNCHANGED <<request_id, targets, pc, notify_discovery, winner>>
    BY <1>2 DEF RecvX, RecvData, RecvTruncated, callVars, mapVars, histVars
  <2>2. net' \subseteq net \cup {Answer(m, "x", NoCall)}
    BY <1>2 DEF RecvX, RecvData, RecvTruncated, Confirmation, Delivered
  <2>3. Answer(m, "x", NoCall).prefix = "x"
    BY DEF Answer
  <2>4. \A c \in Calls : <<"discovery", c>> \in permits'
                           => <<"discovery", c>> \in permits
    <3>1. CASE RecvX(m)
      BY <3>1 DEF RecvX, Wake
    <3>2. CASE RecvData(m) \/ RecvTruncated(m)
      BY <3>2 DEF RecvData, RecvTruncated
    <3> QED
      BY <1>2, <3>1, <3>2
  <2> QED
    BY <2>1, <2>2, <2>3, <2>4, AskFrame DEF IdsKept
<1> QED
  BY <1>1, <1>2 DEF Receive

\* The acceptor's other steps ask and choose nobody.
LEMMA AskAcceptor ==
  ASSUME TypeOK, TypeOK', AskInv, NEW n \in Nodes,
         StartStep(n) \/ Stop(n) \/ Break(n) \/ AcceptorStep(n)
  PROVE  AskInv'
<1>1. UNCHANGED <<request_id, targets, pc, notify_discovery, winner>>
  BY DEF StartStep, StartBind, StartPublish, Close, Stop, Break, AcceptorStep,
         VJob, VSent, XSent, Handle, mapVars, callVars, histVars
<1>2. \A c \in Calls : <<"discovery", c>> \in permits'
                         => <<"discovery", c>> \in permits
  BY DEF StartStep, StartBind, StartPublish, Close, Stop, Break, AcceptorStep,
         VJob, VSent, XSent, Handle, Wake
<1>3. \A m \in net' : m.prefix \in {"i", "v"} => m \in net
  <2>1. \/ net' = net
        \/ net' = net \cup {DataFor(cur[n], jobs[n][cur[n].id])}
    BY DEF StartStep, StartBind, StartPublish, Close, Stop, Break, AcceptorStep,
           VJob, VSent, XSent, Handle
  <2>2. DataFor(cur[n], jobs[n][cur[n].id]).prefix = "_"
    BY DEF DataFor, Answer
  <2> QED
    BY <2>1, <2>2
<1> QED
  BY <1>1, <1>2, <1>3, AskFrame DEF IdsKept

\* AskInv is inductive, next to what is known of copies and confirmations.
LEMMA AskNext == OneServerInv /\ IdsDistinct /\ AskInv /\ [Next]_vars => AskInv'
<1> SUFFICES ASSUME OneServerInv, IdsDistinct, AskInv, [Next]_vars PROVE AskInv'
  OBVIOUS
<1>1. TypeOK /\ TypeOK'
  BY TypeNext DEF OneServerInv
<1>2. ASSUME NEW e, AddServer(e[1], e[2], e[3]) \/ On(e[1], e[2])
      PROVE  AskInv'
  BY <1>1, <1>2, AskFrame
     DEF AddServer, On, mapVars, callVars, histVars, IdsKept
<1>3. ASSUME NEW c \in Calls, SendLookup(c) \/ SendTick(c) \/ SendStep(c)
      PROVE  AskInv'
  BY <1>1, <1>3, AskSend
<1>4. ASSUME NEW n \in Nodes,
             StartStep(n) \/ Stop(n) \/ Break(n) \/ AcceptorStep(n)
      PROVE  AskInv'
  BY <1>1, <1>4, AskAcceptor
<1>5. ASSUME NEW m \in net, Receive(m) PROVE AskInv'
  BY <1>1, <1>5, AskReceive
<1>6. ASSUME NEW m \in net, Lose(m) PROVE AskInv'
  BY <1>1, <1>6, AskFrame DEF Lose, mapVars, callVars, histVars, IdsKept
<1>7. ASSUME NEW t \in tasks, TaskTick(t) \/ TaskEnd(t) PROVE AskInv'
  <2>1. t.buff.prefix = "_"
    BY DEF OneServerInv, CopiesOwned, IsCopy, TypeOK, NetTypes, Task
  <2>2. UNCHANGED <<request_id, targets, pc, notify_discovery, winner>>
    BY <1>7 DEF TaskTick, TaskEnd, mapVars, callVars, histVars
  <2>3. permits' \subseteq permits /\ net' \subseteq net \cup {t.buff}
    BY <1>7 DEF TaskTick, TaskEnd
  <2> QED
    BY <1>1, <2>1, <2>2, <2>3, AskFrame DEF IdsKept
<1>8. CASE UNCHANGED vars
  BY <1>1, <1>8, AskFrame DEF vars, mapVars, callVars, histVars, IdsKept
<1> QED
  BY <1>2, <1>3, <1>4, <1>5, <1>6, <1>7, <1>8 DEF Next

-----------------------------------------------------------------------------
(* Going to the server that was chosen.                                    *)

\* No job goes anywhere at first.
LEMMA GoInit == Init => GoInv
BY DEF Init, GoInv, TakenForWinner, CopiesToWinner, ReceivedByWinner,
       HandlersReceived, HandledReceived, IsCopy

\* A choice that was made is kept.
ChoiceKept == \A c \in Calls : winner[c] # {} => winner'[c] = winner[c]

\* The job that a copy carries is that of a call.
LEMMA CopyOfCall ==
  ASSUME OneServerInv, NEW m \in Message, IsCopy(m)
  PROVE  m.job \in Calls /\ m.dst \in Nodes /\ m.prefix = "_"
BY DEF OneServerInv, CopiesOwned, Message

\* The copies of a job stay at the chosen server where none is made.
LEMMA CopiesKept ==
  ASSUME OneServerInv, GoInv, ChoiceKept, NoNewCopy
  PROVE  CopiesToWinner'
<1> SUFFICES ASSUME NEW m \in Message, IsCopy(m)'
             PROVE  winner'[m.job] = {m.dst}
  BY DEF CopiesToWinner
<1>1. IsCopy(m)
  BY DEF NoNewCopy
<1>2. winner[m.job] = {m.dst} /\ m.job \in Calls
  BY <1>1, CopyOfCall DEF GoInv, CopiesToWinner
<1> QED
  BY <1>2 DEF ChoiceKept

\* A step that copies, delivers and handles no job and takes none.
LEMMA GoFrame ==
  ASSUME OneServerInv, GoInv, IdsKept, ChoiceKept, NoNewCopy,
         UNCHANGED <<received, handled>>,
         \A n \in Nodes : acc'[n] \in {"v_job", "handler"}
                            => acc'[n] = acc[n] /\ cur'[n] = cur[n]
  PROVE  GoInv'
<1>1. CopiesToWinner'
  BY CopiesKept
<1>2. ReceivedByWinner' /\ HandlersReceived' /\ HandledReceived'
  BY DEF GoInv, ReceivedByWinner, HandlersReceived, HandledReceived, ChoiceKept
<1>3. TakenForWinner'
  <2> SUFFICES ASSUME NEW n \in Nodes, acc'[n] = "v_job"
               PROVE  \E c \in Calls : Answered(c, n, cur[n])'
    BY DEF TakenForWinner
  <2>1. acc[n] = "v_job" /\ cur'[n] = cur[n]
    OBVIOUS
  <2>2. cur[n].id \in Ids
    BY <2>1 DEF OneServerInv, TypeOK, AcceptorTypes, Busy, Message
  <2>3. PICK c \in Calls : Answered(c, n, cur[n])
    BY <2>1 DEF GoInv, TakenForWinner
  <2>4. request_id'[c] = request_id[c] /\ winner'[c] = winner[c]
    BY <2>2, <2>3 DEF Answered, Of, IdsKept, ChoiceKept
  <2> QED
    BY <2>1, <2>3, <2>4 DEF Answered, Of
<1> QED
  BY <1>1, <1>2, <1>3 DEF GoInv

\* send() hands its job to nobody: that is the acceptor's work.
LEMMA GoSend ==
  ASSUME OneServerInv, GoInv, NEW c \in Calls,
         SendLookup(c) \/ SendTick(c) \/ SendStep(c)
  PROVE  GoInv'
<1>1. UNCHANGED <<acc, cur, winner, received, handled>>
  BY DEF SendLookup, SendTick, SendStep, SendSocket, SendExit, SendInsertJob,
         SendInsertDiscovery, SendInsertSent, SendInsertFinish,
         SendDiscovered, SendFinished, accVars, histVars
<1>2. IdsKept
  <2>1. CASE SendInsertJob(c)
    BY <2>1
       DEF SendInsertJob, At, OneServerInv, TypeOK, CallTypes, Numbered, IdsKept
  <2>2. CASE ~ SendInsertJob(c)
    BY <2>2
       DEF SendLookup, SendTick, SendStep, SendSocket, SendExit,
           SendInsertDiscovery, SendInsertSent, SendInsertFinish,
           SendDiscovered, SendFinished, callVars, IdsKept
  <2> QED
    BY <2>1, <2>2
<1>3. NoNewCopy
  BY CopiesSend DEF OneServerInv
<1> QED
  BY <1>1, <1>2, <1>3, GoFrame DEF ChoiceKept

\* The first answer makes the choice that the acceptor then takes the job for.
LEMMA GoRecvV ==
  ASSUME OneServerInv, IdsDistinct, AskInv, GoInv, NEW m \in net, RecvV(m)
  PROVE  GoInv'
<1>1. /\ m.dst \in Nodes /\ m.id \in Ids /\ m.src \in Nodes
      /\ m.reliable \in BOOLEAN
  BY ArrivesType DEF RecvV, OneServerInv
<1>2. UNCHANGED <<request_id, received, handled>>
  BY DEF RecvV, callVars
<1>3. NoNewCopy
  BY CopiesReceive DEF Receive, OneServerInv
<1>4. acc \in [Nodes -> AccStates] /\ cur \in [Nodes -> Message \cup {NoMsg}]
  BY DEF OneServerInv, TypeOK, AcceptorTypes
<1>5. CASE notify_discovery[m.dst][m.id] = NoCall
  <2>1. \A n \in Nodes : acc'[n] \in {"v_job", "handler"}
                           => acc'[n] = acc[n] /\ cur'[n] = cur[n]
    BY <1>4, <1>5 DEF RecvV, NextTurn
  <2>2. winner' = winner
    BY <1>5 DEF RecvV
  <2> QED
    BY <1>2, <1>3, <2>1, <2>2, GoFrame DEF IdsKept, ChoiceKept
<1>6. CASE notify_discovery[m.dst][m.id] # NoCall
  <2>1. PICK c \in Calls : c = notify_discovery[m.dst][m.id]
    BY <1>1, <1>6 DEF OneServerInv, TypeOK, IdMapTypes, IdMap
  <2>2. Of(c, m.dst, m.id) /\ winner[c] = {}
    BY <1>6, <2>1, ChosenAnswer DEF OneServerInv
  <2>3. m.reliable <=> c \in Reliable
    BY <1>6, <2>1, ChosenAnswer DEF OneServerInv
  <2>4. /\ winner' = [winner EXCEPT ![c] = {m.src}]
        /\ Continue(m.dst, "v_job", m)
    BY <1>6, <2>1 DEF RecvV
  <2>5. winner'[c] = {m.src} /\ \A d \in Calls : d # c => winner'[d] = winner[d]
    BY <2>4 DEF OneServerInv, TypeOK, HistoryTypes
  <2>6. ChoiceKept
    BY <2>2, <2>5 DEF ChoiceKept
  <2>7. CopiesToWinner'
    BY <1>3, <2>6, CopiesKept
  <2>8. /\ acc'[m.dst] = "v_job" /\ cur'[m.dst] = m
        /\ \A n \in Nodes \ {m.dst} : acc'[n] = acc[n] /\ cur'[n] = cur[n]
    BY <1>1, <1>4, <2>4 DEF Continue
  <2>9. ReceivedByWinner' /\ HandlersReceived' /\ HandledReceived'
    BY <1>2, <2>6, <2>8
       DEF GoInv, ReceivedByWinner, HandlersReceived, HandledReceived, ChoiceKept
  <2>10. TakenForWinner'
    <3> SUFFICES ASSUME NEW n \in Nodes, acc'[n] = "v_job"
                 PROVE  \E d \in Calls : Answered(d, n, cur[n])'
      BY DEF TakenForWinner
    <3>1. CASE n = m.dst
      BY <1>2, <2>2, <2>3, <2>5, <2>8, <3>1 DEF Answered, Of
    <3>2. CASE n # m.dst
      <4>1. PICK d \in Calls : Answered(d, n, cur[n])
        BY <2>8, <3>2 DEF GoInv, TakenForWinner
      <4>2. winner'[d] = winner[d]
        BY <2>6, <4>1 DEF ChoiceKept, Answered
      <4> QED
        BY <1>2, <2>8, <3>2, <4>1, <4>2 DEF Answered, Of
    <3> QED
      BY <3>1, <3>2
  <2> QED
    BY <2>7, <2>9, <2>10 DEF GoInv
<1> QED
  BY <1>5, <1>6

\* A copy arrives at the server that was chosen.
LEMMA GoRecvData ==
  ASSUME OneServerInv, GoInv, NEW m \in net, RecvData(m)
  PROVE  GoInv' /\ m.job \in Calls /\ m.dst \in Nodes /\ winner[m.job] = {m.dst}
<1>1. m \in Message /\ IsCopy(m) /\ m.job \in Calls /\ m.dst \in Nodes
  BY ArrivesType DEF RecvData, Arrives, IsCopy, OneServerInv
<1>2. winner[m.job] = {m.dst}
  BY <1>1 DEF GoInv, CopiesToWinner
<1>3. /\ received' = received \cup {<<m.job, m.dst>>}
      /\ UNCHANGED <<request_id, handled, winner>>
  BY DEF RecvData, callVars
<1>4. NoNewCopy
  BY CopiesReceive DEF Receive, OneServerInv
<1>5. CopiesToWinner'
  BY <1>3, <1>4, CopiesKept DEF ChoiceKept
<1>6. /\ acc'[m.dst] = "handler" /\ cur'[m.dst] = m
      /\ \A n \in Nodes \ {m.dst} : acc'[n] = acc[n] /\ cur'[n] = cur[n]
  BY <1>1 DEF RecvData, Continue, OneServerInv, TypeOK, AcceptorTypes
<1>7. ReceivedByWinner' /\ HandlersReceived' /\ HandledReceived'
  BY <1>1, <1>2, <1>3, <1>6
     DEF GoInv, ReceivedByWinner, HandlersReceived, HandledReceived
<1>8. TakenForWinner'
  BY <1>3, <1>6 DEF GoInv, TakenForWinner, Answered, Of
<1> QED
  BY <1>1, <1>2, <1>5, <1>7, <1>8 DEF GoInv

\* The other datagrams neither choose nor deliver.
LEMMA GoReceive ==
  ASSUME OneServerInv, IdsDistinct, AskInv, GoInv, NEW m \in net, Receive(m)
  PROVE  GoInv'
<1>1. CASE RecvV(m) \/ RecvData(m)
  BY <1>1, GoRecvV, GoRecvData
<1>2. CASE RecvI(m) \/ RecvX(m) \/ RecvTruncated(m)
  <2>1. UNCHANGED <<request_id, winner, received, handled>>
    BY <1>2 DEF RecvI, RecvX, RecvTruncated, callVars, histVars
  <2>2. NoNewCopy
    BY CopiesReceive DEF OneServerInv
  <2>3. \E label \in {"recv", "x_sent"} :
          /\ acc' = [acc EXCEPT ![m.dst] = label]
          /\ \E k : cur' = [cur EXCEPT ![m.dst] = k]
    BY <1>2 DEF RecvI, RecvX, RecvTruncated, NextTurn, Continue
  <2>4. \A n \in Nodes : acc'[n] \in {"v_job", "handler"}
                           => acc'[n] = acc[n] /\ cur'[n] = cur[n]
    BY <2>3 DEF OneServerInv, TypeOK, AcceptorTypes
  <2> QED
    BY <2>1, <2>2, <2>4, GoFrame DEF IdsKept, ChoiceKept
<1> QED
  BY <1>1, <1>2 DEF Receive

\* The job that the acceptor takes is that of the call whose server answered.
LEMMA JobTaken ==
  ASSUME OneServerInv, IdsDistinct, GoInv, NEW n \in Nodes, VJob(n),
         NEW c, c = jobs[n][cur[n].id], c # NoCall
  PROVE  c \in Calls /\ Answered(c, n, cur[n]) /\ ~ JobGone(c)
<1>1. cur[n] \in Message /\ cur[n].id \in Ids /\ acc[n] = "v_job"
  BY DEF VJob, OneServerInv, TypeOK, AcceptorTypes, Busy, Message
<1>2. c \in Calls
  BY <1>1 DEF OneServerInv, TypeOK, IdMapTypes, IdMap
<1>3. Of(c, n, cur[n].id)
  BY <1>1, <1>2 DEF OneServerInv, JobsOwned, Of
<1>4. PICK d \in Calls : Answered(d, n, cur[n])
  BY <1>1 DEF GoInv, TakenForWinner
<1>5. c = d
  BY <1>1, <1>2, <1>3, <1>4 DEF Answered, Of, IdsDistinct
<1>6. ~ JobGone(c)
  BY <1>3 DEF JobGone, Of
<1> QED
  BY <1>2, <1>3, <1>4, <1>5, <1>6

\* The one new copy that the acceptor makes, if any.
LEMMA CopiesVJob ==
  ASSUME OneServerInv, NEW n \in Nodes, VJob(n)
  PROVE  /\ jobs[n][cur[n].id] = NoCall => NoNewCopy
         /\ \A k \in Message :
              IsCopy(k)' => IsCopy(k) \/ k = DataFor(cur[n], jobs[n][cur[n].id])
<1>1. tasks' = tasks
  BY DEF VJob
<1>2. net' \subseteq net \cup {DataFor(cur[n], jobs[n][cur[n].id])}
  BY DEF VJob
<1>3. jobs[n][cur[n].id] = NoCall => net' = net
  BY DEF VJob
<1>4. \A k \in Nodes :
        acc'[k] = "v_sent" => \/ acc[k] = "v_sent" /\ cur'[k] = cur[k]
                              \/ cur'[k] = DataFor(cur[n], jobs[n][cur[n].id])
  BY DEF VJob, NextTurn, Continue, OneServerInv, TypeOK, AcceptorTypes
<1>5. jobs[n][cur[n].id] = NoCall =>
        \A k \in Nodes : acc'[k] = "v_sent" => acc[k] = "v_sent" /\ cur'[k] = cur[k]
  BY DEF VJob, NextTurn, OneServerInv, TypeOK, AcceptorTypes
<1> QED
  BY <1>1, <1>2, <1>3, <1>4, <1>5 DEF IsCopy, NoNewCopy

\* The acceptor sends the job to the server that answered.
LEMMA GoVJob ==
  ASSUME OneServerInv, IdsDistinct, GoInv, NEW n \in Nodes, VJob(n)
  PROVE  GoInv'
<1> DEFINE c == jobs[n][cur[n].id]
<1>1. UNCHANGED <<request_id, winner, received, handled>>
  BY DEF VJob, callVars, histVars
<1>2. \A k \in Nodes : acc'[k] \in {"v_job", "handler"}
                         => acc'[k] = acc[k] /\ cur'[k] = cur[k]
  BY DEF VJob, NextTurn, Continue, OneServerInv, TypeOK, AcceptorTypes
<1>3. CASE c = NoCall
  BY <1>1, <1>2, <1>3, CopiesVJob, GoFrame DEF IdsKept, ChoiceKept
<1>4. CASE c # NoCall
  <2>1. winner[c] = {cur[n].src}
    BY <1>4, JobTaken DEF Answered
  <2>2. DataFor(cur[n], c).job = c /\ DataFor(cur[n], c).dst = cur[n].src
    BY DEF DataFor, Answer
  <2>3. CopiesToWinner'
    <3> SUFFICES ASSUME NEW k \in Message, IsCopy(k)'
                 PROVE  winner[k.job] = {k.dst}
      BY <1>1 DEF CopiesToWinner
    <3>1. IsCopy(k) \/ k = DataFor(cur[n], c)
      BY CopiesVJob
    <3> QED
      BY <2>1, <2>2, <3>1 DEF GoInv, CopiesToWinner
  <2>4. TakenForWinner'
    BY <1>1, <1>2 DEF GoInv, TakenForWinner, Answered, Of
  <2>5. ReceivedByWinner' /\ HandlersReceived' /\ HandledReceived'
    BY <1>1, <1>2
       DEF GoInv, ReceivedByWinner, HandlersReceived, HandledReceived
  <2> QED
    BY <2>3, <2>4, <2>5 DEF GoInv
<1> QED
  BY <1>3, <1>4

\* A handler gets a job that its node received.
LEMMA GoHandle ==
  ASSUME OneServerInv, GoInv, NEW n \in Nodes, Handle(n)
  PROVE  GoInv' /\ cur[n].job \in Calls /\ <<cur[n].job, n>> \in received
<1>1. cur[n].job \in Calls /\ <<cur[n].job, n>> \in received
  BY DEF Handle, OneServerInv, TypeOK, AcceptorTypes, GoInv, HandlersReceived
<1>2. UNCHANGED <<request_id, winner, received>>
  BY DEF Handle, callVars
<1>3. NoNewCopy
  BY CopiesStart DEF OneServerInv
<1>4. \A k \in Nodes : acc'[k] \in {"v_job", "handler"}
                         => acc'[k] = acc[k] /\ cur'[k] = cur[k]
  BY DEF Handle, NextTurn, OneServerInv, TypeOK, AcceptorTypes
<1>5. \A d \in Calls, k \in Nodes :
        handled'[d][k] = handled[d][k] \/ (d = cur[n].job /\ k = n)
  BY <1>1 DEF Handle, OneServerInv, TypeOK, HistoryTypes
<1>6. HandledReceived'
  BY <1>1, <1>2, <1>5 DEF GoInv, HandledReceived
<1>7. CopiesToWinner'
  BY <1>2, <1>3, CopiesKept DEF ChoiceKept
<1>8. TakenForWinner' /\ ReceivedByWinner' /\ HandlersReceived'
  BY <1>2, <1>4
     DEF GoInv, TakenForWinner, Answered, Of, ReceivedByWinner, HandlersReceived
<1> QED
  BY <1>1, <1>6, <1>7, <1>8 DEF GoInv

\* The acceptor's other steps send, receive and handle nothing new.
LEMMA GoAcceptor ==
  ASSUME OneServerInv, IdsDistinct, GoInv, NEW n \in Nodes,
         StartStep(n) \/ Stop(n) \/ Break(n) \/ AcceptorStep(n)
  PROVE  GoInv'
<1>1. CASE VJob(n) \/ Handle(n)
  BY <1>1, GoVJob, GoHandle
<1>2. CASE StartStep(n) \/ Stop(n) \/ Break(n) \/ VSent(n) \/ XSent(n)
  <2>1. UNCHANGED <<request_id, winner, received, handled>>
    BY <1>2
       DEF StartStep, StartBind, StartPublish, Close, Stop, Break, VSent, XSent,
           callVars, histVars
  <2>2. NoNewCopy
    BY <1>2, CopiesStart, CopiesVSent DEF OneServerInv
  <2>3. \/ UNCHANGED <<acc, cur>>
        \/ \E label \in AccStates \ {"v_job", "handler"} :
             /\ acc' = [acc EXCEPT ![n] = label]
             /\ UNCHANGED cur \/ \E m : cur' = [cur EXCEPT ![n] = m]
    BY <1>2
       DEF StartStep, StartBind, StartPublish, Close, Stop, Break, VSent, XSent,
           NextTurn, AccStates
  <2>4. \A k \in Nodes : acc'[k] \in {"v_job", "handler"}
                           => acc'[k] = acc[k] /\ cur'[k] = cur[k]
    BY <2>3 DEF OneServerInv, TypeOK, AcceptorTypes
  <2> QED
    BY <2>1, <2>2, <2>4, GoFrame DEF IdsKept, ChoiceKept
<1> QED
  BY <1>1, <1>2 DEF AcceptorStep

\* GoInv is inductive, next to AskInv.
LEMMA GoNext ==
  OneServerInv /\ IdsDistinct /\ AskInv /\ GoInv /\ [Next]_vars => GoInv'
<1> SUFFICES ASSUME OneServerInv, IdsDistinct, AskInv, GoInv, [Next]_vars
             PROVE  GoInv'
  OBVIOUS
<1>1. ASSUME NEW e, AddServer(e[1], e[2], e[3]) \/ On(e[1], e[2]) PROVE GoInv'
  BY <1>1, GoFrame, CopiesFrame
     DEF AddServer, On, accVars, callVars, histVars, IdsKept, ChoiceKept
<1>2. ASSUME NEW c \in Calls, SendLookup(c) \/ SendTick(c) \/ SendStep(c)
      PROVE  GoInv'
  BY <1>2, GoSend
<1>3. ASSUME NEW n \in Nodes,
             StartStep(n) \/ Stop(n) \/ Break(n) \/ AcceptorStep(n)
      PROVE  GoInv'
  BY <1>3, GoAcceptor
<1>4. ASSUME NEW m \in net, Receive(m) PROVE GoInv'
  BY <1>4, GoReceive
<1>5. ASSUME NEW m \in net, Lose(m) PROVE GoInv'
  <2>1. NoNewCopy
    BY <1>5 DEF Lose, accVars, NoNewCopy, IsCopy
  <2> QED
    BY <1>5, <2>1, GoFrame
       DEF Lose, accVars, callVars, histVars, IdsKept, ChoiceKept
<1>6. ASSUME NEW t \in tasks, TaskTick(t) \/ TaskEnd(t) PROVE GoInv'
  BY <1>6, CopiesTask, GoFrame
     DEF TaskTick, TaskEnd, accVars, callVars, histVars, IdsKept, ChoiceKept
<1>7. CASE UNCHANGED vars
  BY <1>7, CopiesFrame, GoFrame
     DEF vars, accVars, callVars, histVars, IdsKept, ChoiceKept
<1> QED
  BY <1>1, <1>2, <1>3, <1>4, <1>5, <1>6, <1>7 DEF Next

\* The invariants of asking and going hold throughout.
LEMMA ChooseInvariant ==
  ASSUME DistinctIds
  PROVE  Spec => [](OneServerInv /\ ConfirmInv /\ AskInv /\ GoInv)
<1>1. Init => ConfirmInv /\ AskInv /\ GoInv
  BY ConfirmInit, AskInit, GoInit
<1>2. OneServerInv /\ ConfirmInv /\ [Next]_vars => ConfirmInv'
  BY ConfirmNext
<1>3. OneServerInv /\ ConfirmInv /\ AskInv /\ [Next]_vars => AskInv'
  BY AskNext DEF ConfirmInv
<1>4. OneServerInv /\ ConfirmInv /\ AskInv /\ GoInv /\ [Next]_vars => GoInv'
  BY GoNext DEF ConfirmInv
<1> QED
  BY <1>1, <1>2, <1>3, <1>4, OneServerInvariant, PTL DEF Spec

-----------------------------------------------------------------------------
(* An unreliable job is handled once.                                      *)

\* Only reliable jobs are repeated.
RepeatedReliable ==
  /\ \A n \in Nodes : acc[n] = "v_sent" => cur[n].job \in Reliable
  /\ \A t \in tasks : t.buff.job \in Reliable

\* Where the network does not duplicate, an unreliable job is in one place: in
\* one datagram, or with the handler, or handled.
SingleCopy ==
  \A m, k \in net :
    m.prefix = "_" /\ k.prefix = "_" /\ m.job = k.job /\ m.job \notin Reliable
      => m = k /\ \A n \in Nodes : <<m.job, n>> \notin received
HandlingOnce ==
  /\ \A n \in Nodes : acc[n] = "handler" /\ cur[n].job \notin Reliable
                        => handled[cur[n].job][n] = 0
  /\ \A c \in Calls \ Reliable, n \in Nodes : handled[c][n] <= 1

OnceInv == RepeatedReliable /\ (~ Duplicating => SingleCopy /\ HandlingOnce)

\* Nothing is sent or handled at first.
LEMMA OnceInit == Init => OnceInv
BY DEF Init, OnceInv, RepeatedReliable, SingleCopy, HandlingOnce

\* A step that sends, repeats, delivers and handles nothing.
LEMMA OnceFrame ==
  ASSUME OnceInv, UNCHANGED <<received, handled>>,
         tasks' \subseteq tasks,
         \A m \in net' : m.prefix = "_" => m \in net,
         \A n \in Nodes : acc'[n] \in {"v_sent", "handler"}
                            => acc'[n] = acc[n] /\ cur'[n] = cur[n]
  PROVE  OnceInv'
<1>1. RepeatedReliable'
  BY DEF OnceInv, RepeatedReliable
<1>2. ~ Duplicating => SingleCopy'
  BY DEF OnceInv, SingleCopy
<1>3. ~ Duplicating => HandlingOnce'
  BY DEF OnceInv, HandlingOnce
<1> QED
  BY <1>1, <1>2, <1>3 DEF OnceInv

\* send() sends queries only.
LEMMA OnceSend ==
  ASSUME TypeOK, OnceInv, NEW c \in Calls,
         SendLookup(c) \/ SendTick(c) \/ SendStep(c)
  PROVE  OnceInv'
<1>1. UNCHANGED <<acc, cur, tasks, received, handled>>
  BY DEF SendLookup, SendTick, SendStep, SendSocket, SendExit, SendInsertJob,
         SendInsertDiscovery, SendInsertSent, SendInsertFinish,
         SendDiscovered, SendFinished, accVars, histVars
<1>2. \A m \in net' : m.prefix = "_" => m \in net
  <2>1. CASE SendTick(c)
    <3>1. request_id[c] \in Ids /\ targets[c] \subseteq Nodes
      BY <2>1 DEF SendTick, TypeOK, CallTypes, At, Numbered
    <3> QED
      BY <2>1, <3>1, QueriesType DEF SendTick, TypeOK
  <2>2. CASE ~ SendTick(c)
    BY <2>2
       DEF SendLookup, SendStep, SendSocket, SendExit, SendInsertJob,
           SendInsertDiscovery, SendInsertSent, SendInsertFinish,
           SendDiscovered, SendFinished
  <2> QED
    BY <2>1, <2>2
<1> QED
  BY <1>1, <1>2, OnceFrame

\* The one copy of an unreliable job is used up as it arrives.
LEMMA OnceRecvData ==
  ASSUME TypeOK, GoInv, OnceInv, NEW m \in net, RecvData(m)
  PROVE  OnceInv'
<1>1. m \in Message /\ m.job \in Calls /\ m.dst \in Nodes /\ m.prefix = "_"
  BY ArrivesType DEF RecvData
<1>2. /\ acc'[m.dst] = "handler" /\ cur'[m.dst] = m
      /\ \A n \in Nodes \ {m.dst} : acc'[n] = acc[n] /\ cur'[n] = cur[n]
  BY <1>1 DEF RecvData, Continue, TypeOK, AcceptorTypes
<1>3. /\ received' = received \cup {<<m.job, m.dst>>}
      /\ UNCHANGED <<tasks, handled>>
  BY DEF RecvData
<1>4. RepeatedReliable'
  BY <1>2, <1>3 DEF OnceInv, RepeatedReliable
<1>5. ASSUME ~ Duplicating PROVE SingleCopy' /\ HandlingOnce'
  <2>1. /\ SingleCopy /\ HandlingOnce
    BY <1>5 DEF OnceInv
  <2>2. \A k \in net' : k.prefix = "_" => k \in net /\ k # m
    <3>1. net' \subseteq (net \ {m}) \cup {Answer(m, "x", NoCall)}
      BY <1>5 DEF RecvData, Delivered, Confirmation
    <3>2. Answer(m, "x", NoCall).prefix = "x"
      BY DEF Answer
    <3> QED
      BY <3>1, <3>2
  <2>3. \A k \in net' : k.prefix = "_" /\ k.job \notin Reliable => k.job # m.job
    BY <1>1, <2>1, <2>2 DEF SingleCopy
  <2>4. SingleCopy'
    BY <1>3, <2>1, <2>2, <2>3 DEF SingleCopy
  <2>5. m.job \notin Reliable => <<m.job, m.dst>> \notin received
    BY <1>1, <2>1 DEF SingleCopy
  <2>6. m.job \notin Reliable => handled[m.job][m.dst] = 0
    <3>1. handled[m.job][m.dst] \in 0 .. HandledCap
      BY <1>1 DEF TypeOK, HistoryTypes
    <3>2. handled[m.job][m.dst] > 0 => <<m.job, m.dst>> \in received
      BY <1>1 DEF GoInv, HandledReceived
    <3> QED
      BY <2>5, <3>1, <3>2 DEF HandledCap
  <2>7. HandlingOnce'
    BY <1>2, <1>3, <2>1, <2>6 DEF HandlingOnce
  <2> QED
    BY <2>4, <2>7
<1> QED
  BY <1>4, <1>5 DEF OnceInv

\* Other datagrams carry no job.
LEMMA OnceReceive ==
  ASSUME TypeOK, GoInv, OnceInv, NEW m \in net, Receive(m)
  PROVE  OnceInv'
<1>1. CASE RecvData(m)
  BY <1>1, OnceRecvData
<1>2. CASE RecvI(m) \/ RecvV(m) \/ RecvX(m) \/ RecvTruncated(m)
  <2>1. UNCHANGED <<tasks, received, handled>>
    BY <1>2 DEF RecvI, RecvV, RecvX, RecvTruncated, histVars
  <2>2. net' \subseteq net \cup {Answer(m, "v", NoCall)}
    BY <1>2 DEF RecvI, RecvV, RecvX, RecvTruncated, Delivered
  <2>3. Answer(m, "v", NoCall).prefix = "v"
    BY DEF Answer
  <2>4. \E label \in {"recv", "v_job", "x_sent"} :
          /\ acc' = [acc EXCEPT ![m.dst] = label]
          /\ \E k : cur' = [cur EXCEPT ![m.dst] = k]
    BY <1>2 DEF RecvI, RecvV, RecvX, RecvTruncated, NextTurn, Continue
  <2>5. \A n \in Nodes : acc'[n] \in {"v_sent", "handler"}
                           => acc'[n] = acc[n] /\ cur'[n] = cur[n]
    BY <2>4 DEF TypeOK, AcceptorTypes
  <2> QED
    BY <2>1, <2>2, <2>3, <2>5, OnceFrame
<1> QED
  BY <1>1, <1>2 DEF Receive

\* The acceptor sends an unreliable job once, and repeats a reliable one only.
LEMMA OnceVJob ==
  ASSUME OneServerInv, IdsDistinct, GoInv, OnceInv, NEW n \in Nodes, VJob(n)
  PROVE  OnceInv'
<1> DEFINE c == jobs[n][cur[n].id]
           d == DataFor(cur[n], c)
<1>1. UNCHANGED <<tasks, received, handled>>
  BY DEF VJob, histVars
<1>2. \A k \in Nodes : acc'[k] \in {"v_sent", "handler"}
                         => \/ acc'[k] = acc[k] /\ cur'[k] = cur[k]
                            \/ /\ acc'[k] = "v_sent" /\ cur'[k] = d
                               /\ c # NoCall /\ cur[n].reliable
  BY DEF VJob, NextTurn, Continue, OneServerInv, TypeOK, AcceptorTypes
<1>3. net' = net \/ (net' = net \cup {d} /\ c # NoCall)
  BY DEF VJob
<1>4. CASE c = NoCall
  BY <1>1, <1>2, <1>3, <1>4, OnceFrame
<1>5. CASE c # NoCall
  <2>1. c \in Calls /\ Answered(c, n, cur[n]) /\ ~ JobGone(c)
    BY <1>5, JobTaken
  <2>2. d.job = c /\ d.prefix = "_"
    BY DEF DataFor, Answer
  <2>3. cur[n].reliable => c \in Reliable
    BY <2>1 DEF Answered
  <2>4. RepeatedReliable'
    BY <1>1, <1>2, <2>2, <2>3 DEF OnceInv, RepeatedReliable
  <2>5. \A k \in net : k.prefix = "_" => k.job # c
    BY <2>1 DEF OneServerInv, CopiesOwned, IsCopy, TypeOK, NetTypes
  <2>6. \A k \in Nodes : <<c, k>> \notin received
    BY <2>1 DEF OneServerInv, ReceivedAgree
  <2> HIDE DEF c, d
  <2>7. SingleCopy => SingleCopy'
    BY <1>1, <1>3, <2>2, <2>5, <2>6 DEF SingleCopy
  <2>8. HandlingOnce => HandlingOnce'
    BY <1>1, <1>2 DEF HandlingOnce
  <2> QED
    BY <2>4, <2>7, <2>8 DEF OnceInv
<1> QED
  BY <1>4, <1>5

\* A task takes over a reliable job.
LEMMA OnceVSent ==
  ASSUME TypeOK, OnceInv, NEW n \in Nodes, VSent(n)
  PROVE  OnceInv'
<1>1. /\ UNCHANGED <<net, received, handled>> /\ acc[n] = "v_sent"
      /\ \A t \in tasks' : t \in tasks \/ t.buff = cur[n]
  BY DEF VSent, histVars
<1>2. \A k \in Nodes : acc'[k] \in {"v_sent", "handler"}
                         => acc'[k] = acc[k] /\ cur'[k] = cur[k]
  BY DEF VSent, NextTurn, TypeOK, AcceptorTypes
<1>3. RepeatedReliable'
  BY <1>1, <1>2 DEF OnceInv, RepeatedReliable
<1>4. SingleCopy => SingleCopy'
  BY <1>1 DEF SingleCopy
<1>5. HandlingOnce => HandlingOnce'
  BY <1>1, <1>2 DEF HandlingOnce
<1> QED
  BY <1>3, <1>4, <1>5 DEF OnceInv

\* The handler gets the job that its node has just received.
LEMMA OnceHandle ==
  ASSUME TypeOK, OnceInv, NEW n \in Nodes, Handle(n)
  PROVE  OnceInv'
<1>1. UNCHANGED <<net, tasks, received>> /\ acc[n] = "handler" /\ cur[n].job \in Calls
  BY DEF Handle, TypeOK, AcceptorTypes
<1>2. /\ acc'[n] = "recv"
      /\ \A k \in Nodes \ {n} : acc'[k] = acc[k] /\ cur'[k] = cur[k]
  BY DEF Handle, NextTurn, TypeOK, AcceptorTypes
<1>3. RepeatedReliable'
  BY <1>1, <1>2 DEF OnceInv, RepeatedReliable
<1>4. SingleCopy => SingleCopy'
  BY <1>1 DEF SingleCopy
<1>5. ASSUME HandlingOnce PROVE HandlingOnce'
  <2>1. \A c \in Calls, k \in Nodes :
          handled'[c][k] = handled[c][k] \/ (c = cur[n].job /\ k = n)
    BY <1>1 DEF Handle, TypeOK, HistoryTypes
  <2>2. cur[n].job \notin Reliable => handled'[cur[n].job][n] <= 1
    BY <1>1, <1>5 DEF Handle, HandlingOnce, TypeOK, HistoryTypes
  <2>3. \A k \in Nodes : acc[k] = "handler" => cur[k].job \in Calls
    BY DEF TypeOK, AcceptorTypes
  <2> QED
    BY <1>2, <1>5, <2>1, <2>2, <2>3 DEF HandlingOnce
<1> QED
  BY <1>3, <1>4, <1>5 DEF OnceInv

\* The acceptor's other steps send, receive and handle nothing.
LEMMA OnceAcceptor ==
  ASSUME OneServerInv, IdsDistinct, GoInv, OnceInv, NEW n \in Nodes,
         StartStep(n) \/ Stop(n) \/ Break(n) \/ AcceptorStep(n)
  PROVE  OnceInv'
<1>1. CASE VJob(n) \/ VSent(n) \/ Handle(n)
  BY <1>1, OnceVJob, OnceVSent, OnceHandle DEF OneServerInv
<1>2. CASE StartStep(n) \/ Stop(n) \/ Break(n) \/ XSent(n)
  <2>1. UNCHANGED <<net, tasks, received, handled>>
    BY <1>2
       DEF StartStep, StartBind, StartPublish, Close, Stop, Break, XSent, histVars
  <2>2. \/ UNCHANGED <<acc, cur>>
        \/ \E label \in {"bound", "recv", "closing", "off"} :
             /\ acc' = [acc EXCEPT ![n] = label]
             /\ UNCHANGED cur \/ \E m : cur' = [cur EXCEPT ![n] = m]
    BY <1>2
       DEF StartStep, StartBind, StartPublish, Close, Stop, Break, XSent, NextTurn
  <2>3. \A k \in Nodes : acc'[k] \in {"v_sent", "handler"}
                           => acc'[k] = acc[k] /\ cur'[k] = cur[k]
    BY <2>2 DEF OneServerInv, TypeOK, AcceptorTypes
  <2> QED
    BY <2>1, <2>3, OnceFrame
<1> QED
  BY <1>1, <1>2 DEF AcceptorStep

\* A task repeats a reliable job.
LEMMA OnceTask ==
  ASSUME OnceInv, NEW t \in tasks, TaskTick(t) \/ TaskEnd(t)
  PROVE  OnceInv'
<1>1. UNCHANGED <<acc, cur, received, handled>> /\ tasks' \subseteq tasks
  BY DEF TaskTick, TaskEnd, accVars, histVars
<1>2. net' \subseteq net \cup {t.buff} /\ t.buff.job \in Reliable
  BY DEF TaskTick, TaskEnd, OnceInv, RepeatedReliable
<1>3. RepeatedReliable'
  BY <1>1 DEF OnceInv, RepeatedReliable
<1>4. SingleCopy => SingleCopy'
  BY <1>1, <1>2 DEF SingleCopy
<1>5. HandlingOnce => HandlingOnce'
  BY <1>1 DEF HandlingOnce
<1> QED
  BY <1>3, <1>4, <1>5 DEF OnceInv

\* OnceInv is inductive, next to GoInv.
LEMMA OnceNext ==
  OneServerInv /\ IdsDistinct /\ GoInv /\ OnceInv /\ [Next]_vars => OnceInv'
<1> SUFFICES ASSUME OneServerInv, IdsDistinct, GoInv, OnceInv, [Next]_vars
             PROVE  OnceInv'
  OBVIOUS
<1>1. ASSUME NEW e, AddServer(e[1], e[2], e[3]) \/ On(e[1], e[2]) PROVE OnceInv'
  BY <1>1, OnceFrame DEF AddServer, On, accVars, histVars
<1>2. ASSUME NEW c \in Calls, SendLookup(c) \/ SendTick(c) \/ SendStep(c)
      PROVE  OnceInv'
  BY <1>2, OnceSend DEF OneServerInv
<1>3. ASSUME NEW n \in Nodes,
             StartStep(n) \/ Stop(n) \/ Break(n) \/ AcceptorStep(n)
      PROVE  OnceInv'
  BY <1>3, OnceAcceptor
<1>4. ASSUME NEW m \in net, Receive(m) PROVE OnceInv'
  BY <1>4, OnceReceive DEF OneServerInv
<1>5. ASSUME NEW m \in net, Lose(m) PROVE OnceInv'
  BY <1>5, OnceFrame DEF Lose, accVars, histVars
<1>6. ASSUME NEW t \in tasks, TaskTick(t) \/ TaskEnd(t) PROVE OnceInv'
  BY <1>6, OnceTask
<1>7. CASE UNCHANGED vars
  BY <1>7, OnceFrame DEF vars, accVars, histVars
<1> QED
  BY <1>1, <1>2, <1>3, <1>4, <1>5, <1>6, <1>7 DEF Next

\* Next to the invariants of asking and going, OnceInv holds throughout.
LEMMA OnceInvariant ==
  ASSUME DistinctIds
  PROVE  Spec => [](OneServerInv /\ ConfirmInv /\ AskInv /\ GoInv /\ OnceInv)
<1>1. Spec => [](OneServerInv /\ ConfirmInv /\ AskInv /\ GoInv)
  BY ChooseInvariant
<1>2. OneServerInv /\ ConfirmInv /\ GoInv /\ OnceInv /\ [Next]_vars => OnceInv'
  BY OnceNext DEF ConfirmInv
<1> QED
  BY <1>1, <1>2, OnceInit, PTL DEF Spec

\* Where UDP does not duplicate and the clock never gives a node the same id
\* twice, an unreliable job is handled at most once and by one node: the query
\* may be repeated and answered again and again, the job leaves jobs once.
THEOREM UnreliableJobOnce == DistinctIds => (Spec => []UnreliableOnce)
<1> SUFFICES ASSUME DistinctIds PROVE Spec => []UnreliableOnce
  OBVIOUS
<1>1. OneServerInv /\ GoInv /\ OnceInv => UnreliableOnce
  <2> SUFFICES ASSUME OneServerInv, GoInv, OnceInv, ~ Duplicating,
                      NEW c \in Calls \ Reliable, NEW n \in Nodes
               PROVE  /\ handled[c][n] <= 1
                      /\ handled[c][n] = 1 =>
                           \A m \in Nodes \ {n} : handled[c][m] = 0
    BY DEF UnreliableOnce
  <2>1. handled[c][n] <= 1
    BY DEF OnceInv, HandlingOnce
  <2>2. ASSUME handled[c][n] = 1, NEW m \in Nodes \ {n} PROVE handled[c][m] = 0
    <3>1. <<c, n>> \in received
      BY <2>2 DEF GoInv, HandledReceived
    <3>2. <<c, m>> \notin received
      BY <3>1 DEF OneServerInv, OneServer
    <3> QED
      BY <3>2 DEF GoInv, HandledReceived, OneServerInv, TypeOK, HistoryTypes
  <2> QED
    BY <2>1, <2>2
<1> QED
  BY <1>1, OnceInvariant, PTL

-----------------------------------------------------------------------------
(* Every step of UMQT is a step of Delivery, or none.                      *)

\* The initial states of UMQT are initial states of Delivery.
LEMMA PromiseInit == Init => Promise!Init
BY DEF Init, Promise!Init

\* A step that Delivery does not see.
LEMMA PromiseStutter ==
  ASSUME UNCHANGED <<targets, winner, received, handled>>,
         \A c \in Calls : pc'[c] = "returned" <=> pc[c] = "returned"
  PROVE  UNCHANGED Promise!vars
BY DEF Promise!vars

\* What send() does is to ask and to return, and it returns when it may.
LEMMA PromiseSend ==
  ASSUME OneServerInv, ConfirmInv, AskInv, GoInv, NEW c \in Calls,
         SendLookup(c) \/ SendTick(c) \/ SendStep(c)
  PROVE  [Promise!Next]_Promise!vars
<1>1. pc \in [Calls -> PCs]
  BY DEF OneServerInv, TypeOK, CallTypes
<1>2. CASE SendLookup(c)
  <2> DEFINE servers == topic_servers[NodeOf[c]][TopicOf[c]]
  <2>1. servers \in SUBSET Nodes
    BY ServersType DEF OneServerInv, TypeOK
  <2>2. targets[c] = {}
    BY <1>2 DEF SendLookup, At, AskInv, IdleAsksNobody
  <2>3. /\ targets' = [targets EXCEPT ![c] = servers]
        /\ UNCHANGED <<winner, received, handled>>
    BY <1>2 DEF SendLookup, histVars
  <2>4. \A d \in Calls : pc'[d] = "returned" <=> pc[d] = "returned"
    BY <1>1, <1>2 DEF SendLookup, At, Goto
  <2>5. Promise!Ask(c, servers)
    BY <2>1, <2>2, <2>3, <2>4 DEF Promise!Ask
  <2> QED
    BY <2>1, <2>5 DEF Promise!Next
<1>3. CASE SendFinished(c) \/ (SendDiscovered(c) /\ c \notin Reliable)
  <2>1. UNCHANGED <<targets, winner, received, handled>>
    BY <1>3 DEF SendFinished, SendDiscovered, histVars
  <2>2. pc[c] # "returned" /\ pc' = [pc EXCEPT ![c] = "returned"]
    BY <1>3 DEF SendFinished, SendDiscovered, At, Goto, AfterDiscovery
  <2>3. {d \in Calls : pc'[d] = "returned"} =
          {d \in Calls : pc[d] = "returned"} \cup {c}
    BY <1>1, <2>2
  <2>4. winner[c] # {} /\ winner[c] \subseteq Nodes
    BY <1>3
       DEF SendFinished, SendDiscovered, At, AskInv, DiscoveredChosen,
           ReturnedChosen, OneServerInv, TypeOK, HistoryTypes
  <2>5. \E n \in winner[c] : c \in Reliable => <<c, n>> \in received
    <3>1. CASE SendFinished(c)
      <4>1. Reached(c)
        BY <3>1 DEF SendFinished, ConfirmInv, FinishConfirmed
      <4> QED
        BY <4>1 DEF Reached, GoInv, ReceivedByWinner
    <3>2. CASE c \notin Reliable
      BY <2>4, <3>2
    <3> QED
      BY <1>3, <3>1, <3>2
  <2>6. Promise!Return(c)
    BY <2>1, <2>2, <2>3, <2>5 DEF Promise!Return
  <2> QED
    BY <2>6 DEF Promise!Next
<1>4. CASE \/ SendTick(c) \/ SendSocket(c) \/ SendExit(c) \/ SendInsertJob(c)
           \/ SendInsertDiscovery(c) \/ SendInsertSent(c)
           \/ SendInsertFinish(c) \/ (SendDiscovered(c) /\ c \in Reliable)
  <2>1. UNCHANGED <<targets, winner, received, handled>>
    BY <1>4
       DEF SendTick, SendSocket, SendExit, SendInsertJob, SendInsertDiscovery,
           SendInsertSent, SendInsertFinish, SendDiscovered, callVars, histVars
  <2>2. \A d \in Calls : pc'[d] = "returned" <=> pc[d] = "returned"
    BY <1>1, <1>4
       DEF SendTick, SendSocket, SendExit, SendInsertJob, SendInsertDiscovery,
           SendInsertSent, SendInsertFinish, SendDiscovered, At, Goto,
           AfterInsertDiscovery, AfterDiscovery, callVars
  <2> QED
    BY <2>1, <2>2, PromiseStutter
<1> QED
  BY <1>2, <1>3, <1>4 DEF SendStep

\* The first answer chooses, a job arrives; the rest is not seen.
LEMMA PromiseReceive ==
  ASSUME OneServerInv, ConfirmInv, AskInv, GoInv, NEW m \in net, Receive(m)
  PROVE  [Promise!Next]_Promise!vars
<1>1. pc' = pc /\ targets' = targets
  BY DEF Receive, RecvI, RecvV, RecvX, RecvData, RecvTruncated, callVars
<1>2. CASE RecvV(m) /\ notify_discovery[m.dst][m.id] # NoCall
  <2>1. PICK c : c = notify_discovery[m.dst][m.id]
    OBVIOUS
  <2>2. c \in Calls /\ winner[c] = {} /\ m.src \in targets[c]
    BY <1>2, <2>1, ChosenAnswer DEF OneServerInv, ConfirmInv
  <2>3. m.src \in Nodes
    BY <1>2, ArrivesType DEF RecvV, OneServerInv
  <2>4. /\ winner' = [winner EXCEPT ![c] = {m.src}]
        /\ UNCHANGED <<received, handled>>
    BY <1>2, <2>1 DEF RecvV
  <2>5. Promise!Choose(c, m.src)
    BY <1>1, <2>2, <2>4 DEF Promise!Choose
  <2> QED
    BY <2>2, <2>3, <2>5 DEF Promise!Next
<1>3. CASE RecvData(m)
  <2>1. m.job \in Calls /\ m.dst \in Nodes /\ winner[m.job] = {m.dst}
    BY <1>3, GoRecvData
  <2>2. /\ received' = received \cup {<<m.job, m.dst>>}
        /\ UNCHANGED <<handled, winner>>
    BY <1>3 DEF RecvData
  <2>3. Promise!Arrive(m.job, m.dst)
    BY <1>1, <2>1, <2>2 DEF Promise!Arrive
  <2> QED
    BY <2>1, <2>3 DEF Promise!Next
<1>4. CASE \/ RecvI(m) \/ RecvX(m) \/ RecvTruncated(m)
           \/ (RecvV(m) /\ notify_discovery[m.dst][m.id] = NoCall)
  <2>1. UNCHANGED <<winner, received, handled>>
    BY <1>4 DEF RecvI, RecvV, RecvX, RecvTruncated, histVars
  <2> QED
    BY <1>1, <2>1, PromiseStutter
<1> QED
  BY <1>2, <1>3, <1>4 DEF Receive

\* A handler that gets a job, while its counter has room, is Delivery's.
LEMMA PromiseHandle ==
  ASSUME OneServerInv, GoInv, OnceInv, NEW n \in Nodes, Handle(n)
  PROVE  [Promise!Next]_Promise!vars
<1> DEFINE c == cur[n].job
<1>1. c \in Calls /\ <<c, n>> \in received
  BY GoHandle
<1>2. UNCHANGED <<pc, targets, winner, received>>
  BY DEF Handle, callVars
<1>3. acc[n] = "handler"
  BY DEF Handle
<1>4. CASE cur[n].topic \in consumers[n] /\ handled[c][n] < HandledCap
  <2>1. handled' = [handled EXCEPT ![c][n] = @ + 1]
    BY <1>4 DEF Handle
  <2>2. c \in Reliable \/ Duplicating \/ handled[c][n] = 0
    BY <1>1, <1>3 DEF OnceInv, HandlingOnce
  <2> HIDE DEF c
  <2>3. Promise!Handle(c, n)
    BY <1>1, <1>2, <1>4, <2>1, <2>2 DEF Promise!Handle
  <2> QED
    BY <1>1, <2>3 DEF Promise!Next
<1>5. CASE ~ (cur[n].topic \in consumers[n] /\ handled[c][n] < HandledCap)
  <2>1. handled' = [handled EXCEPT ![c][n] = handled[c][n]]
    BY <1>5 DEF Handle
  <2>2. handled' = handled
    BY <1>1, <2>1 DEF OneServerInv, TypeOK, HistoryTypes
  <2> QED
    BY <1>2, <2>2, PromiseStutter
<1> QED
  BY <1>4, <1>5

\* Every step of UMQT maps to a step of Delivery or to none.
LEMMA PromiseNext ==
  OneServerInv /\ ConfirmInv /\ AskInv /\ GoInv /\ OnceInv /\ [Next]_vars
    => [Promise!Next]_Promise!vars
<1> SUFFICES ASSUME OneServerInv, ConfirmInv, AskInv, GoInv, OnceInv, [Next]_vars
             PROVE  [Promise!Next]_Promise!vars
  OBVIOUS
<1>1. ASSUME NEW e, AddServer(e[1], e[2], e[3]) \/ On(e[1], e[2])
      PROVE  [Promise!Next]_Promise!vars
  BY <1>1, PromiseStutter DEF AddServer, On, callVars, histVars
<1>2. ASSUME NEW c \in Calls, SendLookup(c) \/ SendTick(c) \/ SendStep(c)
      PROVE  [Promise!Next]_Promise!vars
  BY <1>2, PromiseSend
<1>3. ASSUME NEW n \in Nodes, Handle(n) PROVE [Promise!Next]_Promise!vars
  BY <1>3, PromiseHandle
<1>4. ASSUME NEW n \in Nodes,
             StartStep(n) \/ Stop(n) \/ Break(n) \/ VJob(n) \/ VSent(n) \/ XSent(n)
      PROVE  [Promise!Next]_Promise!vars
  <2>1. UNCHANGED <<pc, targets, winner, received, handled>>
    BY <1>4
       DEF StartStep, StartBind, StartPublish, Close, Stop, Break, VJob, VSent,
           XSent, callVars, histVars
  <2> QED
    BY <2>1, PromiseStutter
<1>5. ASSUME NEW m \in net, Receive(m) PROVE [Promise!Next]_Promise!vars
  BY <1>5, PromiseReceive
<1>6. ASSUME NEW m \in net, Lose(m) PROVE [Promise!Next]_Promise!vars
  BY <1>6, PromiseStutter DEF Lose, callVars, histVars
<1>7. ASSUME NEW t \in tasks, TaskTick(t) \/ TaskEnd(t)
      PROVE  [Promise!Next]_Promise!vars
  BY <1>7, PromiseStutter DEF TaskTick, TaskEnd, callVars, histVars
<1>8. CASE UNCHANGED vars
  BY <1>8, PromiseStutter DEF vars, callVars, histVars
<1> QED
  BY <1>1, <1>2, <1>3, <1>4, <1>5, <1>6, <1>7, <1>8 DEF Next, AcceptorStep

\* Where the clock never gives a node the same id twice, the transport with its
\* queries, answers, confirmations, maps, tasks, losses, restarts and duplicates
\* implements what Delivery promises of a call of send().
THEOREM UMQTImplementsDelivery == DistinctIds => (Spec => Delivers)
<1> SUFFICES ASSUME DistinctIds PROVE Spec => Delivers
  OBVIOUS
<1>1. Init => Promise!Init
  BY PromiseInit
<1>2. OneServerInv /\ ConfirmInv /\ AskInv /\ GoInv /\ OnceInv /\ [Next]_vars
        => [Promise!Next]_Promise!vars
  BY PromiseNext
<1>3. Spec => [](OneServerInv /\ ConfirmInv /\ AskInv /\ GoInv /\ OnceInv)
  BY OnceInvariant
<1> QED
  BY <1>1, <1>2, <1>3, PTL DEF Spec, Delivers, Promise!Spec
=============================================================================
