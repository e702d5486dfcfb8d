------------------------- MODULE UMQT_waiting_proofs -------------------------
(***************************************************************************)
(* No call of send() is stranded, and none leaves anything behind: what    *)
(* the maps, the permits, the acceptor and the tasks hold for a call at    *)
(* each point of its life.                                                 *)
(***************************************************************************)
EXTENDS UMQT_refinement_proofs

\* Call c has its id, and map holds it under that id.
In(map, c) == request_id[c] \in Ids /\ InMap(map, c)

\* What is in notify_sent and notify_finish is a reliable call that put it there.
SentOwned ==
  \A n \in Nodes, i \in Ids :
    notify_sent[n][i] \in Calls =>
      /\ Of(notify_sent[n][i], n, i) /\ notify_sent[n][i] \in Reliable
      /\ pc[notify_sent[n][i]] \in {"insert_finish"} \cup Registered
FinishRegistered ==
  \A n \in Nodes, i \in Ids :
    notify_finish[n][i] \in Calls =>
      notify_finish[n][i] \in Reliable /\ pc[notify_finish[n][i]] \in Registered

\* Until its server is chosen a call is in notify_discovery and in jobs; until
\* its job is confirmed a reliable call is in notify_finish, and while it is it
\* is in notify_sent. What is taken out of a Notify's map wakes the call.
Discovering(c) ==
  /\ pc[c] \in Asking /\ winner[c] = {} => In(notify_discovery, c)
  /\ pc[c] \in Numbered /\ winner[c] = {} => In(jobs, c)
  /\ pc[c] = "discover" /\ winner[c] # {} => <<"discovery", c>> \in permits
Confirming(c) ==
  /\ pc[c] \in {"insert_sent", "insert_finish", "await"} => c \in Reliable
  /\ pc[c] \in {"discover", "await"} /\ c \in Reliable =>
       In(notify_finish, c) \/ <<"finish", c>> \in permits
  /\ pc[c] = "returned" \/ <<"finish", c>> \in permits \/ <<"sent", c>> \in permits
       => pc[c] \in Registered /\ ~ In(notify_finish, c)
  /\ pc[c] = "insert_finish" \/ In(notify_finish, c) => In(notify_sent, c)
Kept(c) == Discovering(c) /\ Confirming(c)

\* The acceptor goes for a job that is there, with a copy of its own node's, and
\* forgets a transmission that is confirmed.
Consistent(n) ==
  /\ acc[n] = "v_job" => \E c \in Calls : Answered(c, n, cur[n]) /\ In(jobs, c)
  /\ acc[n] = "v_sent" => cur[n].src = n
  /\ acc[n] = "x_sent" =>
       \E c \in Calls : /\ Of(c, n, cur[n].id) /\ pc[c] \in Registered
                        /\ ~ In(notify_finish, c)

\* A task repeats the job of the call that ends it, which it can, and no other
\* task or acceptor has that job.
TasksOwned ==
  \A t \in tasks :
    /\ t.notify = t.buff.job
    /\ In(notify_sent, t.notify) \/ <<"sent", t.notify>> \in permits
    /\ \A u \in tasks : t.buff.job = u.buff.job => t = u
    /\ \A n \in Nodes : acc[n] = "v_sent" => cur[n].job # t.buff.job

\* The acceptor of a call that is not disturbed works on the id of the call.
WorksOn(c, labels) ==
  acc[NodeOf[c]] \in labels /\ cur[NodeOf[c]].id = request_id[c]

\* stop() alone shuts an acceptor down. Where nobody calls it: a job whose server
\* is chosen is being taken, a reliable one is about to be or is repeated until
\* it is confirmed, and a confirmed one is being forgotten.
StoppedByStop == \A n \in Nodes : shutdown[n] => stops[n] > 0
Carried(c) ==
  /\ winner[c] # {} /\ In(jobs, c) => WorksOn(c, {"v_job"})
  /\ winner[c] # {} /\ In(notify_finish, c) =>
       \/ WorksOn(c, {"v_job", "v_sent"})
       \/ \E t \in tasks : t.notify = c
  /\ pc[c] \in Registered /\ In(notify_sent, c) /\ ~ In(notify_finish, c) =>
       WorksOn(c, {"x_sent"})

WaitInv ==
  /\ SentOwned /\ FinishRegistered /\ \A c \in Calls : Kept(c)
  /\ TasksOwned /\ \A n \in Nodes : Consistent(n)
  /\ StoppedByStop /\ \A c \in Undisturbed : Carried(c)

\* What the earlier invariants say.
Base == OneServerInv /\ ConfirmInv /\ AskInv /\ GoInv

-----------------------------------------------------------------------------
(* What a call sees of the maps and the permits.                           *)

\* A call that takes its id's place in a map is in it, and pushes no other out.
LEMMA InsertIn ==
  ASSUME TypeOK, IdsDistinct, NEW map \in IdMap, NEW c \in Calls,
         request_id[c] \in Ids, NEW d \in Calls
  PROVE  In(Insert(map, NodeOf[c], request_id[c], c), d) <=> d = c \/ In(map, d)
<1>1. NodeOf[c] \in Nodes /\ NodeOf[d] \in Nodes
  BY CallsAssumption
<1>2. CASE NodeOf[d] = NodeOf[c] /\ request_id[d] = request_id[c]
  BY <1>1, <1>2 DEF In, InMap, Insert, IdMap, IdsDistinct
<1>3. CASE NodeOf[d] # NodeOf[c] \/ request_id[d] # request_id[c]
  BY <1>1, <1>3 DEF In, InMap, Insert, IdMap
<1> QED
  BY <1>2, <1>3

\* An entry that is taken out is that of one id of one node.
LEMMA RemoveIn ==
  ASSUME NEW map \in IdMap, NEW n \in Nodes, NEW i \in Ids, NEW d \in Calls
  PROVE  In(Remove(map, n, i), d) <=> In(map, d) /\ ~ Of(d, n, i)
<1>1. NodeOf[d] \in Nodes /\ d # NoCall
  BY CallsAssumption
<1>2. CASE Of(d, n, i)
  BY <1>1, <1>2 DEF In, InMap, Remove, IdMap, Of
<1>3. CASE ~ Of(d, n, i)
  BY <1>1, <1>3 DEF In, InMap, Remove, IdMap, Of
<1> QED
  BY <1>2, <1>3

SamePermits(c) ==
  /\ <<"discovery", c>> \in permits' <=> <<"discovery", c>> \in permits
  /\ <<"sent", c>> \in permits' <=> <<"sent", c>> \in permits
  /\ <<"finish", c>> \in permits' <=> <<"finish", c>> \in permits
SameMaps(c) ==
  /\ In(jobs, c)' <=> In(jobs, c)
  /\ In(notify_discovery, c)' <=> In(notify_discovery, c)
  /\ In(notify_sent, c)' <=> In(notify_sent, c)
  /\ In(notify_finish, c)' <=> In(notify_finish, c)
\* A step that changes nothing for call c.
SameView(c) ==
  /\ pc'[c] = pc[c] /\ request_id'[c] = request_id[c] /\ winner'[c] = winner[c]
  /\ SamePermits(c) /\ SameMaps(c)

\* A step that changes no map, permit or call changes nothing for any call.
LEMMA ViewSame ==
  ASSUME UNCHANGED <<pc, request_id, winner, mapVars, permits>>, NEW c \in Calls
  PROVE  SameView(c)
BY DEF SameView, SamePermits, SameMaps, In, InMap, mapVars

\* A call for which nothing changes is kept.
LEMMA KeptFrame ==
  ASSUME NEW c \in Calls, Kept(c), SameView(c)
  PROVE  Kept(c)'
BY DEF Kept, Discovering, Confirming, SameView, SamePermits, SameMaps

\* A step that keeps what the acceptor of the node of c may rely on.
Steady(c) ==
  /\ request_id[c] \in Ids => request_id'[c] = request_id[c]
  /\ winner[c] # {} => winner'[c] = winner[c]
  /\ In(jobs, c) => In(jobs, c)'
  /\ pc[c] \in Registered =>
       pc'[c] \in Registered /\ (In(notify_finish, c)' => In(notify_finish, c))

\* Nothing changing is steady.
LEMMA SteadyFrame ==
  ASSUME NEW c \in Calls, SameView(c)
  PROVE  Steady(c)
BY DEF Steady, SameView, SameMaps

\* The states of the acceptor that go on with a call.
Work == {"v_job", "v_sent", "x_sent"}
SameWork(n) == acc'[n] = acc[n] /\ cur'[n] = cur[n]

\* An acceptor whose calls are steady stays consistent, or leaves its work.
LEMMA ConsistentFrame ==
  ASSUME TypeOK, NEW n \in Nodes, Consistent(n),
         SameWork(n) \/ acc'[n] \notin Work,
         \A c \in Calls : NodeOf[c] = n => Steady(c)
  PROVE  Consistent(n)'
<1>1. CASE acc'[n] \notin Work
  BY <1>1 DEF Work, Consistent
<1>2. CASE SameWork(n) /\ acc[n] = "v_sent"
  BY <1>2 DEF SameWork, Consistent
<1>3. CASE SameWork(n) /\ acc[n] \in {"v_job", "x_sent"}
  <2>1. cur[n].id \in Ids
    BY <1>3 DEF TypeOK, AcceptorTypes, Busy, Message
  <2>2. CASE acc[n] = "v_job"
    <3>1. PICK c \in Calls : Answered(c, n, cur[n]) /\ In(jobs, c)
      BY <2>2 DEF Consistent
    <3>2. Steady(c)
      BY <3>1 DEF Answered, Of
    <3>3. In(jobs, c)' /\ request_id'[c] = request_id[c] /\ winner'[c] = winner[c]
      BY <2>1, <3>1, <3>2 DEF Steady, Answered, Of
    <3>4. Answered(c, n, cur[n])'
      BY <1>3, <3>1, <3>3 DEF Answered, Of, SameWork
    <3> QED
      BY <1>3, <2>2, <3>3, <3>4 DEF Consistent, SameWork
  <2>3. CASE acc[n] = "x_sent"
    <3>1. PICK c \in Calls : /\ Of(c, n, cur[n].id) /\ pc[c] \in Registered
                             /\ ~ In(notify_finish, c)
      BY <2>3 DEF Consistent
    <3>2. Steady(c)
      BY <3>1 DEF Of
    <3>3. /\ request_id'[c] = request_id[c] /\ pc'[c] \in Registered
          /\ ~ In(notify_finish, c)'
      BY <2>1, <3>1, <3>2 DEF Steady, Of
    <3>4. Of(c, n, cur[n].id)'
      BY <1>3, <3>1, <3>3 DEF Of, SameWork
    <3> QED
      BY <1>3, <2>3, <3>3, <3>4 DEF Consistent, SameWork
  <2> QED
    BY <1>3, <2>2, <2>3
<1> QED
  BY <1>1, <1>2, <1>3 DEF SameWork, Work

\* An acceptor that has no work for the call, or the same, carries it as before.
LEMMA CarriedFrame ==
  ASSUME NEW c \in Calls, Carried(c), SameView(c),
         \A t \in tasks : t.notify = c => t \in tasks',
         SameWork(NodeOf[c]) \/ ~ WorksOn(c, Work)
  PROVE  Carried(c)'
<1> DEFINE resent == \E t \in tasks : t.notify = c
<1>1. resent => resent'
  OBVIOUS
<1>2. \A labels \in SUBSET Work : WorksOn(c, labels) => WorksOn(c, labels)'
  BY DEF WorksOn, SameWork, SameView
<1>3. /\ WorksOn(c, {"v_job"}) => WorksOn(c, {"v_job"})'
      /\ WorksOn(c, {"v_job", "v_sent"}) => WorksOn(c, {"v_job", "v_sent"})'
      /\ WorksOn(c, {"x_sent"}) => WorksOn(c, {"x_sent"})'
  BY <1>2 DEF Work
<1> HIDE DEF resent
<1>4. Carried(c) => /\ winner[c] # {} /\ In(jobs, c) => WorksOn(c, {"v_job"})
                    /\ winner[c] # {} /\ In(notify_finish, c) =>
                         WorksOn(c, {"v_job", "v_sent"}) \/ resent
                    /\ pc[c] \in Registered /\ In(notify_sent, c)
                         /\ ~ In(notify_finish, c) => WorksOn(c, {"x_sent"})
  BY DEF Carried, resent
<1>5. /\ winner'[c] # {} /\ In(jobs, c)' => WorksOn(c, {"v_job"})'
      /\ winner'[c] # {} /\ In(notify_finish, c)' =>
           WorksOn(c, {"v_job", "v_sent"})' \/ resent'
      /\ pc'[c] \in Registered /\ In(notify_sent, c)' /\ ~ In(notify_finish, c)'
           => WorksOn(c, {"x_sent"})'
  BY <1>1, <1>3, <1>4 DEF SameView, SameMaps
<1> QED
  BY <1>5 DEF Carried, resent

\* A step that starts no task and no transmission, and takes the end from none.
LEMMA TasksFrame ==
  ASSUME TypeOK, TasksOwned, tasks' \subseteq tasks,
         \A n \in Nodes : acc'[n] = "v_sent" => SameWork(n),
         \A c \in Calls, t \in tasks' :
           t.notify = c /\ (In(notify_sent, c) \/ <<"sent", c>> \in permits)
             => In(notify_sent, c)' \/ <<"sent", c>> \in permits'
  PROVE  TasksOwned'
<1> SUFFICES ASSUME NEW t \in tasks'
             PROVE  /\ t.notify = t.buff.job
                    /\ In(notify_sent, t.notify)' \/ <<"sent", t.notify>> \in permits'
                    /\ \A u \in tasks' : t.buff.job = u.buff.job => t = u
                    /\ \A n \in Nodes : acc'[n] = "v_sent" => cur'[n].job # t.buff.job
  BY DEF TasksOwned
<1>1. t \in tasks /\ t.notify \in Calls
  BY DEF TypeOK, NetTypes, Task
<1>2. In(notify_sent, t.notify)' \/ <<"sent", t.notify>> \in permits'
  BY <1>1 DEF TasksOwned
<1> QED
  BY <1>1, <1>2 DEF TasksOwned, SameWork

\* The entries of notify_sent and notify_finish stay with their calls.
LEMMA OwnedFrame ==
  ASSUME SentOwned, FinishRegistered, IdsKept,
         \A n \in Nodes, i \in Ids :
           /\ notify_sent'[n][i] \in Calls => notify_sent'[n][i] = notify_sent[n][i]
           /\ notify_finish'[n][i] \in Calls
                => notify_finish'[n][i] = notify_finish[n][i],
         \A c \in Calls : /\ pc[c] \in Registered => pc'[c] \in Registered
                          /\ pc[c] = "insert_finish" =>
                               pc'[c] \in {"insert_finish"} \cup Registered
  PROVE  SentOwned' /\ FinishRegistered'
<1>1. SentOwned'
  BY OfKept DEF SentOwned
<1>2. FinishRegistered'
  BY DEF FinishRegistered
<1> QED
  BY <1>1, <1>2

\* A call in notify_sent or notify_finish is a reliable one that got that far.
LEMMA InOwned ==
  ASSUME SentOwned, FinishRegistered, NEW c \in Calls
  PROVE  /\ In(notify_sent, c) =>
              c \in Reliable /\ pc[c] \in {"insert_finish"} \cup Registered
         /\ In(notify_finish, c) => c \in Reliable /\ pc[c] \in Registered
BY CallsAssumption DEF SentOwned, FinishRegistered, In, InMap

\* Nothing is registered, carried or repeated at first.
LEMMA WaitInit == Init => WaitInv
<1> SUFFICES ASSUME Init PROVE WaitInv
  OBVIOUS
<1>1. \A c \in Calls : request_id[c] \notin Ids /\ pc[c] = "idle" /\ winner[c] = {}
  BY CallsAssumption DEF Init
<1>2. permits = {} /\ tasks = {} /\ \A n \in Nodes : acc[n] = "off" /\ ~ shutdown[n]
  BY DEF Init
<1>3. SentOwned /\ FinishRegistered
  BY CallsAssumption DEF Init, SentOwned, FinishRegistered
<1>4. \A c \in Calls : Kept(c)
  BY <1>1, <1>2 DEF Kept, Discovering, Confirming, In, Asking, Numbered
<1>5. \A c \in Calls : Carried(c)
  BY <1>1 DEF Carried, Registered
<1>6. TasksOwned /\ StoppedByStop /\ \A n \in Nodes : Consistent(n)
  BY <1>2 DEF TasksOwned, StoppedByStop, Consistent
<1> QED
  BY <1>3, <1>4, <1>5, <1>6 DEF WaitInv, Undisturbed

-----------------------------------------------------------------------------
(* Steps that change nothing for any call.                                 *)

\* Who is undisturbed after a step was undisturbed before it.
LEMMA UndisturbedFrame ==
  ASSUME TypeOK, exited \subseteq exited',
         \A n \in Nodes : stops'[n] = 0 => stops[n] = 0,
         NEW c \in Undisturbed'
  PROVE  c \in Undisturbed
BY CallsAssumption DEF Undisturbed

\* Where maps, permits, calls and tasks stay, the acceptor may do all but work.
LEMMA WaitQuiet ==
  ASSUME TypeOK, TypeOK', WaitInv,
         UNCHANGED <<pc, request_id, winner, mapVars, permits, tasks>>,
         exited \subseteq exited',
         \A n \in Nodes : stops'[n] = 0 => stops[n] = 0,
         \A n \in Nodes : shutdown'[n] => stops'[n] > 0,
         \A n \in Nodes :
           \/ SameWork(n)
           \/ acc'[n] \notin Work /\ (acc[n] \notin Work \/ shutdown[n])
  PROVE  WaitInv'
<1>1. \A c \in Calls : SameView(c)
  BY ViewSame
<1>2. SentOwned' /\ FinishRegistered'
  BY OwnedFrame DEF WaitInv, mapVars, IdsKept
<1>3. \A c \in Calls : Kept(c)'
  BY <1>1, KeptFrame DEF WaitInv
<1>4. TasksOwned'
  <2>1. \A n \in Nodes : acc'[n] = "v_sent" => SameWork(n)
    BY DEF Work
  <2> QED
    BY <1>1, <2>1, TasksFrame DEF WaitInv, SameView, SameMaps, SamePermits
<1>5. \A n \in Nodes : Consistent(n)'
  BY <1>1, SteadyFrame, ConsistentFrame DEF WaitInv
<1>6. StoppedByStop'
  BY DEF StoppedByStop
<1>7. ASSUME NEW c \in Undisturbed' PROVE Carried(c)'
  <2>1. c \in Undisturbed /\ c \in Calls /\ NodeOf[c] \in Nodes
    BY UndisturbedFrame, CallsAssumption DEF Undisturbed
  <2>2. ~ shutdown[NodeOf[c]]
    BY <2>1 DEF WaitInv, StoppedByStop, Undisturbed
  <2>3. SameWork(NodeOf[c]) \/ ~ WorksOn(c, Work)
    BY <2>1, <2>2 DEF WorksOn
  <2> QED
    BY <1>1, <2>1, <2>3, CarriedFrame DEF WaitInv
<1> QED
  BY <1>2, <1>3, <1>4, <1>5, <1>6, <1>7 DEF WaitInv

\* Configuring, asking again, exiting and losing datagrams are quiet.
LEMMA WaitAside ==
  ASSUME TypeOK, TypeOK', WaitInv,
         \/ \E e : AddServer(e[1], e[2], e[3]) \/ On(e[1], e[2])
         \/ \E c \in Calls : SendTick(c) \/ SendExit(c)
         \/ \E m \in net : Lose(m)
         \/ \E t \in tasks : TaskTick(t)
         \/ UNCHANGED vars
  PROVE  WaitInv'
<1>1. /\ UNCHANGED <<acc, cur, shutdown, stops, pc, request_id, winner, permits,
                     tasks>>
      /\ UNCHANGED mapVars
  BY DEF AddServer, On, SendTick, SendExit, Lose, TaskTick, accVars, lifeVars,
         callVars, histVars, vars
<1>2. exited \subseteq exited'
  BY DEF AddServer, On, SendTick, SendExit, Lose, TaskTick, lifeVars, vars
<1>3. \A n \in Nodes : SameWork(n)
  BY <1>1 DEF SameWork
<1>4. \A n \in Nodes : shutdown'[n] => stops'[n] > 0
  BY <1>1 DEF WaitInv, StoppedByStop
<1> QED
  BY <1>1, <1>2, <1>3, <1>4, WaitQuiet

\* An acceptor that does no work before or after does not matter to a call.
LEMMA WaitIdle ==
  ASSUME TypeOK, TypeOK', WaitInv, NEW n \in Nodes, NEW label,
         label \notin Work, acc[n] \notin Work \/ shutdown[n],
         acc' = [acc EXCEPT ![n] = label],
         UNCHANGED cur \/ \E m : cur' = [cur EXCEPT ![n] = m],
         UNCHANGED shutdown \/ shutdown' = [shutdown EXCEPT ![n] = FALSE],
         UNCHANGED <<pc, request_id, winner, mapVars, permits, tasks, exited, stops>>
  PROVE  WaitInv'
<1>1. acc'[n] = label /\ \A k \in Nodes \ {n} : SameWork(k)
  BY DEF SameWork, TypeOK, AcceptorTypes
<1>2. \A k \in Nodes : shutdown'[k] => stops'[k] > 0
  BY DEF WaitInv, StoppedByStop, TypeOK, AcceptorTypes
<1> QED
  BY <1>1, <1>2, WaitQuiet

\* start(), the end of its loop and stop() are quiet.
LEMMA WaitStart ==
  ASSUME TypeOK, TypeOK', WaitInv, NEW n \in Nodes,
         StartStep(n) \/ Stop(n) \/ Break(n)
  PROVE  WaitInv'
<1>1. CASE Stop(n)
  <2>1. stops[n] \in Nat /\ stops' = [stops EXCEPT ![n] = stops[n] + 1]
    BY <1>1 DEF Stop, TypeOK, ConfigTypes
  <2>2. \A k \in Nodes : /\ stops'[k] = 0 => stops[k] = 0
                         /\ shutdown'[k] => stops'[k] > 0
    <3> SUFFICES ASSUME NEW k \in Nodes
                 PROVE  /\ stops'[k] = 0 => stops[k] = 0
                        /\ shutdown'[k] => stops'[k] > 0
      OBVIOUS
    <3>1. CASE k = n
      BY <2>1, <3>1 DEF TypeOK, ConfigTypes
    <3>2. CASE k # n
      <4>1. stops'[k] = stops[k] /\ shutdown'[k] = shutdown[k]
        BY <1>1, <2>1, <3>2 DEF Stop, Woken, TypeOK, ConfigTypes, AcceptorTypes
      <4> QED
        BY <4>1 DEF WaitInv, StoppedByStop
    <3> QED
      BY <3>1, <3>2
  <2>3. \A k \in Nodes : SameWork(k)
    BY <1>1 DEF Stop, SameWork
  <2> QED
    BY <1>1, <2>2, <2>3, WaitQuiet DEF Stop, callVars, histVars
<1>2. CASE StartBind(n) \/ Close(n)
  BY <1>2, WaitIdle DEF StartBind, Close, Work, lifeVars, callVars, histVars
<1>3. CASE StartPublish(n)
  BY <1>3, WaitIdle DEF StartPublish, NextTurn, Work, callVars, histVars
<1>4. CASE Break(n)
  BY <1>4, WaitIdle DEF Break, Work, lifeVars, callVars, histVars
<1> QED
  BY <1>1, <1>2, <1>3, <1>4 DEF StartStep

\* So is all that the acceptor does for calls of other nodes.
LEMMA WaitServe ==
  ASSUME TypeOK, TypeOK', WaitInv
  PROVE  /\ \A m \in net :
              RecvI(m) \/ RecvData(m) \/ RecvTruncated(m) => WaitInv'
         /\ \A n \in Nodes : Handle(n) => WaitInv'
<1>1. ASSUME NEW m \in net, RecvI(m) \/ RecvData(m) \/ RecvTruncated(m)
      PROVE  WaitInv'
  <2>1. m.dst \in Nodes /\ acc[m.dst] \notin Work
    BY <1>1, ArrivesType
       DEF RecvI, RecvData, RecvTruncated, Arrives, Work
  <2>2. UNCHANGED <<pc, request_id, winner, mapVars, permits, tasks, exited, stops>>
    BY <1>1
       DEF RecvI, RecvData, RecvTruncated, callVars, histVars, lifeVars
  <2>3. /\ UNCHANGED shutdown \/ shutdown' = [shutdown EXCEPT ![m.dst] = FALSE]
        /\ \E k : cur' = [cur EXCEPT ![m.dst] = k]
        /\ \E label \in {"recv", "handler"} : acc' = [acc EXCEPT ![m.dst] = label]
    BY <1>1 DEF RecvI, RecvData, RecvTruncated, NextTurn, Continue
  <2> QED
    BY <2>1, <2>2, <2>3, WaitIdle DEF Work
<1>2. ASSUME NEW n \in Nodes, Handle(n) PROVE WaitInv'
  BY <1>2, WaitIdle
     DEF Handle, NextTurn, Work, lifeVars, callVars, histVars
<1> QED
  BY <1>1, <1>2

-----------------------------------------------------------------------------
(* The steps of send().                                                    *)

\* A call without an id is in no map.
LEMMA UnnumberedNowhere ==
  ASSUME TypeOK, NEW c \in Calls, pc[c] \notin Numbered
  PROVE  /\ request_id[c] \notin Ids
         /\ \A map : ~ In(map, c)
BY DEF TypeOK, CallTypes, In

\* A call is in a map that a step leaves alone if it was.
LEMMA InSame ==
  ASSUME NEW c \in Calls, request_id'[c] = request_id[c]
  PROVE  /\ jobs' = jobs => (In(jobs, c)' <=> In(jobs, c))
         /\ notify_discovery' = notify_discovery =>
              (In(notify_discovery, c)' <=> In(notify_discovery, c))
         /\ notify_sent' = notify_sent =>
              (In(notify_sent, c)' <=> In(notify_sent, c))
         /\ notify_finish' = notify_finish =>
              (In(notify_finish, c)' <=> In(notify_finish, c))
BY DEF In, InMap

\* With its id a call gets its job into jobs; no other call is concerned.
LEMMA ViewInsertJob ==
  ASSUME TypeOK, TypeOK', IdsDistinct', JobsOwned, AskInv, FinishOwned,
         SentOwned, NEW c \in Calls, SendInsertJob(c)
  PROVE  /\ \A d \in Calls \ {c} : SameView(d)
         /\ In(jobs, c)' /\ ~ In(notify_discovery, c)'
         /\ ~ In(notify_sent, c)' /\ ~ In(notify_finish, c)'
<1>1. PICK i \in Ids : /\ request_id' = [request_id EXCEPT ![c] = i]
                       /\ jobs' = Insert(jobs, NodeOf[c], i, c)
  BY DEF SendInsertJob, RequestIds
<1>2. NodeOf[c] \in Nodes /\ request_id[c] \notin Ids /\ request_id'[c] = i
  BY <1>1, CallsAssumption
     DEF TypeOK, CallTypes, SendInsertJob, At, Numbered
<1>3. UNCHANGED <<notify_discovery, notify_sent, notify_finish, winner, permits>>
  BY DEF SendInsertJob, histVars
<1>4. In(jobs, c)'
  BY <1>1, <1>2 DEF In, InMap, Insert, TypeOK, IdMapTypes, IdMap
<1>5. /\ notify_discovery[NodeOf[c]][i] # c /\ notify_sent[NodeOf[c]][i] # c
      /\ notify_finish[NodeOf[c]][i] # c
  BY <1>2 DEF AskInv, DiscoveryOwned, SentOwned, FinishOwned, Of
<1>6. /\ ~ In(notify_discovery, c)' /\ ~ In(notify_sent, c)'
      /\ ~ In(notify_finish, c)'
  BY <1>2, <1>3, <1>5 DEF In, InMap
<1>7. ASSUME NEW d \in Calls \ {c} PROVE SameView(d)
  <2>1. pc'[d] = pc[d] /\ request_id'[d] = request_id[d] /\ NodeOf[d] \in Nodes
    BY <1>1, CallsAssumption DEF SendInsertJob, Goto, TypeOK, CallTypes
  <2>2. In(jobs, d)' <=> In(jobs, d)
    <3>1. CASE request_id[d] \in Ids
      <4>1. NodeOf[d] # NodeOf[c] \/ request_id[d] # i
        BY <1>2, <2>1, <3>1 DEF IdsDistinct
      <4>2. jobs'[NodeOf[d]][request_id[d]] = jobs[NodeOf[d]][request_id[d]]
        BY <1>1, <1>2, <2>1, <3>1, <4>1 DEF Insert, TypeOK, IdMapTypes, IdMap
      <4> QED
        BY <2>1, <4>2 DEF In, InMap
    <3>2. CASE request_id[d] \notin Ids
      BY <2>1, <3>2 DEF In
    <3> QED
      BY <3>1, <3>2
  <2> QED
    BY <1>3, <2>1, <2>2, InSame DEF SameView, SamePermits, SameMaps
<1> QED
  BY <1>4, <1>6, <1>7

\* The other steps of a call concern no other call, and only the map that the
\* call puts itself into.
LEMMA ViewSend ==
  ASSUME TypeOK, TypeOK', IdsDistinct, NEW c \in Calls,
         \/ SendLookup(c) \/ SendSocket(c) \/ SendInsertDiscovery(c)
         \/ SendInsertSent(c) \/ SendInsertFinish(c) \/ SendDiscovered(c)
         \/ SendFinished(c)
  PROVE  /\ \A d \in Calls \ {c} : SameView(d)
         /\ In(jobs, c)' <=> In(jobs, c)
         /\ In(notify_discovery, c)' <=>
              SendInsertDiscovery(c) \/ In(notify_discovery, c)
         /\ In(notify_sent, c)' <=> SendInsertSent(c) \/ In(notify_sent, c)
         /\ In(notify_finish, c)' <=> SendInsertFinish(c) \/ In(notify_finish, c)
<1>1. UNCHANGED <<request_id, winner, jobs>>
  BY DEF SendLookup, SendSocket, SendInsertDiscovery, SendInsertSent,
         SendInsertFinish, SendDiscovered, SendFinished, mapVars, histVars
<1>2. \A d \in Calls \ {c} : pc'[d] = pc[d] /\ SamePermits(d)
  BY DEF SendLookup, SendSocket, SendInsertDiscovery, SendInsertSent,
         SendInsertFinish, SendDiscovered, SendFinished, Goto, SamePermits,
         TypeOK, CallTypes
<1>3. jobs \in IdMap /\ notify_discovery \in IdMap /\ notify_sent \in IdMap
      /\ notify_finish \in IdMap
  BY DEF TypeOK, IdMapTypes
<1>4. \A d \in Calls : In(jobs, d)' <=> In(jobs, d)
  BY <1>1, InSame
<1>5. \A d \in Calls :
        In(notify_discovery, d)' <=>
          (SendInsertDiscovery(c) /\ d = c) \/ In(notify_discovery, d)
  <2>1. CASE SendInsertDiscovery(c)
    <3>1. request_id[c] \in Ids
      BY <2>1 DEF SendInsertDiscovery, At, TypeOK, CallTypes, Numbered
    <3>2. notify_discovery' =
            Insert(notify_discovery, NodeOf[c], request_id[c], c)
      BY <2>1 DEF SendInsertDiscovery
    <3>3. \A d \in Calls :
            In(Insert(notify_discovery, NodeOf[c], request_id[c], c), d)
              <=> d = c \/ In(notify_discovery, d)
      BY <1>3, <3>1, InsertIn
    <3> QED
      BY <1>1, <2>1, <3>2, <3>3 DEF In, InMap
  <2>2. CASE ~ SendInsertDiscovery(c)
    <3>1. notify_discovery' = notify_discovery
      BY <2>2 DEF SendLookup, SendSocket, SendInsertSent, SendInsertFinish,
                  SendDiscovered, SendFinished, mapVars
    <3> QED
      BY <1>1, <2>2, <3>1, InSame
  <2> QED
    BY <2>1, <2>2
<1>6. \A d \in Calls :
        In(notify_sent, d)' <=> (SendInsertSent(c) /\ d = c) \/ In(notify_sent, d)
  <2>1. CASE SendInsertSent(c)
    <3>1. request_id[c] \in Ids
      BY <2>1 DEF SendInsertSent, At, TypeOK, CallTypes, Numbered
    <3>2. notify_sent' = Insert(notify_sent, NodeOf[c], request_id[c], c)
      BY <2>1 DEF SendInsertSent
    <3>3. \A d \in Calls :
            In(Insert(notify_sent, NodeOf[c], request_id[c], c), d)
              <=> d = c \/ In(notify_sent, d)
      BY <1>3, <3>1, InsertIn
    <3> QED
      BY <1>1, <2>1, <3>2, <3>3 DEF In, InMap
  <2>2. CASE ~ SendInsertSent(c)
    <3>1. notify_sent' = notify_sent
      BY <2>2 DEF SendLookup, SendSocket, SendInsertDiscovery, SendInsertFinish,
                  SendDiscovered, SendFinished, mapVars
    <3> QED
      BY <1>1, <2>2, <3>1, InSame
  <2> QED
    BY <2>1, <2>2
<1>7. \A d \in Calls :
        In(notify_finish, d)' <=>
          (SendInsertFinish(c) /\ d = c) \/ In(notify_finish, d)
  <2>1. CASE SendInsertFinish(c)
    <3>1. request_id[c] \in Ids
      BY <2>1 DEF SendInsertFinish, At, TypeOK, CallTypes, Numbered
    <3>2. notify_finish' = Insert(notify_finish, NodeOf[c], request_id[c], c)
      BY <2>1 DEF SendInsertFinish
    <3>3. \A d \in Calls :
            In(Insert(notify_finish, NodeOf[c], request_id[c], c), d)
              <=> d = c \/ In(notify_finish, d)
      BY <1>3, <3>1, InsertIn
    <3> QED
      BY <1>1, <2>1, <3>2, <3>3 DEF In, InMap
  <2>2. CASE ~ SendInsertFinish(c)
    <3>1. notify_finish' = notify_finish
      BY <2>2 DEF SendLookup, SendSocket, SendInsertDiscovery, SendInsertSent,
                  SendDiscovered, SendFinished, mapVars
    <3> QED
      BY <1>1, <2>2, <3>1, InSame
  <2> QED
    BY <2>1, <2>2
<1>8. ASSUME NEW d \in Calls \ {c} PROVE SameView(d)
  BY <1>1, <1>2, <1>4, <1>5, <1>6, <1>7 DEF SameView, SameMaps
<1> QED
  BY <1>4, <1>5, <1>6, <1>7, <1>8

\* What holds for a call, and is carried for it, holds after its own step.
LEMMA KeptSend ==
  ASSUME Base, TypeOK', IdsDistinct', WaitInv, NEW c \in Calls,
         \/ SendLookup(c) \/ SendSocket(c) \/ SendInsertJob(c)
         \/ SendInsertDiscovery(c) \/ SendInsertSent(c) \/ SendInsertFinish(c)
         \/ SendDiscovered(c) \/ SendFinished(c)
  PROVE  /\ Kept(c)' /\ Steady(c) /\ (Carried(c) => Carried(c)')
         /\ \A d \in Calls \ {c} : SameView(d)
         /\ In(notify_sent, c) => In(notify_sent, c)'
         /\ <<"sent", c>> \in permits' <=> <<"sent", c>> \in permits
         /\ IdsKept
<1> DEFINE Actor == /\ \A d \in Calls \ {c} : SameView(d)
                    /\ In(notify_sent, c) => In(notify_sent, c)'
<1>1. TypeOK /\ IdsDistinct /\ AskInv /\ FinishOwned /\ JobsOwned /\ SentOwned
      /\ Kept(c)
  BY DEF Base, OneServerInv, ConfirmInv, WaitInv
<1>2. winner'[c] = winner[c] /\ UNCHANGED <<acc, cur, tasks>>
  BY DEF SendLookup, SendSocket, SendInsertJob, SendInsertDiscovery,
         SendInsertSent, SendInsertFinish, SendDiscovered, SendFinished,
         accVars, histVars
<1>3. <<"sent", c>> \in permits' <=> <<"sent", c>> \in permits
  BY DEF SendLookup, SendSocket, SendInsertJob, SendInsertDiscovery,
         SendInsertSent, SendInsertFinish, SendDiscovered, SendFinished
<1>4. /\ In(notify_sent, c) => c \in Reliable /\ pc[c] \in {"insert_finish"} \cup Registered
      /\ In(notify_finish, c) => c \in Reliable /\ pc[c] \in Registered
  BY InOwned DEF WaitInv
<1>5. winner[c] # {} => pc[c] \in Registered
  BY <1>1 DEF AskInv, WinnersAsked
<1>6. CASE SendLookup(c) \/ SendSocket(c)
  <2>1. /\ pc[c] \in {"idle", "socket"} /\ permits' = permits
        /\ pc'[c] \in {"unrouted", "socket", "insert_job"}
        /\ request_id' = request_id
    BY <1>1, <1>6 DEF SendLookup, SendSocket, At, Goto, TypeOK, CallTypes
  <2>2. /\ ~ In(jobs, c)' /\ ~ In(notify_discovery, c)'
        /\ ~ In(notify_sent, c)' /\ ~ In(notify_finish, c)' /\ Actor
    BY <1>1, <1>6, <2>1, ViewSend, UnnumberedNowhere
       DEF Numbered, SendInsertDiscovery, SendInsertSent, SendInsertFinish, At
  <2>3. Kept(c)'
    BY <1>1, <2>1, <2>2
       DEF Kept, Discovering, Confirming, Asking, Numbered, Registered
  <2>4. Steady(c) /\ Carried(c)'
    BY <1>1, <1>2, <1>5, <2>1, <2>2, UnnumberedNowhere
       DEF Steady, Carried, Registered, Numbered
  <2> QED
    BY <1>3, <2>1, <2>2, <2>3, <2>4 DEF IdsKept
<1>7. CASE SendInsertJob(c)
  <2>1. /\ pc[c] = "insert_job" /\ pc'[c] = "insert_discovery"
        /\ permits' = permits /\ request_id[c] \notin Ids
    BY <1>1, <1>7 DEF SendInsertJob, At, Goto, TypeOK, CallTypes, Numbered
  <2>2. /\ In(jobs, c)' /\ ~ In(notify_discovery, c)'
        /\ ~ In(notify_sent, c)' /\ ~ In(notify_finish, c)'
        /\ \A d \in Calls \ {c} : SameView(d)
    BY <1>1, <1>7, ViewInsertJob
  <2>3. Kept(c)'
    BY <1>1, <1>5, <2>1, <2>2
       DEF Kept, Discovering, Confirming, Asking, Numbered, Registered
  <2>4. Steady(c) /\ Carried(c)'
    BY <1>1, <1>2, <1>5, <2>1, <2>2 DEF Steady, Carried, Registered, In
  <2>5. ~ In(notify_sent, c)
    BY <2>1 DEF In
  <2>6. IdsKept
    BY <2>1, <2>2 DEF IdsKept, SameView
  <2> QED
    BY <1>3, <2>2, <2>3, <2>4, <2>5, <2>6
<1>8. CASE SendInsertDiscovery(c) \/ SendInsertSent(c) \/ SendInsertFinish(c)
  <2>1. /\ permits' = permits /\ request_id' = request_id
        /\ pc[c] \in {"insert_discovery", "insert_sent", "insert_finish"}
    BY <1>8 DEF SendInsertDiscovery, SendInsertSent, SendInsertFinish, At
  <2>2. /\ SendInsertDiscovery(c) <=> pc[c] = "insert_discovery"
        /\ SendInsertSent(c) <=> pc[c] = "insert_sent"
        /\ SendInsertFinish(c) <=> pc[c] = "insert_finish"
    BY <1>8 DEF SendInsertDiscovery, SendInsertSent, SendInsertFinish, At
  <2>3. /\ SendInsertDiscovery(c) =>
             pc'[c] = IF c \in Reliable THEN "insert_sent" ELSE "discover"
        /\ SendInsertSent(c) => pc'[c] = "insert_finish"
        /\ SendInsertFinish(c) => pc'[c] = "discover"
    BY <1>1
       DEF SendInsertDiscovery, SendInsertSent, SendInsertFinish, Goto,
           AfterInsertDiscovery, TypeOK, CallTypes
  <2>4. /\ Actor
        /\ In(jobs, c)' <=> In(jobs, c)
        /\ In(notify_discovery, c)' <=>
             pc[c] = "insert_discovery" \/ In(notify_discovery, c)
        /\ In(notify_sent, c)' <=> pc[c] = "insert_sent" \/ In(notify_sent, c)
        /\ In(notify_finish, c)' <=>
             pc[c] = "insert_finish" \/ In(notify_finish, c)
    BY <1>1, <1>8, <2>2, ViewSend
  <2> HIDE DEF Actor
  <2>5. Kept(c)'
    BY <1>1, <1>2, <1>4, <1>5, <2>1, <2>2, <2>3, <2>4
       DEF Kept, Discovering, Confirming, Asking, Numbered, Registered
  <2>6. Steady(c) /\ Carried(c)'
    BY <1>1, <1>2, <1>4, <1>5, <2>1, <2>2, <2>3, <2>4
       DEF Steady, Carried, Registered
  <2> QED
    BY <1>3, <2>1, <2>4, <2>5, <2>6 DEF IdsKept, Actor
<1>9. CASE SendDiscovered(c) \/ SendFinished(c)
  <2>1. /\ request_id' = request_id
        /\ pc[c] \in {"discover", "await"}
    BY <1>9 DEF SendDiscovered, SendFinished, At
  <2>2. /\ SendDiscovered(c) <=> pc[c] = "discover"
        /\ SendFinished(c) <=> pc[c] = "await"
    BY <1>9 DEF SendDiscovered, SendFinished, At
  <2>3. /\ pc[c] = "discover" => pc'[c] = IF c \in Reliable THEN "await" ELSE "returned"
        /\ pc[c] = "await" => pc'[c] = "returned" /\ <<"finish", c>> \in permits
        /\ pc[c] = "discover" => <<"discovery", c>> \in permits
        /\ <<"finish", c>> \in permits' => <<"finish", c>> \in permits
        /\ pc[c] = "discover" =>
             (<<"finish", c>> \in permits' <=> <<"finish", c>> \in permits)
    <3>1. CASE SendDiscovered(c)
      <4>1. /\ pc' = [pc EXCEPT ![c] = IF c \in Reliable THEN "await" ELSE "returned"]
            /\ <<"discovery", c>> \in permits
            /\ permits' = permits \ {<<"discovery", c>>}
        BY <3>1 DEF SendDiscovered, Goto, AfterDiscovery
      <4> QED
        BY <1>1, <2>2, <3>1, <4>1 DEF TypeOK, CallTypes
    <3>2. CASE SendFinished(c)
      <4>1. /\ pc' = [pc EXCEPT ![c] = "returned"]
            /\ <<"finish", c>> \in permits
            /\ permits' = permits \ {<<"finish", c>>}
        BY <3>2 DEF SendFinished, Goto
      <4> QED
        BY <1>1, <2>2, <3>2, <4>1 DEF TypeOK, CallTypes
    <3> QED
      BY <1>9, <3>1, <3>2
  <2>4. /\ Actor /\ SameMaps(c)
    BY <1>1, <1>9, <2>1, ViewSend
       DEF SameMaps, SendInsertDiscovery, SendInsertSent, SendInsertFinish, At
  <2> HIDE DEF Actor
  <2>5. winner[c] # {}
    BY <1>1, <2>1, <2>3
       DEF AskInv, DiscoveredChosen, ReturnedChosen
  <2>6. Kept(c)'
    BY <1>1, <1>2, <1>3, <1>4, <2>1, <2>3, <2>4, <2>5
       DEF Kept, Discovering, Confirming, Asking, Numbered, Registered, SameMaps
  <2>7. Steady(c)
    BY <1>2, <2>1, <2>3, <2>4 DEF Steady, SameMaps, Registered
  <2>8. ASSUME Carried(c) PROVE Carried(c)'
    <3>1. \A labels : WorksOn(c, labels)' <=> WorksOn(c, labels)
      BY <1>2, <2>1 DEF WorksOn
    <3>2. pc[c] \in Registered
      BY <2>1 DEF Registered
    <3> QED
      BY <1>2, <2>4, <2>8, <3>1, <3>2 DEF Carried, SameMaps
  <2> QED
    BY <1>3, <2>1, <2>4, <2>6, <2>7, <2>8 DEF IdsKept, Actor
<1> QED
  BY <1>6, <1>7, <1>8, <1>9

\* No step of send() leaves a call, an acceptor or a task worse off.
LEMMA WaitSend ==
  ASSUME Base, Base', TypeOK', WaitInv, NEW c \in Calls,
         \/ SendLookup(c) \/ SendSocket(c) \/ SendInsertJob(c)
         \/ SendInsertDiscovery(c) \/ SendInsertSent(c) \/ SendInsertFinish(c)
         \/ SendDiscovered(c) \/ SendFinished(c)
  PROVE  WaitInv'
<1>1. TypeOK /\ IdsDistinct' /\ NodeOf[c] \in Nodes
  BY CallsAssumption DEF Base, OneServerInv, ConfirmInv
<1>2. /\ Kept(c)' /\ Steady(c) /\ (Carried(c) => Carried(c)')
      /\ \A d \in Calls \ {c} : SameView(d)
      /\ In(notify_sent, c) => In(notify_sent, c)'
      /\ <<"sent", c>> \in permits' <=> <<"sent", c>> \in permits
      /\ IdsKept
  BY <1>1, KeptSend
<1>3. UNCHANGED <<acc, cur, shutdown, stops, exited, tasks>>
  BY DEF SendLookup, SendSocket, SendInsertJob, SendInsertDiscovery,
         SendInsertSent, SendInsertFinish, SendDiscovered, SendFinished,
         accVars, lifeVars
<1>4. \A d \in Calls : Kept(d)'
  BY <1>2, KeptFrame DEF WaitInv
<1>5. \A n \in Nodes : Consistent(n)'
  BY <1>1, <1>2, <1>3, SteadyFrame, ConsistentFrame DEF WaitInv, SameWork
<1>6. TasksOwned'
  <2>1. \A d \in Calls :
          In(notify_sent, d) \/ <<"sent", d>> \in permits
            => In(notify_sent, d)' \/ <<"sent", d>> \in permits'
    BY <1>2 DEF SameView, SameMaps, SamePermits
  <2> QED
    BY <1>1, <1>3, <2>1, TasksFrame DEF WaitInv, SameWork
<1>7. StoppedByStop'
  BY <1>3 DEF WaitInv, StoppedByStop
<1>8. ASSUME NEW d \in Undisturbed' PROVE Carried(d)'
  <2>1. d \in Undisturbed /\ d \in Calls
    BY <1>1, <1>3, UndisturbedFrame DEF Undisturbed
  <2>2. Carried(d)
    BY <2>1 DEF WaitInv
  <2>3. CASE d = c
    BY <1>2, <2>2, <2>3
  <2>4. CASE d # c
    <3>1. SameView(d)
      BY <1>2, <2>1, <2>4
    <3> QED
      BY <1>3, <2>1, <2>2, <3>1, CarriedFrame DEF SameWork
  <2> QED
    BY <2>3, <2>4
<1>9. SentOwned' /\ FinishRegistered'
  <2>1. pc \in [Calls -> PCs]
    BY <1>1 DEF TypeOK, CallTypes
  <2>2. CASE SendInsertSent(c)
    <3>1. /\ pc[c] = "insert_sent" /\ request_id[c] \in Ids
          /\ notify_sent' = Insert(notify_sent, NodeOf[c], request_id[c], c)
          /\ UNCHANGED <<request_id, notify_finish>>
          /\ pc' = [pc EXCEPT ![c] = "insert_finish"]
      BY <1>1, <2>2 DEF SendInsertSent, At, Goto, TypeOK, CallTypes, Numbered
    <3>2. c \in Reliable
      BY <3>1 DEF WaitInv, Kept, Confirming
    <3>3. pc'[c] = "insert_finish" /\ \A d \in Calls \ {c} : pc'[d] = pc[d]
      BY <2>1, <3>1
    <3>4. SentOwned'
      <4> SUFFICES ASSUME NEW n \in Nodes, NEW i \in Ids, NEW d \in Calls,
                          notify_sent'[n][i] = d
                   PROVE  /\ Of(d, n, i) /\ d \in Reliable
                          /\ pc'[d] \in {"insert_finish"} \cup Registered
        BY <3>1 DEF SentOwned, Of
      <4>1. CASE n = NodeOf[c] /\ i = request_id[c]
        <5>1. d = c
          BY <1>1, <3>1, <4>1 DEF Insert, TypeOK, IdMapTypes, IdMap
        <5> QED
          BY <3>2, <3>3, <4>1, <5>1 DEF Of
      <4>2. CASE n # NodeOf[c] \/ i # request_id[c]
        <5>1. notify_sent[n][i] = d
          BY <1>1, <3>1, <4>2 DEF Insert, TypeOK, IdMapTypes, IdMap
        <5>2. /\ Of(d, n, i) /\ d \in Reliable
              /\ pc[d] \in {"insert_finish"} \cup Registered
          BY <5>1 DEF WaitInv, SentOwned
        <5>3. d # c
          BY <3>1, <5>2 DEF Registered
        <5> QED
          BY <3>3, <5>2, <5>3
      <4> QED
        BY <4>1, <4>2
    <3>5. FinishRegistered'
      <4>1. pc[c] \notin Registered
        BY <3>1 DEF Registered
      <4> QED
        BY <3>1, <3>3, <4>1 DEF WaitInv, FinishRegistered
    <3> QED
      BY <3>4, <3>5
  <2>3. CASE SendInsertFinish(c)
    <3>1. /\ pc[c] = "insert_finish" /\ request_id[c] \in Ids
          /\ notify_finish' = Insert(notify_finish, NodeOf[c], request_id[c], c)
          /\ UNCHANGED <<request_id, notify_sent>>
          /\ pc' = [pc EXCEPT ![c] = "discover"]
      BY <1>1, <2>3 DEF SendInsertFinish, At, Goto, TypeOK, CallTypes, Numbered
    <3>2. c \in Reliable
      BY <3>1 DEF WaitInv, Kept, Confirming
    <3>3. pc'[c] \in Registered /\ \A d \in Calls \ {c} : pc'[d] = pc[d]
      BY <2>1, <3>1 DEF Registered
    <3>4. SentOwned'
      BY <3>1, <3>3 DEF WaitInv, SentOwned, Of
    <3>5. FinishRegistered'
      <4> SUFFICES ASSUME NEW n \in Nodes, NEW i \in Ids, NEW d \in Calls,
                          notify_finish'[n][i] = d
                   PROVE  d \in Reliable /\ pc'[d] \in Registered
        BY DEF FinishRegistered
      <4>1. d = c \/ notify_finish[n][i] = d
        BY <1>1, <3>1 DEF Insert, TypeOK, IdMapTypes, IdMap
      <4> QED
        BY <3>2, <3>3, <4>1 DEF WaitInv, FinishRegistered
    <3> QED
      BY <3>4, <3>5
  <2>4. CASE ~ SendInsertSent(c) /\ ~ SendInsertFinish(c)
    <3>1. UNCHANGED <<notify_sent, notify_finish>>
      BY <2>4
         DEF SendLookup, SendSocket, SendInsertJob, SendInsertDiscovery,
             SendDiscovered, SendFinished, mapVars
    <3>2. pc[c] # "insert_finish" /\ (pc[c] \in Registered => pc'[c] \in Registered)
      BY <2>1, <2>4
         DEF SendLookup, SendSocket, SendInsertJob, SendInsertDiscovery,
             SendDiscovered, SendFinished, At, Goto, AfterDiscovery, Registered
    <3>3. \A d \in Calls \ {c} : pc'[d] = pc[d]
      BY <1>2 DEF SameView
    <3> QED
      BY <1>2, <3>1, <3>2, <3>3, OwnedFrame DEF WaitInv
  <2> QED
    BY <2>2, <2>3, <2>4
<1> QED
  BY <1>4, <1>5, <1>6, <1>7, <1>8, <1>9 DEF WaitInv

-----------------------------------------------------------------------------
(* The work of the acceptor.                                               *)

\* A step of the acceptor of n for call c: what is to be shown of c and of n,
\* where nothing changes for other calls and other acceptors.
LEMMA WaitFor ==
  ASSUME TypeOK, TypeOK', WaitInv, NEW n \in Nodes, NEW c \in Calls,
         \A d \in Calls \ {c} : SameView(d), Steady(c) \/ NodeOf[c] = n,
         \A k \in Nodes \ {n} : SameWork(k),
         UNCHANGED <<stops, exited>>,
         UNCHANGED shutdown \/ shutdown' = [shutdown EXCEPT ![n] = FALSE],
         tasks \subseteq tasks',
         \A d \in Calls \ {c} : ~ (NodeOf[d] = n /\ WorksOn(d, Work)),
         SentOwned', FinishRegistered', Kept(c)', Consistent(n)', TasksOwned',
         Carried(c) => Carried(c)'
  PROVE  WaitInv'
<1>1. \A d \in Calls : Kept(d)'
  BY KeptFrame DEF WaitInv
<1>2. ASSUME NEW k \in Nodes PROVE Consistent(k)'
  <2>1. CASE k = n
    BY <2>1
  <2>2. CASE k # n
    <3>1. \A d \in Calls : NodeOf[d] = k => Steady(d)
      BY <2>2, SteadyFrame
    <3> QED
      BY <2>2, <3>1, ConsistentFrame DEF WaitInv
  <2> QED
    BY <2>1, <2>2
<1>3. StoppedByStop'
  BY DEF WaitInv, StoppedByStop, TypeOK, AcceptorTypes
<1>4. ASSUME NEW d \in Undisturbed' PROVE Carried(d)'
  <2>1. d \in Undisturbed /\ d \in Calls /\ NodeOf[d] \in Nodes
    BY UndisturbedFrame, CallsAssumption DEF Undisturbed
  <2>2. Carried(d)
    BY <2>1 DEF WaitInv
  <2>3. CASE d = c
    BY <2>2, <2>3
  <2>4. CASE d # c
    <3>1. SameView(d) /\ (SameWork(NodeOf[d]) \/ ~ WorksOn(d, Work))
      BY <2>1, <2>4
    <3> QED
      BY <2>1, <2>2, <3>1, CarriedFrame
  <2> QED
    BY <2>3, <2>4
<1> QED
  BY <1>1, <1>2, <1>3, <1>4 DEF WaitInv

\* A call at whose node the acceptor does no work has nothing carried for it.
LEMMA NotCarried ==
  ASSUME NEW c \in Calls, Carried(c), ~ WorksOn(c, Work)
  PROVE  /\ ~ (winner[c] # {} /\ In(jobs, c))
         /\ ~ (pc[c] \in Registered /\ In(notify_sent, c) /\ ~ In(notify_finish, c))
         /\ winner[c] # {} /\ In(notify_finish, c) => \E t \in tasks : t.notify = c
BY DEF Carried, WorksOn, Work

\* The answer that is taken finds the job, and wakes the call.
LEMMA WaitRecvV ==
  ASSUME Base, TypeOK', WaitInv, NEW m \in net, RecvV(m)
  PROVE  WaitInv'
<1> DEFINE n == m.dst
<1>1. /\ TypeOK /\ IdsDistinct /\ AskInv
      /\ n \in Nodes /\ m \in Message /\ m.id \in Ids /\ acc[n] = "recv"
  BY ArrivesType DEF Base, OneServerInv, ConfirmInv, RecvV, Arrives
<1>2. UNCHANGED <<pc, request_id, jobs, notify_sent, notify_finish, tasks, stops,
                  exited>>
  BY DEF RecvV, callVars, lifeVars
<1>3. CASE notify_discovery[n][m.id] = NoCall
  <2>1. NextTurn(n) /\ UNCHANGED <<notify_discovery, permits, winner>>
    BY <1>3 DEF RecvV
  <2> QED
    BY <1>1, <1>2, <2>1, WaitIdle DEF NextTurn, mapVars, Work
<1>4. CASE notify_discovery[n][m.id] # NoCall
  <2>1. PICK c \in Calls : c = notify_discovery[n][m.id]
    BY <1>1, <1>4 DEF TypeOK, IdMapTypes, IdMap
  <2>2. /\ Of(c, n, m.id) /\ winner[c] = {} /\ pc[c] \in Registered
        /\ m.reliable <=> c \in Reliable
    BY <1>1, <1>4, <2>1, ChosenAnswer
  <2>3. /\ Continue(n, "v_job", m)
        /\ notify_discovery' = Remove(notify_discovery, n, m.id)
        /\ permits' = permits \cup {<<"discovery", c>>}
        /\ winner' = [winner EXCEPT ![c] = {m.src}]
    BY <1>4, <2>1, CallsAssumption DEF RecvV, Wake
  <2>4. winner'[c] = {m.src} /\ \A d \in Calls \ {c} : winner'[d] = winner[d]
    BY <2>3 DEF Base, OneServerInv, TypeOK, HistoryTypes
  <2>5. /\ acc'[n] = "v_job" /\ cur'[n] = m
        /\ \A k \in Nodes \ {n} : SameWork(k)
    BY <1>1, <2>3 DEF Continue, SameWork, TypeOK, AcceptorTypes
  <2>6. \A d \in Calls : In(notify_discovery, d)' <=>
                           In(notify_discovery, d) /\ ~ Of(d, n, m.id)
    <3>1. \A d \in Calls : In(Remove(notify_discovery, n, m.id), d) <=>
                             In(notify_discovery, d) /\ ~ Of(d, n, m.id)
      BY <1>1, RemoveIn DEF TypeOK, IdMapTypes
    <3> QED
      BY <1>2, <2>3, <3>1 DEF In, InMap
  <2>7. \A d \in Calls : /\ In(jobs, d)' <=> In(jobs, d)
                         /\ In(notify_sent, d)' <=> In(notify_sent, d)
                         /\ In(notify_finish, d)' <=> In(notify_finish, d)
    BY <1>2, InSame
  <2>8. \A d \in Calls \ {c} : ~ Of(d, n, m.id)
    BY <1>1, <2>2 DEF Of, IdsDistinct
  <2>9. ASSUME NEW d \in Calls \ {c} PROVE SameView(d)
    BY <1>2, <2>3, <2>4, <2>6, <2>7, <2>8 DEF SameView, SamePermits, SameMaps
  <2>10. Kept(c) /\ <<"discovery", c>> \in permits' /\ winner'[c] # {}
    BY <2>3, <2>4 DEF WaitInv
  <2>11. /\ <<"finish", c>> \in permits' <=> <<"finish", c>> \in permits
         /\ <<"sent", c>> \in permits' <=> <<"sent", c>> \in permits
    BY <2>3
  <2>12. Kept(c)'
    BY <1>2, <2>7, <2>10, <2>11 DEF Kept, Discovering, Confirming
  <2>13. In(jobs, c)'
    BY <2>2, <2>7, <2>10 DEF Kept, Discovering, Numbered, Registered
  <2>14. Consistent(n)'
    BY <1>2, <2>2, <2>4, <2>5, <2>13 DEF Consistent, Answered, Of
  <2>15. TasksOwned'
    BY <1>1, <1>2, <2>5, <2>7, <2>9, <2>11, TasksFrame
       DEF WaitInv, SameView, SamePermits
  <2>16. SentOwned' /\ FinishRegistered'
    BY <1>2, OwnedFrame DEF WaitInv, IdsKept
  <2>17. \A d \in Calls : NodeOf[d] = n => ~ WorksOn(d, Work)
    BY <1>1 DEF WorksOn, Work
  <2>18. WorksOn(c, {"v_job"})' /\ WorksOn(c, {"v_job", "v_sent"})'
    BY <1>2, <2>2, <2>5 DEF WorksOn, Of
  <2>19. ASSUME Carried(c) PROVE Carried(c)'
    BY <1>2, <2>2, <2>7, <2>17, <2>18, <2>19, NotCarried DEF Carried, Of
  <2> HIDE DEF n
  <2>20. UNCHANGED shutdown /\ NodeOf[c] = n
    BY <2>2, <2>3 DEF Continue, Of
  <2> QED
    BY <1>1, <1>2, <2>5, <2>9, <2>12, <2>14, <2>15, <2>16, <2>17, <2>19, <2>20,
       WaitFor
<1> QED
  BY <1>3, <1>4

\* The job that is taken goes out, or is about to be repeated.
LEMMA WaitVJob ==
  ASSUME Base, TypeOK', WaitInv, NEW n \in Nodes, VJob(n)
  PROVE  WaitInv'
<1> DEFINE m == cur[n]
<1>1. /\ TypeOK /\ IdsDistinct /\ GoInv /\ OneServerInv /\ JobsOwned
      /\ m \in Message /\ m.id \in Ids /\ m.dst = n /\ acc[n] = "v_job"
  BY DEF Base, OneServerInv, ConfirmInv, VJob, TypeOK, AcceptorTypes, Busy, Message
<1>2. PICK c \in Calls : Answered(c, n, m) /\ In(jobs, c)
  BY <1>1 DEF WaitInv, Consistent
<1>3. /\ jobs[n][m.id] = c /\ Of(c, n, m.id) /\ winner[c] # {} /\ c # NoCall
      /\ m.reliable <=> c \in Reliable
  BY <1>2, CallsAssumption DEF Answered, Of, In, InMap
<1>4. /\ UNCHANGED <<pc, request_id, winner, notify_discovery, notify_sent,
                     notify_finish, permits, tasks, stops, exited>>
      /\ jobs' = Remove(jobs, n, m.id)
  BY DEF VJob, callVars, lifeVars, histVars
<1>5. \A d \in Calls : In(jobs, d)' <=> In(jobs, d) /\ ~ Of(d, n, m.id)
  <2>1. \A d \in Calls : In(Remove(jobs, n, m.id), d) <=>
                           In(jobs, d) /\ ~ Of(d, n, m.id)
    BY <1>1, RemoveIn DEF TypeOK, IdMapTypes
  <2> QED
    BY <1>4, <2>1 DEF In, InMap
<1>6. \A d \in Calls : /\ In(notify_discovery, d)' <=> In(notify_discovery, d)
                       /\ In(notify_sent, d)' <=> In(notify_sent, d)
                       /\ In(notify_finish, d)' <=> In(notify_finish, d)
  BY <1>4, InSame
<1>7. \A d \in Calls \ {c} : ~ Of(d, n, m.id)
  BY <1>1, <1>3 DEF Of, IdsDistinct
<1>8. ASSUME NEW d \in Calls \ {c} PROVE SameView(d)
  BY <1>4, <1>5, <1>6, <1>7 DEF SameView, SamePermits, SameMaps
<1>9. Kept(c)'
  BY <1>3, <1>4, <1>6 DEF WaitInv, Kept, Discovering, Confirming
<1>10. /\ \A k \in Nodes \ {n} : SameWork(k)
       /\ UNCHANGED shutdown \/ shutdown' = [shutdown EXCEPT ![n] = FALSE]
       /\ \/ acc'[n] = "recv" /\ ~ m.reliable
          \/ acc'[n] = "v_sent" /\ cur'[n] = DataFor(m, c)
  BY <1>1, <1>3 DEF VJob, NextTurn, Continue, SameWork, TypeOK, AcceptorTypes
<1>11. DataFor(m, c).src = n /\ DataFor(m, c).job = c /\ DataFor(m, c).id = m.id
  BY <1>1 DEF DataFor, Answer
<1> HIDE DEF m
<1>12. Consistent(n)'
  BY <1>10, <1>11 DEF Consistent
<1>13. TasksOwned'
  <2> SUFFICES ASSUME NEW t \in tasks
               PROVE  \A k \in Nodes : acc'[k] = "v_sent" => cur'[k].job # t.buff.job
    BY <1>4, <1>6 DEF WaitInv, TasksOwned, TypeOK, NetTypes, Task
  <2>1. JobGone(t.buff.job)
    BY <1>1 DEF OneServerInv, CopiesOwned, IsCopy, TypeOK, NetTypes, Task
  <2>2. t.buff.job # c
    BY <1>3, <2>1 DEF JobGone, Of
  <2>3. \A k \in Nodes \ {n} : acc'[k] = "v_sent" => cur'[k].job # t.buff.job
    BY <1>10 DEF WaitInv, TasksOwned, SameWork
  <2>4. acc'[n] = "v_sent" => cur'[n].job # t.buff.job
    BY <1>10, <1>11, <2>2
  <2> QED
    BY <2>3, <2>4
<1>14. SentOwned' /\ FinishRegistered'
  BY <1>4, OwnedFrame DEF WaitInv, IdsKept
<1>15. \A d \in Calls \ {c} : ~ (NodeOf[d] = n /\ WorksOn(d, Work))
  BY <1>7 DEF WorksOn, Of, m
<1>16. ASSUME Carried(c) PROVE Carried(c)'
  <2>1. ~ In(jobs, c)'
    BY <1>3, <1>5
  <2>2. ~ WorksOn(c, {"x_sent"})
    BY <1>1, <1>3 DEF WorksOn, Of
  <2>3. In(notify_finish, c) => WorksOn(c, {"v_job", "v_sent"})'
    <3>1. In(notify_finish, c) => m.reliable
      BY <1>3, InOwned DEF WaitInv
    <3> QED
      BY <1>3, <1>4, <1>10, <1>11, <3>1 DEF WorksOn, Of
  <2> QED
    BY <1>4, <1>6, <1>16, <2>1, <2>2, <2>3 DEF Carried
<1>17. NodeOf[c] = n
  BY <1>3 DEF Of
<1> QED
  BY <1>1, <1>4, <1>8, <1>9, <1>10, <1>12, <1>13, <1>14, <1>15, <1>16, <1>17,
     WaitFor


\* What is in notify_sent under the id of a call is the call.
LEMMA SentIs ==
  ASSUME IdsDistinct, SentOwned, NEW c \in Calls, NEW n \in Nodes, NEW i \in Ids,
         Of(c, n, i), notify_sent[n][i] \in Calls
  PROVE  notify_sent[n][i] = c
<1>1. PICK d \in Calls : d = notify_sent[n][i]
  OBVIOUS
<1>2. Of(d, n, i)
  BY <1>1 DEF SentOwned
<1> QED
  BY <1>1, <1>2 DEF Of, IdsDistinct

\* The transmission that starts repeats the job until the call is confirmed.
LEMMA WaitVSent ==
  ASSUME Base, TypeOK', WaitInv, NEW n \in Nodes, VSent(n)
  PROVE  WaitInv'
<1>0. /\ TypeOK /\ IdsDistinct /\ acc[n] = "v_sent"
      /\ cur[n] \in Message /\ cur[n].job \in Calls /\ cur[n].id \in Ids
  BY DEF Base, OneServerInv, ConfirmInv, VSent, TypeOK, AcceptorTypes, Busy, Message
<1>1. PICK m \in Message, j \in Calls, i \in Ids, c \in Calls \cup {NoCall} :
         m = cur[n] /\ j = m.job /\ i = m.id /\ c = notify_sent[n][i]
  BY <1>0 DEF TypeOK, IdMapTypes, IdMap
<1> DEFINE new == [notify |-> c, buff |-> m]
<1>2. \A k \in Nodes : acc[k] = "v_sent" =>
         /\ NodeOf[cur[k].job] = k /\ request_id[cur[k].job] = cur[k].id
         /\ JobGone(cur[k].job)
  <2> SUFFICES ASSUME NEW k \in Nodes, acc[k] = "v_sent"
               PROVE  /\ NodeOf[cur[k].job] = k /\ request_id[cur[k].job] = cur[k].id
                      /\ JobGone(cur[k].job)
    OBVIOUS
  <2>1. cur[k] \in Message /\ IsCopy(cur[k]) /\ cur[k].src = k
    BY <1>0, <1>1 DEF TypeOK, AcceptorTypes, Busy, IsCopy, WaitInv, Consistent
  <2> QED
    BY <2>1 DEF Base, OneServerInv, CopiesOwned
<1>3. Of(j, n, i) /\ ~ In(jobs, j)
  BY <1>0, <1>1, <1>2 DEF Of, JobGone, In, InMap
<1>4. c # NoCall => c = j
  BY <1>0, <1>1, <1>3, SentIs DEF WaitInv
<1>5. In(notify_sent, j) <=> c = j
  BY <1>0, <1>1, <1>3 DEF In, InMap, Of
<1>6. /\ UNCHANGED <<pc, request_id, winner, mapVars, permits, stops, exited>>
      /\ tasks' = IF c = NoCall THEN tasks ELSE tasks \cup {new}
      /\ NextTurn(n)
  BY <1>1 DEF VSent, callVars, histVars, lifeVars
<1>7. acc'[n] = "recv" /\ \A k \in Nodes \ {n} : SameWork(k)
  BY <1>0, <1>1, <1>6 DEF NextTurn, SameWork, TypeOK, AcceptorTypes
<1>8. shutdown' = [shutdown EXCEPT ![n] = FALSE] /\ tasks \subseteq tasks'
  BY <1>6 DEF NextTurn
<1>9. \A d \in Calls : SameView(d)
  BY <1>6, ViewSame
<1>10. SentOwned' /\ FinishRegistered'
  BY <1>6, OwnedFrame DEF WaitInv, mapVars, IdsKept
<1>11. Kept(j)' /\ Steady(j)
  BY <1>0, <1>1, <1>9, KeptFrame, SteadyFrame DEF WaitInv
<1>12. Consistent(n)'
  BY <1>7 DEF Consistent
<1>13. \A d \in Calls \ {j} : ~ (NodeOf[d] = n /\ WorksOn(d, Work))
  BY <1>0, <1>1, <1>3 DEF WorksOn, Of, IdsDistinct
<1>14. new.notify = c /\ new.buff = m
  OBVIOUS
<1>15. \A t \in tasks : t.buff.job # j
  BY <1>0, <1>1 DEF WaitInv, TasksOwned
<1>16. \A k \in Nodes : acc'[k] = "v_sent" =>
          /\ cur'[k].job # j
          /\ \A t \in tasks : cur'[k].job # t.buff.job
  <2> SUFFICES ASSUME NEW k \in Nodes \ {n}, acc'[k] = "v_sent"
               PROVE  /\ cur'[k].job # j
                      /\ \A t \in tasks : cur'[k].job # t.buff.job
    BY <1>7
  <2>1. acc[k] = "v_sent" /\ cur'[k] = cur[k]
    BY <1>7 DEF SameWork
  <2>2. cur[k].job # j
    BY <1>2, <1>3, <2>1 DEF Of
  <2>3. \A t \in tasks : cur[k].job # t.buff.job
    BY <2>1 DEF WaitInv, TasksOwned
  <2> QED
    BY <2>1, <2>2, <2>3
<1>17. \A d \in Calls : /\ In(notify_sent, d)' <=> In(notify_sent, d)
                        /\ <<"sent", d>> \in permits' <=> <<"sent", d>> \in permits
  BY <1>9 DEF SameView, SameMaps, SamePermits
<1> HIDE DEF new
<1>18. c = NoCall \/ c = j
  BY <1>4
<1>19. TasksOwned'
  <2> SUFFICES ASSUME NEW t \in tasks'
               PROVE  /\ t.notify = t.buff.job
                      /\ In(notify_sent, t.notify)'
                           \/ <<"sent", t.notify>> \in permits'
                      /\ \A u \in tasks' : t.buff.job = u.buff.job => t = u
                      /\ \A k \in Nodes : acc'[k] = "v_sent"
                                            => cur'[k].job # t.buff.job
    BY DEF TasksOwned
  <2>1. CASE t \in tasks
    <3>1. t.notify \in Calls /\ t.notify = t.buff.job
      BY <1>0, <1>1, <2>1 DEF TypeOK, NetTypes, Task, WaitInv, TasksOwned
    <3>2. In(notify_sent, t.notify)' \/ <<"sent", t.notify>> \in permits'
      BY <1>17, <2>1, <3>1 DEF WaitInv, TasksOwned
    <3>3. \A u \in tasks' : t.buff.job = u.buff.job => t = u
      <4> SUFFICES ASSUME NEW u \in tasks', t.buff.job = u.buff.job PROVE t = u
        OBVIOUS
      <4>1. CASE u \in tasks
        BY <2>1, <4>1 DEF WaitInv, TasksOwned
      <4>2. CASE u = new
        BY <1>1, <1>14, <1>15, <2>1, <4>2
      <4> QED
        BY <1>6, <4>1, <4>2
    <3> QED
      BY <1>16, <2>1, <3>1, <3>2, <3>3
  <2>2. CASE t \notin tasks
    <3>1. t = new /\ c = j
      BY <1>6, <1>18, <2>2
    <3>2. t.notify = j /\ t.buff.job = j /\ In(notify_sent, j)'
      BY <1>0, <1>1, <1>5, <1>14, <1>17, <3>1
    <3>3. \A u \in tasks' : t.buff.job = u.buff.job => t = u
      BY <1>6, <1>15, <3>1, <3>2
    <3> QED
      BY <1>16, <3>2, <3>3
  <2> QED
    BY <2>1, <2>2
<1>20. ASSUME Carried(j) PROVE Carried(j)'
  <2>1. ~ In(jobs, j)' /\ ~ WorksOn(j, {"x_sent"})
    BY <1>0, <1>1, <1>3, <1>9 DEF SameView, SameMaps, WorksOn, Of
  <2>2. In(notify_finish, j)' => \E t \in tasks' : t.notify = j
    <3> SUFFICES ASSUME In(notify_finish, j) PROVE \E t \in tasks' : t.notify = j
      BY <1>0, <1>1, <1>9 DEF SameView, SameMaps
    <3>1. In(notify_sent, j)
      BY <1>0, <1>1 DEF WaitInv, Kept, Confirming
    <3>2. c = j /\ j # NoCall
      BY <1>0, <1>1, <1>5, <3>1, CallsAssumption
    <3> QED
      BY <1>6, <1>14, <3>2
  <2>4. In(notify_finish, j)' <=> In(notify_finish, j)
    BY <1>0, <1>1, <1>9 DEF SameView, SameMaps
  <2>5. In(notify_sent, j)' <=> In(notify_sent, j)
    BY <1>0, <1>1, <1>17
  <2> QED
    BY <1>6, <1>20, <2>1, <2>2, <2>4, <2>5 DEF Carried
<1> QED
  BY <1>0, <1>1, <1>6, <1>7, <1>8, <1>9, <1>10, <1>11, <1>12, <1>13, <1>19, <1>20, WaitFor

\* The confirmation wakes the call, and its transmission is about to be ended.
LEMMA WaitRecvX ==
  ASSUME Base, TypeOK', WaitInv, NEW m \in net, RecvX(m)
  PROVE  WaitInv'
<1> DEFINE n == m.dst
<1>1. /\ TypeOK /\ IdsDistinct /\ FinishOwned
      /\ n \in Nodes /\ m \in Message /\ m.id \in Ids /\ acc[n] = "recv"
  BY ArrivesType DEF Base, OneServerInv, ConfirmInv, RecvX, Arrives
<1>2. UNCHANGED <<pc, request_id, winner, jobs, notify_discovery, notify_sent, tasks,
                  stops, exited>>
  BY DEF RecvX, callVars, lifeVars, histVars
<1>3. CASE notify_finish[n][m.id] = NoCall
  <2>1. NextTurn(n) /\ UNCHANGED <<notify_finish, permits>>
    BY <1>3 DEF RecvX
  <2> QED
    BY <1>1, <1>2, <2>1, WaitIdle DEF NextTurn, mapVars, Work
<1>4. CASE notify_finish[n][m.id] # NoCall
  <2>1. PICK c \in Calls : c = notify_finish[n][m.id]
    BY <1>1, <1>4 DEF TypeOK, IdMapTypes, IdMap
  <2>2. /\ Of(c, n, m.id) /\ c \in Reliable /\ pc[c] \in Registered
        /\ In(notify_finish, c)
    BY <1>1, <2>1 DEF FinishOwned, WaitInv, FinishRegistered, Of, In, InMap
  <2>3. /\ Continue(n, "x_sent", m)
        /\ notify_finish' = Remove(notify_finish, n, m.id)
        /\ permits' = permits \cup {<<"finish", c>>}
    BY <1>4, <2>1, CallsAssumption DEF RecvX, Wake
  <2>4. /\ acc'[n] = "x_sent" /\ cur'[n] = m
        /\ \A k \in Nodes \ {n} : SameWork(k)
    BY <1>1, <2>3 DEF Continue, SameWork, TypeOK, AcceptorTypes
  <2>5. \A d \in Calls : In(notify_finish, d)' <=>
                           In(notify_finish, d) /\ ~ Of(d, n, m.id)
    <3>1. \A d \in Calls : In(Remove(notify_finish, n, m.id), d) <=>
                             In(notify_finish, d) /\ ~ Of(d, n, m.id)
      BY <1>1, RemoveIn DEF TypeOK, IdMapTypes
    <3> QED
      BY <1>2, <2>3, <3>1 DEF In, InMap
  <2>6. \A d \in Calls : /\ In(jobs, d)' <=> In(jobs, d)
                         /\ In(notify_discovery, d)' <=> In(notify_discovery, d)
                         /\ In(notify_sent, d)' <=> In(notify_sent, d)
    BY <1>2, InSame
  <2>7. \A d \in Calls \ {c} : ~ Of(d, n, m.id)
    BY <1>1, <2>2 DEF Of, IdsDistinct
  <2>8. ASSUME NEW d \in Calls \ {c} PROVE SameView(d)
    BY <1>2, <2>3, <2>5, <2>6, <2>7 DEF SameView, SamePermits, SameMaps
  <2>9. <<"finish", c>> \in permits'
    BY <2>3
  <2>10. <<"sent", c>> \in permits' <=> <<"sent", c>> \in permits
    BY <2>3
  <2>11. ~ In(notify_finish, c)' /\ pc'[c] = pc[c] /\ winner'[c] = winner[c]
    BY <1>2, <2>2, <2>5
  <2>12. <<"discovery", c>> \in permits' <=> <<"discovery", c>> \in permits
    BY <2>3
  <2>13. Kept(c)'
    <3>1. Discovering(c)'
      BY <2>6, <2>11, <2>12 DEF WaitInv, Kept, Discovering
    <3>2. Confirming(c)'
      BY <2>2, <2>9, <2>11 DEF Confirming, Registered
    <3> QED
      BY <3>1, <3>2 DEF Kept
  <2>14. Consistent(n)'
    BY <1>2, <2>2, <2>4, <2>11 DEF Consistent, Of
  <2>15. \A d \in Calls : <<"sent", d>> \in permits' <=> <<"sent", d>> \in permits
    BY <2>8, <2>10 DEF SameView, SamePermits
  <2>16. TasksOwned'
    BY <1>1, <1>2, <2>4, <2>6, <2>15, TasksFrame DEF WaitInv
  <2>17. SentOwned' /\ FinishRegistered'
    <3>1. \A k \in Nodes, i \in Ids :
            notify_finish'[k][i] \in Calls => notify_finish'[k][i] = notify_finish[k][i]
      BY <1>1, <2>3, CallsAssumption DEF Remove, TypeOK, IdMapTypes, IdMap
    <3> QED
      BY <1>2, <3>1, OwnedFrame DEF WaitInv, IdsKept
  <2>18. \A d \in Calls : NodeOf[d] = n => ~ WorksOn(d, Work)
    BY <1>1 DEF WorksOn, Work
  <2>19. WorksOn(c, {"x_sent"})'
    BY <1>2, <2>2, <2>4 DEF WorksOn, Of
  <2>20. ASSUME Carried(c) PROVE Carried(c)'
    BY <1>2, <2>2, <2>6, <2>11, <2>18, <2>19, <2>20, NotCarried DEF Carried, Of
  <2>21. Steady(c) \/ NodeOf[c] = n
    BY <2>2 DEF Of
  <2> HIDE DEF n
  <2>22. UNCHANGED shutdown
    BY <2>3 DEF Continue
  <2> QED
    BY <1>1, <1>2, <2>4, <2>8, <2>13, <2>14, <2>16, <2>17, <2>18, <2>20, <2>21,
       <2>22, WaitFor
<1> QED
  BY <1>3, <1>4

\* A confirmed transmission is forgotten, and its task is told to end.
LEMMA WaitXSent ==
  ASSUME Base, TypeOK', WaitInv, NEW n \in Nodes, XSent(n)
  PROVE  WaitInv'
<1> DEFINE i == cur[n].id
           e == notify_sent[n][i]
<1>1. TypeOK /\ IdsDistinct /\ acc[n] = "x_sent" /\ i \in Ids
  BY DEF Base, OneServerInv, ConfirmInv, XSent, TypeOK, AcceptorTypes, Busy, Message
<1>2. PICK c \in Calls : /\ Of(c, n, i) /\ pc[c] \in Registered
                         /\ ~ In(notify_finish, c)
  BY <1>1 DEF WaitInv, Consistent
<1>3. e = NoCall \/ e = c
  BY <1>1, <1>2, SentIs DEF TypeOK, IdMapTypes, IdMap, WaitInv
<1>4. In(notify_sent, c) => e = c
  BY <1>2 DEF In, InMap, Of
<1>5. /\ UNCHANGED <<pc, request_id, winner, jobs, notify_discovery, notify_finish,
                     tasks, stops, exited>>
      /\ notify_sent' = Remove(notify_sent, n, i)
      /\ permits' = permits \cup Wake("sent", e)
      /\ NextTurn(n)
  BY DEF XSent, callVars, histVars, lifeVars
<1>6. acc'[n] = "recv" /\ \A k \in Nodes \ {n} : SameWork(k)
  BY <1>1, <1>5 DEF NextTurn, SameWork, TypeOK, AcceptorTypes
<1>7. \A d \in Calls : In(notify_sent, d)' <=> In(notify_sent, d) /\ ~ Of(d, n, i)
  <2>1. \A d \in Calls : In(Remove(notify_sent, n, i), d) <=>
                           In(notify_sent, d) /\ ~ Of(d, n, i)
    BY <1>1, RemoveIn DEF TypeOK, IdMapTypes
  <2> QED
    BY <1>5, <2>1 DEF In, InMap
<1>8. \A d \in Calls : /\ In(jobs, d)' <=> In(jobs, d)
                       /\ In(notify_discovery, d)' <=> In(notify_discovery, d)
                       /\ In(notify_finish, d)' <=> In(notify_finish, d)
  BY <1>5, InSame
<1>9. \A d \in Calls \ {c} : ~ Of(d, n, i)
  BY <1>1, <1>2 DEF Of, IdsDistinct
<1>10. permits' = permits \/ permits' = permits \cup {<<"sent", c>>}
  BY <1>3, <1>5 DEF Wake
<1> HIDE DEF i
<1>11. ASSUME NEW d \in Calls \ {c} PROVE SameView(d)
  BY <1>5, <1>7, <1>8, <1>9, <1>10 DEF SameView, SamePermits, SameMaps
<1>12. /\ <<"discovery", c>> \in permits'
           <=> <<"discovery", c>> \in permits
       /\ <<"finish", c>> \in permits'
           <=> <<"finish", c>> \in permits
  BY <1>10
<1>13. Kept(c)'
  <2>1. Discovering(c)'
    BY <1>2, <1>5, <1>8, <1>12 DEF WaitInv, Kept, Discovering
  <2>2. Confirming(c)'
    BY <1>2, <1>5, <1>8, <1>12 DEF WaitInv, Kept, Confirming, Registered
  <2> QED
    BY <2>1, <2>2 DEF Kept
<1>14. Consistent(n)'
  BY <1>6 DEF Consistent
<1>15. In(notify_sent, c) \/ <<"sent", c>> \in permits => <<"sent", c>> \in permits'
  BY <1>4, <1>5, <1>10, CallsAssumption DEF Wake
<1>16. TasksOwned'
  <2>1. \A d \in Calls \ {c} :
          In(notify_sent, d) \/ <<"sent", d>> \in permits
            => In(notify_sent, d)' \/ <<"sent", d>> \in permits'
    BY <1>11 DEF SameView, SameMaps, SamePermits
  <2>2. \A k \in Nodes : acc'[k] = "v_sent" => SameWork(k)
    BY <1>6
  <2> QED
    BY <1>1, <1>5, <1>15, <2>1, <2>2, TasksFrame DEF WaitInv
<1>17. SentOwned' /\ FinishRegistered'
  <2>1. \A k \in Nodes, h \in Ids :
          notify_sent'[k][h] \in Calls => notify_sent'[k][h] = notify_sent[k][h]
    BY <1>1, <1>5, CallsAssumption DEF Remove, TypeOK, IdMapTypes, IdMap
  <2> QED
    BY <1>5, <2>1, OwnedFrame DEF WaitInv, IdsKept
<1>18. \A d \in Calls \ {c} : ~ (NodeOf[d] = n /\ WorksOn(d, Work))
  BY <1>9 DEF WorksOn, Of, i
<1>19. ASSUME Carried(c) PROVE Carried(c)'
  <2>1. ~ WorksOn(c, {"v_job"}) /\ ~ In(notify_finish, c)' /\ ~ In(notify_sent, c)'
    BY <1>1, <1>2, <1>7, <1>8 DEF WorksOn, Of
  <2> QED
    BY <1>5, <1>8, <1>19, <2>1 DEF Carried
<1>20. NodeOf[c] = n /\ shutdown' = [shutdown EXCEPT ![n] = FALSE]
  BY <1>2, <1>5 DEF Of, NextTurn
<1> QED
  BY <1>1, <1>5, <1>6, <1>11, <1>13, <1>14, <1>16, <1>17, <1>18, <1>19, <1>20, WaitFor

\* A task ends when nobody waits for what it repeats.
LEMMA WaitTaskEnd ==
  ASSUME Base, TypeOK', WaitInv, NEW t \in tasks, TaskEnd(t)
  PROVE  WaitInv'
<1> DEFINE c == t.notify
<1>1. /\ TypeOK /\ c \in Calls /\ c = t.buff.job /\ <<"sent", c>> \in permits
      /\ \A u \in tasks : u.notify = c => u = t
  BY DEF Base, OneServerInv, TypeOK, NetTypes, Task, TaskEnd, WaitInv, TasksOwned
<1>2. /\ UNCHANGED <<acc, cur, shutdown, stops, exited, pc, request_id, winner>>
      /\ UNCHANGED mapVars
      /\ permits' = permits \ {<<"sent", c>>} /\ tasks' = tasks \ {t}
  BY DEF TaskEnd, accVars, lifeVars, callVars, histVars
<1>3. ~ In(notify_finish, c) /\ Kept(c)
  BY <1>1 DEF WaitInv, Kept, Confirming
<1> HIDE DEF c
<1>4. \A d \in Calls : SameMaps(d)
  BY <1>2, InSame DEF SameMaps, mapVars
<1>5. \A d \in Calls \ {c} : SamePermits(d)
  BY <1>2 DEF SamePermits
<1>6. <<"finish", c>> \in permits' <=> <<"finish", c>> \in permits
  BY <1>2
<1>7. <<"sent", c>> \notin permits'
  BY <1>2
<1>8. <<"discovery", c>> \in permits' <=> <<"discovery", c>> \in permits
  BY <1>2
<1>9. \A d \in Calls \ {c} : SameView(d)
  BY <1>2, <1>4, <1>5 DEF SameView
<1>10. \A d \in Calls : Kept(d)'
  <2>1. Kept(c)'
    BY <1>1, <1>2, <1>3, <1>4, <1>6, <1>7, <1>8
       DEF Kept, Discovering, Confirming, SameMaps
  <2> QED
    BY <1>9, <2>1, KeptFrame DEF WaitInv
<1>11. \A d \in Calls : Steady(d)
  BY <1>2, <1>4 DEF Steady, SameMaps
<1>12. \A n \in Nodes : SameWork(n)
  BY <1>2 DEF SameWork
<1>13. \A n \in Nodes : Consistent(n)'
  BY <1>1, <1>11, <1>12, ConsistentFrame DEF WaitInv
<1>14. TasksOwned'
  <2>1. \A d \in Calls, u \in tasks' : u.notify = d => d # c
    BY <1>1, <1>2
  <2>2. \A d \in Calls \ {c} :
          In(notify_sent, d) \/ <<"sent", d>> \in permits
            => In(notify_sent, d)' \/ <<"sent", d>> \in permits'
    BY <1>9 DEF SameView, SameMaps, SamePermits
  <2> QED
    BY <1>1, <1>2, <1>12, <2>1, <2>2, TasksFrame DEF WaitInv
<1>15. SentOwned' /\ FinishRegistered'
  BY <1>2, OwnedFrame DEF WaitInv, mapVars, IdsKept
<1>16. StoppedByStop'
  BY <1>2 DEF WaitInv, StoppedByStop
<1>17. ASSUME NEW d \in Undisturbed' PROVE Carried(d)'
  <2>1. d \in Calls /\ NodeOf[d] \in Nodes /\ Carried(d)
    BY <1>2, CallsAssumption DEF Undisturbed, WaitInv
  <2>2. CASE d = c
    <3>1. \A labels : WorksOn(c, labels)' <=> WorksOn(c, labels)
      BY <1>2 DEF WorksOn
    <3> QED
      BY <1>1, <1>2, <1>3, <1>4, <2>1, <2>2, <3>1 DEF Carried, SameMaps
  <2>3. CASE d # c
    <3>1. \A u \in tasks : u.notify = d => u \in tasks'
      BY <1>2, <2>3 DEF c
    <3> QED
      BY <1>9, <1>12, <2>1, <2>3, <3>1, CarriedFrame
  <2> QED
    BY <2>2, <2>3
<1> QED
  BY <1>10, <1>13, <1>14, <1>15, <1>16, <1>17 DEF WaitInv

\* Every step keeps what waits, where the earlier invariants hold.
LEMMA WaitNext ==
  Base /\ Base' /\ WaitInv /\ [Next]_vars => WaitInv'
<1> SUFFICES ASSUME Base, Base', WaitInv, [Next]_vars PROVE WaitInv'
  OBVIOUS
<1>1. TypeOK /\ TypeOK'
  BY DEF Base, OneServerInv
<1>2. ASSUME NEW e, AddServer(e[1], e[2], e[3]) \/ On(e[1], e[2]) PROVE WaitInv'
  BY <1>1, <1>2, WaitAside
<1>3. ASSUME NEW c \in Calls, SendLookup(c) \/ SendTick(c) \/ SendStep(c)
      PROVE  WaitInv'
  <2>1. CASE SendTick(c) \/ SendExit(c)
    BY <1>1, <2>1, WaitAside
  <2>2. CASE ~ (SendTick(c) \/ SendExit(c))
    BY <1>1, <1>3, <2>2, WaitSend DEF SendStep
  <2> QED
    BY <2>1, <2>2
<1>4. ASSUME NEW n \in Nodes,
             StartStep(n) \/ Stop(n) \/ Break(n) \/ AcceptorStep(n)
      PROVE  WaitInv'
  BY <1>1, <1>4, WaitStart, WaitServe, WaitVJob, WaitVSent, WaitXSent DEF AcceptorStep
<1>5. ASSUME NEW m \in net, Receive(m) PROVE WaitInv'
  BY <1>1, <1>5, WaitServe, WaitRecvV, WaitRecvX DEF Receive
<1>6. ASSUME NEW m \in net, Lose(m) PROVE WaitInv'
  BY <1>1, <1>6, WaitAside
<1>7. ASSUME NEW t \in tasks, TaskTick(t) \/ TaskEnd(t) PROVE WaitInv'
  BY <1>1, <1>7, WaitAside, WaitTaskEnd
<1>8. CASE UNCHANGED vars
  BY <1>1, <1>8, WaitAside
<1> QED
  BY <1>2, <1>3, <1>4, <1>5, <1>6, <1>7, <1>8 DEF Next

\* The invariants of waiting hold throughout.
LEMMA WaitInvariant ==
  ASSUME DistinctIds
  PROVE  Spec => [](Base /\ WaitInv)
<1>1. Spec => []Base
  BY ChooseInvariant, PTL DEF Base
<1> QED
  BY <1>1, WaitInit, WaitNext, PTL DEF Spec

-----------------------------------------------------------------------------
(* What it means for a call.                                               *)

\* A call that waits, at a node that is neither stopped nor gone, can be woken:
\* the critical sections of send() and start(), which each lock one map, never
\* leave it in none of the maps without a permit.
THEOREM NoCallIsStranded == DistinctIds => (Spec => []NeverStranded)
<1> SUFFICES ASSUME DistinctIds PROVE Spec => []NeverStranded
  OBVIOUS
<1>1. Base /\ WaitInv => NeverStranded
  <2> SUFFICES ASSUME Base, WaitInv, NEW c \in Undisturbed
               PROVE  /\ pc[c] = "discover" =>
                           \/ <<"discovery", c>> \in permits
                           \/ InMap(notify_discovery, c) /\ InMap(jobs, c)
                      /\ pc[c] = "await" =>
                           \/ <<"finish", c>> \in permits
                           \/ /\ InMap(notify_finish, c) /\ InMap(notify_sent, c)
                              /\ \/ /\ acc[NodeOf[c]] \in {"v_job", "v_sent"}
                                    /\ cur[NodeOf[c]].id = request_id[c]
                                 \/ \E t \in tasks : t.notify = c /\ t.buff.job = c
    BY DEF NeverStranded
  <2>1. c \in Calls /\ Kept(c) /\ Carried(c)
    BY DEF WaitInv, Undisturbed
  <2>2. ASSUME pc[c] = "discover"
        PROVE  \/ <<"discovery", c>> \in permits
               \/ InMap(notify_discovery, c) /\ InMap(jobs, c)
    BY <2>1, <2>2 DEF Kept, Discovering, Asking, Numbered, In
  <2>3. ASSUME pc[c] = "await", <<"finish", c>> \notin permits
        PROVE  /\ InMap(notify_finish, c) /\ InMap(notify_sent, c)
               /\ \/ /\ acc[NodeOf[c]] \in {"v_job", "v_sent"}
                     /\ cur[NodeOf[c]].id = request_id[c]
                  \/ \E t \in tasks : t.notify = c /\ t.buff.job = c
    <3>1. In(notify_finish, c) /\ In(notify_sent, c)
      BY <2>1, <2>3 DEF Kept, Confirming
    <3>2. winner[c] # {}
      BY <2>1, <2>3 DEF Base, AskInv, ReturnedChosen
    <3>3. WorksOn(c, {"v_job", "v_sent"}) \/ \E t \in tasks : t.notify = c
      BY <2>1, <3>1, <3>2 DEF Carried
    <3>4. \A t \in tasks : t.notify = t.buff.job
      BY DEF WaitInv, TasksOwned
    <3> QED
      BY <3>1, <3>3, <3>4 DEF In, WorksOn
  <2> QED
    BY <2>2, <2>3
<1> QED
  BY <1>1, WaitInvariant, PTL

\* A map that holds a call holds it under the call's own id.
LEMMA HeldByItsId ==
  ASSUME NEW c \in Calls, NEW n, n = NodeOf[c], NEW i \in Ids, NEW map,
         map[n][i] = c, Of(map[n][i], n, i)
  PROVE  In(map, c)
BY DEF In, InMap, Of

\* When a call has returned and the acceptor of its node is between two
\* datagrams, start() has taken its id out of all four maps, and the only task
\* that may be left of it has been told to end.
THEOREM ReturnedLeavesNothing == DistinctIds => (Spec => []NothingLeftBehind)
<1> SUFFICES ASSUME DistinctIds PROVE Spec => []NothingLeftBehind
  OBVIOUS
<1>1. Base /\ WaitInv => NothingLeftBehind
  <2> SUFFICES ASSUME Base, WaitInv, NEW c \in Undisturbed,
                      pc[c] = "returned", acc[NodeOf[c]] = "recv"
               PROVE  /\ \A i \in Ids :
                           /\ jobs[NodeOf[c]][i] # c
                           /\ notify_discovery[NodeOf[c]][i] # c
                           /\ notify_sent[NodeOf[c]][i] # c
                           /\ notify_finish[NodeOf[c]][i] # c
                      /\ \A t \in tasks : t.notify = c => <<"sent", c>> \in permits
    BY DEF NothingLeftBehind
  <2>1. c \in Calls /\ NodeOf[c] \in Nodes /\ Kept(c) /\ Carried(c)
    BY CallsAssumption DEF WaitInv, Undisturbed
  <2>2. winner[c] # {} /\ ~ WorksOn(c, Work)
    BY <2>1 DEF Base, AskInv, ReturnedChosen, WorksOn, Work
  <2>3. ~ In(notify_finish, c)
    BY <2>1 DEF Kept, Confirming
  <2>4. ~ In(jobs, c) /\ ~ In(notify_sent, c)
    BY <2>1, <2>2, <2>3, NotCarried DEF Registered
  <2>5. ASSUME NEW i \in Ids
        PROVE  /\ jobs[NodeOf[c]][i] # c /\ notify_discovery[NodeOf[c]][i] # c
               /\ notify_sent[NodeOf[c]][i] # c /\ notify_finish[NodeOf[c]][i] # c
    <3>1. jobs[NodeOf[c]][i] # c
      BY <2>1, <2>4, HeldByItsId DEF Base, OneServerInv, JobsOwned, Of
    <3>2. notify_discovery[NodeOf[c]][i] # c
      BY <2>1, <2>2 DEF Base, AskInv, DiscoveryOwned
    <3>3. notify_sent[NodeOf[c]][i] # c
      BY <2>1, <2>4, HeldByItsId DEF WaitInv, SentOwned
    <3>4. notify_finish[NodeOf[c]][i] # c
      BY <2>1, <2>3, HeldByItsId DEF Base, ConfirmInv, FinishOwned, Of
    <3> QED
      BY <3>1, <3>2, <3>3, <3>4
  <2>6. \A t \in tasks : t.notify = c => <<"sent", c>> \in permits
    BY <2>4 DEF WaitInv, TasksOwned
  <2> QED
    BY <2>5, <2>6
<1> QED
  BY <1>1, WaitInvariant, PTL
=============================================================================
