-------------------------------- MODULE UMQT --------------------------------
(***************************************************************************)
(* The UMQT transport of native/src/transport/umqt.rs: nodes that run      *)
(* one acceptor each, blocking calls of send() from application threads,   *)
(* the retransmission tasks, and UDP between them.                         *)
(*                                                                         *)
(* A call of send() asks every server of its topic who will take the job   *)
(* ("i"), sends the job ("_") to the server whose answer ("v") it takes    *)
(* first, and, when reliable, repeats it until the server confirms ("x").  *)
(***************************************************************************)
EXTENDS Naturals

CONSTANTS
  Nodes, Topics, Calls, Ids,
  NodeOf,        \* the node each call of send() is made on
  TopicOf,       \* the topic of each call
  Reliable,      \* the calls with is_reliable = true
  Oversized,     \* <<c, n>>: the job of call c does not fit the block of node n
  ServerTable,   \* <<n, t, s>>: node n may call add_server for server s of t
  HandlerTable,  \* <<n, t>>: node n may call on() for topic t
  DistinctIds,   \* TRUE: the clock never gives one node the same id twice
  Duplicating,   \* TRUE: UDP may deliver a datagram more than once
  MaxStops,      \* bound: how often each node's application calls stop()
  NoCall, NoMsg, NoId

HandledCap == 2  \* bound: the handler counter saturates here

ASSUME CallsAssumption ==
  /\ NoCall \notin Calls /\ NoId \notin Ids
  /\ NodeOf \in [Calls -> Nodes] /\ TopicOf \in [Calls -> Topics]
  /\ Reliable \subseteq Calls /\ Oversized \subseteq Calls \X Nodes
ASSUME TablesAssumption ==
  /\ ServerTable \subseteq Nodes \X Topics \X Nodes
  /\ HandlerTable \subseteq Nodes \X Topics
  /\ DistinctIds \in BOOLEAN /\ Duplicating \in BOOLEAN
  /\ MaxStops \in [Nodes -> Nat]

Prefixes == {"i", "v", "x", "_"}

\* A datagram: the JSON context, the job it carries (named by the call whose
\* bytes they are) and the socket addresses.
Message == [prefix: Prefixes, id: Ids, reliable: BOOLEAN, topic: Topics,
            job: Calls \cup {NoCall}, src: Nodes, dst: Nodes]
ASSUME NoMsgAssumption == NoMsg \notin Message

VARIABLES
  topic_servers,     \* per node and topic, the servers added so far
  consumers,         \* per node, the topics with a handler
  socket,            \* per node: socket is Some, send() may go on
  exited,            \* nodes whose process called exit(1)
  acc,               \* where the thread in start() is
  cur,               \* the message the acceptor is working on
  shutdown,          \* this iteration's Notified was woken by stop()
  stops,             \* how often stop() was called
  jobs, notify_discovery, notify_sent, notify_finish,  \* the maps by id
  permits,           \* <<kind, call>>: a Notify that holds a permit
  pc, request_id, targets,  \* the calls of send()
  tasks,             \* retransmission tasks that run
  net,               \* datagrams under way
  received,          \* history: <<call, node>>, the job reached the node
  handled,           \* history: how often a node's handler got the job
  winner             \* history: the server whose answer a call took, if any

confVars == <<topic_servers, consumers>>
accVars  == <<acc, cur, shutdown>>
lifeVars == <<socket, exited, stops>>
mapVars  == <<jobs, notify_discovery, notify_sent, notify_finish>>
callVars == <<pc, request_id, targets>>
histVars == <<received, handled, winner>>
vars == <<confVars, accVars, lifeVars, mapVars, callVars, histVars,
          permits, tasks, net>>

AccStates == {"off", "bound", "recv", "v_job", "v_sent", "x_sent", "handler",
              "closing"}
\* The states in which start() is in its loop, with a live Notified.
Looping == {"recv", "v_job", "v_sent", "x_sent", "handler"}
\* The await points of the acceptor: select! may be polled again there. What is
\* dropped at the send_to of an answer is a datagram just read: Lose covers it.
AwaitPoints == {"recv", "v_sent", "x_sent"}
\* The states in which the acceptor works on a message.
Busy == {"v_job", "v_sent", "x_sent", "handler"}

PCs == {"idle", "unrouted", "socket", "insert_job", "insert_discovery",
        "insert_sent", "insert_finish", "discover", "await", "returned"}
\* The states in which a call holds a clone of the socket.
Holding == {"insert_job", "insert_discovery", "insert_sent", "insert_finish",
            "discover", "await"}
\* The states of a call that has its id.
Numbered == {"insert_discovery", "insert_sent", "insert_finish", "discover",
             "await", "returned"}

Task == [notify: Calls, buff: Message]
IdMap == [Nodes -> [Ids -> Calls \cup {NoCall}]]

Init ==
  /\ topic_servers = [n \in Nodes |-> [t \in Topics |-> {}]]
  /\ consumers = [n \in Nodes |-> {}]
  /\ socket = [n \in Nodes |-> FALSE]
  /\ exited = {}
  /\ acc = [n \in Nodes |-> "off"]
  /\ cur = [n \in Nodes |-> NoMsg]
  /\ shutdown = [n \in Nodes |-> FALSE]
  /\ stops = [n \in Nodes |-> 0]
  /\ jobs = [n \in Nodes |-> [i \in Ids |-> NoCall]]
  /\ notify_discovery = jobs /\ notify_sent = jobs /\ notify_finish = jobs
  /\ permits = {}
  /\ pc = [c \in Calls |-> "idle"]
  /\ request_id = [c \in Calls |-> NoId]
  /\ targets = [c \in Calls |-> {}]
  /\ tasks = {}
  /\ net = {}
  /\ received = {}
  /\ handled = [c \in Calls |-> [n \in Nodes |-> 0]]
  /\ winner = [c \in Calls |-> {}]

Insert(map, n, i, c) == [map EXCEPT ![n][i] = c]
\* Mutant of Remove: HashMap::get where the code has remove.
GetOnly(map, n, i) == map
Remove(map, n, i) == [map EXCEPT ![n][i] = NoCall]

\* Mutant of Wake: the permit is not stored.
WakeNobody(kind, c) == {}
\* notify_one() on the Notify of call c, if there is one.
Wake(kind, c) == IF c = NoCall THEN {} ELSE {<<kind, c>>}

-----------------------------------------------------------------------------
(* Configuration: the application's calls of add_server and on.            *)

AddServer(n, t, s) ==
  /\ <<n, t, s>> \in ServerTable /\ n \notin exited
  /\ topic_servers' = [topic_servers EXCEPT ![n][t] = @ \cup {s}]
  /\ UNCHANGED <<consumers, accVars, lifeVars, mapVars, callVars, histVars,
                 permits, tasks, net>>

On(n, t) ==
  /\ <<n, t>> \in HandlerTable /\ n \notin exited
  /\ consumers' = [consumers EXCEPT ![n] = @ \cup {t}]
  /\ UNCHANGED <<topic_servers, accVars, lifeVars, mapVars, callVars, histVars,
                 permits, tasks, net>>

-----------------------------------------------------------------------------
(* send(): one step per critical section.                                  *)

Goto(c, label) == pc' = [pc EXCEPT ![c] = label]
At(c, label) == pc[c] = label /\ NodeOf[c] \notin exited

SendLookup(c) ==
  LET servers == topic_servers[NodeOf[c]][TopicOf[c]]
  IN  /\ At(c, "idle")
      /\ Goto(c, IF servers = {} THEN "unrouted" ELSE "socket")
      /\ targets' = [targets EXCEPT ![c] = servers]
      /\ UNCHANGED <<confVars, accVars, lifeVars, mapVars, request_id,
                     histVars, permits, tasks, net>>

SendSocket(c) ==
  /\ At(c, "socket") /\ socket[NodeOf[c]]
  /\ Goto(c, "insert_job")
  /\ UNCHANGED <<confVars, accVars, lifeVars, mapVars, request_id, targets,
                 histVars, permits, tasks, net>>

\* "producer called before start()": process::exit(1)
SendExit(c) ==
  /\ At(c, "socket") /\ ~ socket[NodeOf[c]]
  /\ exited' = exited \cup {NodeOf[c]}
  /\ UNCHANGED <<confVars, accVars, socket, stops, mapVars, callVars, histVars,
                 permits, tasks, net>>

\* Mutant of RequestIds: a clock too coarse to tell two calls apart.
CoarseIds(c) == Ids
\* What generate_request_id() can return: the clock in nanoseconds.
RequestIds(c) ==
  {i \in Ids : DistinctIds =>
     \A d \in Calls : NodeOf[d] = NodeOf[c] => request_id[d] # i}

SendInsertJob(c) ==
  /\ At(c, "insert_job")
  /\ \E i \in RequestIds(c) :
       /\ request_id' = [request_id EXCEPT ![c] = i]
       /\ jobs' = Insert(jobs, NodeOf[c], i, c)
  /\ Goto(c, "insert_discovery")
  /\ UNCHANGED <<confVars, accVars, lifeVars, notify_discovery, notify_sent,
                 notify_finish, targets, histVars, permits, tasks, net>>

\* Mutant of AfterInsertDiscovery: the query goes out unregistered.
AskAtOnce(c) == "discover"
AfterInsertDiscovery(c) == IF c \in Reliable THEN "insert_sent" ELSE "discover"

SendInsertDiscovery(c) ==
  /\ At(c, "insert_discovery")
  /\ notify_discovery' =
       Insert(notify_discovery, NodeOf[c], request_id[c], c)
  /\ Goto(c, AfterInsertDiscovery(c))
  /\ UNCHANGED <<confVars, accVars, lifeVars, jobs, notify_sent, notify_finish,
                 request_id, targets, histVars, permits, tasks, net>>

SendInsertSent(c) ==
  /\ At(c, "insert_sent")
  /\ notify_sent' = Insert(notify_sent, NodeOf[c], request_id[c], c)
  /\ Goto(c, "insert_finish")
  /\ UNCHANGED <<confVars, accVars, lifeVars, jobs, notify_discovery,
                 notify_finish, request_id, targets, histVars, permits, tasks,
                 net>>

SendInsertFinish(c) ==
  /\ At(c, "insert_finish")
  /\ notify_finish' = Insert(notify_finish, NodeOf[c], request_id[c], c)
  /\ Goto(c, "discover")
  /\ UNCHANGED <<confVars, accVars, lifeVars, jobs, notify_discovery,
                 notify_sent, request_id, targets, histVars, permits, tasks,
                 net>>

Query(c, s) ==
  [prefix |-> "i", id |-> request_id[c], reliable |-> c \in Reliable,
   topic |-> TopicOf[c], job |-> NoCall, src |-> NodeOf[c], dst |-> s]

\* A tick of the 300 ms interval: ask every server again.
SendTick(c) ==
  /\ At(c, "discover")
  /\ net' = net \cup {Query(c, s) : s \in targets[c]}
  /\ UNCHANGED <<confVars, accVars, lifeVars, mapVars, callVars, histVars,
                 permits, tasks>>

\* Mutant of AfterDiscovery: the confirmation is not waited for.
ReturnAtOnce(c) == "returned"
AfterDiscovery(c) == IF c \in Reliable THEN "await" ELSE "returned"

SendDiscovered(c) ==
  /\ At(c, "discover") /\ <<"discovery", c>> \in permits
  /\ permits' = permits \ {<<"discovery", c>>}
  /\ Goto(c, AfterDiscovery(c))
  /\ UNCHANGED <<confVars, accVars, lifeVars, mapVars, request_id, targets,
                 histVars, tasks, net>>

SendFinished(c) ==
  /\ At(c, "await") /\ <<"finish", c>> \in permits
  /\ permits' = permits \ {<<"finish", c>>}
  /\ Goto(c, "returned")
  /\ UNCHANGED <<confVars, accVars, lifeVars, mapVars, request_id, targets,
                 histVars, tasks, net>>

-----------------------------------------------------------------------------
(* start() and stop().                                                     *)

\* bind fails while any clone of the node's last socket is alive: in a call
\* that waits or in a retransmission task.
PortFree(n) ==
  /\ \A c \in Calls : NodeOf[c] = n => pc[c] \notin Holding
  /\ \A t \in tasks : t.buff.src # n

StartBind(n) ==
  /\ acc[n] = "off" /\ n \notin exited /\ PortFree(n)
  /\ acc' = [acc EXCEPT ![n] = "bound"]
  /\ UNCHANGED <<confVars, cur, shutdown, lifeVars, mapVars, callVars,
                 histVars, permits, tasks, net>>

\* A fresh turn of the select! loop: stop() so far no longer counts.
NextTurn(n) ==
  /\ acc' = [acc EXCEPT ![n] = "recv"]
  /\ cur' = [cur EXCEPT ![n] = NoMsg]
  /\ shutdown' = [shutdown EXCEPT ![n] = FALSE]

StartPublish(n) ==
  /\ acc[n] = "bound" /\ n \notin exited
  /\ socket' = [socket EXCEPT ![n] = TRUE]
  /\ NextTurn(n)
  /\ UNCHANGED <<confVars, exited, stops, mapVars, callVars, histVars, permits,
                 tasks, net>>

\* notify_waiters() wakes the Notified that exists now and stores no permit.
Woken(n) == [shutdown EXCEPT ![n] = @ \/ acc[n] \in Looping]

Stop(n) ==
  /\ stops[n] < MaxStops[n] /\ n \notin exited
  /\ stops' = [stops EXCEPT ![n] = @ + 1]
  /\ shutdown' = Woken(n)
  /\ UNCHANGED <<confVars, acc, cur, socket, exited, mapVars, callVars,
                 histVars, permits, tasks, net>>

\* select! sees the shutdown branch first and drops the acceptor's future.
Break(n) ==
  /\ shutdown[n] /\ acc[n] \in AwaitPoints /\ n \notin exited
  /\ acc' = [acc EXCEPT ![n] = "closing"]
  /\ cur' = [cur EXCEPT ![n] = NoMsg]
  /\ shutdown' = [shutdown EXCEPT ![n] = FALSE]
  /\ UNCHANGED <<confVars, lifeVars, mapVars, callVars, histVars, permits,
                 tasks, net>>

Close(n) ==
  /\ acc[n] = "closing" /\ n \notin exited
  /\ acc' = [acc EXCEPT ![n] = "off"]
  /\ socket' = [socket EXCEPT ![n] = FALSE]
  /\ UNCHANGED <<confVars, cur, shutdown, exited, stops, mapVars, callVars,
                 histVars, permits, tasks, net>>

-----------------------------------------------------------------------------
(* The acceptor: one datagram per turn of the loop.                        *)

Arrives(m, prefix) ==
  /\ m \in net /\ m.prefix = prefix
  /\ acc[m.dst] = "recv" /\ m.dst \notin exited

\* The network after m is delivered and the datagrams in out are sent.
Delivered(m, out) ==
  \E rest \in {net \ {m}} \cup (IF Duplicating THEN {net} ELSE {}) :
    net' = rest \cup out

\* A datagram to the sender of m, with m's id, topic and reliability.
Answer(m, prefix, job) ==
  [prefix |-> prefix, id |-> m.id, reliable |-> m.reliable, topic |-> m.topic,
   job |-> job, src |-> m.dst, dst |-> m.src]

RecvI(m) ==
  /\ Arrives(m, "i")
  /\ Delivered(m, {Answer(m, "v", NoCall)})
  /\ NextTurn(m.dst)
  /\ UNCHANGED <<confVars, lifeVars, mapVars, callVars, histVars, permits,
                 tasks>>

\* The acceptor goes on with message m from state label.
Continue(n, label, m) ==
  /\ acc' = [acc EXCEPT ![n] = label]
  /\ cur' = [cur EXCEPT ![n] = m]
  /\ UNCHANGED shutdown

\* The first "v" takes the discovery entry; a later one finds none.
RecvV(m) ==
  LET n == m.dst
      c == notify_discovery[n][m.id]
  IN  /\ Arrives(m, "v")
      /\ Delivered(m, {})
      /\ IF c = NoCall
         THEN NextTurn(n) /\ UNCHANGED <<notify_discovery, permits, winner>>
         ELSE /\ Continue(n, "v_job", m)
              /\ notify_discovery' = Remove(notify_discovery, n, m.id)
              /\ permits' = permits \cup Wake("discovery", c)
              /\ winner' = [winner EXCEPT ![c] = {m.src}]
      /\ UNCHANGED <<confVars, lifeVars, jobs, notify_sent, notify_finish,
                     callVars, received, handled, tasks>>

\* Mutant of DataFor: the frame without the bytes of the job.
FrameOnly(m, c) == Answer(m, "_", NoCall)
\* The job for the server that sent m, in the words of its answer.
DataFor(m, c) == Answer(m, "_", c)

VJob(n) ==
  LET m == cur[n]
      c == jobs[n][m.id]
  IN  /\ acc[n] = "v_job" /\ n \notin exited
      /\ jobs' = Remove(jobs, n, m.id)
      /\ \/ c = NoCall /\ NextTurn(n) /\ UNCHANGED net
         \/ /\ c # NoCall /\ ~ m.reliable
            /\ NextTurn(n)
            /\ net' = net \cup {DataFor(m, c)}
         \/ /\ c # NoCall /\ m.reliable
            /\ Continue(n, "v_sent", DataFor(m, c))
            /\ UNCHANGED net
      /\ UNCHANGED <<confVars, lifeVars, notify_discovery, notify_sent,
                     notify_finish, callVars, histVars, permits, tasks>>

VSent(n) ==
  LET c == notify_sent[n][cur[n].id]
  IN  /\ acc[n] = "v_sent" /\ n \notin exited
      /\ tasks' = IF c = NoCall THEN tasks
                  ELSE tasks \cup {[notify |-> c, buff |-> cur[n]]}
      /\ NextTurn(n)
      /\ UNCHANGED <<confVars, lifeVars, mapVars, callVars, histVars, permits,
                     net>>

RecvX(m) ==
  LET n == m.dst
      c == notify_finish[n][m.id]
  IN  /\ Arrives(m, "x")
      /\ Delivered(m, {})
      /\ IF c = NoCall
         THEN NextTurn(n) /\ UNCHANGED <<notify_finish, permits>>
         ELSE /\ Continue(n, "x_sent", m)
              /\ notify_finish' = Remove(notify_finish, n, m.id)
              /\ permits' = permits \cup Wake("finish", c)
      /\ UNCHANGED <<confVars, lifeVars, jobs, notify_discovery, notify_sent,
                     callVars, histVars, tasks>>

XSent(n) ==
  LET i == cur[n].id
      c == notify_sent[n][i]
  IN  /\ acc[n] = "x_sent" /\ n \notin exited
      /\ notify_sent' = Remove(notify_sent, n, i)
      /\ permits' = permits \cup Wake("sent", c)
      /\ NextTurn(n)
      /\ UNCHANGED <<confVars, lifeVars, jobs, notify_discovery, notify_finish,
                     callVars, histVars, tasks, net>>

\* Mutant of Confirmation: the receiver stays silent.
NoConfirmation(m) == {}
\* What the receiver of a job answers, before it looks for a handler.
Confirmation(m) == IF m.reliable THEN {Answer(m, "x", NoCall)} ELSE {}

RecvData(m) ==
  /\ Arrives(m, "_") /\ <<m.job, m.dst>> \notin Oversized
  /\ Delivered(m, Confirmation(m))
  /\ received' = received \cup {<<m.job, m.dst>>}
  /\ Continue(m.dst, "handler", m)
  /\ UNCHANGED <<confVars, lifeVars, mapVars, callVars, handled, winner,
                 permits, tasks>>

\* Mutant of RecvTruncated: confirmed before it is read.
ConfirmTruncated(m) ==
  /\ Arrives(m, "_") /\ <<m.job, m.dst>> \in Oversized
  /\ Delivered(m, Confirmation(m))
  /\ NextTurn(m.dst)
  /\ UNCHANGED <<confVars, lifeVars, mapVars, callVars, histVars, permits,
                 tasks>>

\* recv_from cut the datagram: read_block() says Ok(None), or takes what is left
\* for the job of a topic with no name, which is not reliable.
RecvTruncated(m) ==
  /\ Arrives(m, "_") /\ <<m.job, m.dst>> \in Oversized
  /\ Delivered(m, {})
  /\ NextTurn(m.dst)
  /\ UNCHANGED <<confVars, lifeVars, mapVars, callVars, histVars, permits,
                 tasks>>

Handle(n) ==
  LET m == cur[n]
      times == handled[m.job][n]
  IN  /\ acc[n] = "handler" /\ n \notin exited
      /\ handled' = [handled EXCEPT ![m.job][n] =
                       IF m.topic \in consumers[n] /\ times < HandledCap
                       THEN times + 1 ELSE times]
      /\ NextTurn(n)
      /\ UNCHANGED <<confVars, lifeVars, mapVars, callVars, received, winner,
                     permits, tasks, net>>

-----------------------------------------------------------------------------
(* The retransmission tasks and the network.                               *)

Runs(t) == t \in tasks /\ t.buff.src \notin exited

TaskTick(t) ==
  /\ Runs(t)
  /\ net' = net \cup {t.buff}
  /\ UNCHANGED <<confVars, accVars, lifeVars, mapVars, callVars, histVars,
                 permits, tasks>>

TaskEnd(t) ==
  /\ Runs(t) /\ <<"sent", t.notify>> \in permits
  /\ permits' = permits \ {<<"sent", t.notify>>}
  /\ tasks' = tasks \ {t}
  /\ UNCHANGED <<confVars, accVars, lifeVars, mapVars, callVars, histVars, net>>

\* A datagram that is going to be lost is dropped when its receiver would
\* look at it, or has no loop to look with; earlier makes no difference.
Lose(m) ==
  /\ m \in net
  /\ acc[m.dst] \in {"off", "recv"} \/ m.dst \in exited
  /\ net' = net \ {m}
  /\ UNCHANGED <<confVars, accVars, lifeVars, mapVars, callVars, histVars,
                 permits, tasks>>

-----------------------------------------------------------------------------
Receive(m) == RecvI(m) \/ RecvV(m) \/ RecvX(m) \/ RecvData(m) \/ RecvTruncated(m)
AcceptorStep(n) == VJob(n) \/ VSent(n) \/ XSent(n) \/ Handle(n)
StartStep(n) == StartBind(n) \/ StartPublish(n) \/ Close(n)
SendStep(c) ==
  \/ SendSocket(c) \/ SendExit(c) \/ SendInsertJob(c) \/ SendInsertDiscovery(c)
  \/ SendInsertSent(c) \/ SendInsertFinish(c)
  \/ SendDiscovered(c) \/ SendFinished(c)

Next ==
  \/ \E e \in ServerTable : AddServer(e[1], e[2], e[3])
  \/ \E e \in HandlerTable : On(e[1], e[2])
  \/ \E c \in Calls : SendLookup(c) \/ SendTick(c) \/ SendStep(c)
  \/ \E n \in Nodes : StartStep(n) \/ Stop(n) \/ Break(n) \/ AcceptorStep(n)
  \/ \E m \in net : Receive(m) \/ Lose(m)
  \/ \E t \in tasks : TaskTick(t) \/ TaskEnd(t)

Spec == Init /\ [][Next]_vars

-----------------------------------------------------------------------------
(* Fairness: threads and tokio tasks that can run do run; a message that   *)
(* is sent again and again is received at last.                            *)

OfCall(m, c) ==
  /\ m.id = request_id[c]
  /\ NodeOf[c] = IF m.prefix \in {"i", "_"} THEN m.src ELSE m.dst

ReceiveFor(c, prefix) ==
  \E m \in net : m.prefix = prefix /\ OfCall(m, c) /\ Receive(m)

Fairness ==
  /\ \A n \in Nodes : WF_vars(StartStep(n)) /\ WF_vars(AcceptorStep(n))
  /\ \A c \in Calls :
       /\ WF_vars(SendStep(c)) /\ WF_vars(SendTick(c))
       /\ WF_vars(\E t \in tasks : t.notify = c /\ TaskTick(t))
       /\ WF_vars(\E t \in tasks : t.notify = c /\ TaskEnd(t))
       /\ \A p \in Prefixes : SF_vars(ReceiveFor(c, p))

FairSpec == Spec /\ Fairness

-----------------------------------------------------------------------------
(* Properties.                                                             *)

ConfigTypes ==
  /\ topic_servers \in [Nodes -> [Topics -> SUBSET Nodes]]
  /\ consumers \in [Nodes -> SUBSET Topics]
  /\ socket \in [Nodes -> BOOLEAN] /\ exited \subseteq Nodes
  /\ stops \in [Nodes -> Nat]

\* The acceptor's message is one it was sent, or the job it is sending.
AcceptorTypes ==
  /\ acc \in [Nodes -> AccStates]
  /\ shutdown \in [Nodes -> BOOLEAN]
  /\ cur \in [Nodes -> Message \cup {NoMsg}]
  /\ \A n \in Nodes :
       /\ acc[n] \in Busy => cur[n] \in Message
       /\ acc[n] = "v_job" => cur[n].dst = n
       /\ acc[n] \in {"v_sent", "handler"} => cur[n].job \in Calls

IdMapTypes ==
  /\ jobs \in IdMap /\ notify_discovery \in IdMap
  /\ notify_sent \in IdMap /\ notify_finish \in IdMap

CallTypes ==
  /\ pc \in [Calls -> PCs]
  /\ request_id \in [Calls -> Ids \cup {NoId}]
  /\ \A c \in Calls : pc[c] \in Numbered <=> request_id[c] \in Ids
  /\ targets \in [Calls -> SUBSET Nodes]
  /\ permits \subseteq {"discovery", "sent", "finish"} \X Calls

\* Every data message carries a job.
NetTypes ==
  /\ net \subseteq Message /\ tasks \subseteq Task
  /\ \A m \in net : m.prefix = "_" => m.job \in Calls
  /\ \A t \in tasks : t.buff.job \in Calls

HistoryTypes ==
  /\ received \subseteq Calls \X Nodes
  /\ handled \in [Calls -> [Nodes -> 0 .. HandledCap]]
  /\ winner \in [Calls -> SUBSET Nodes]

\* Every variable stays in the set its Rust type stands for, the acceptor has
\* the message its state needs, and a data message always has its job's bytes.
TypeOK ==
  /\ ConfigTypes /\ AcceptorTypes /\ IdMapTypes /\ CallTypes /\ NetTypes
  /\ HistoryTypes

\* The job of a call reaches one server only: queries go to all servers and
\* several may answer, late and more than once, but one answer is taken.
OneServer ==
  \A c \in Calls, m, n \in Nodes :
    <<c, m>> \in received /\ <<c, n>> \in received => m = n

\* When a reliable send() returns, its job, not merely some message with its
\* id, has reached a server.
ReturnedWasReceived ==
  \A c \in Reliable :
    pc[c] = "returned" => \E n \in Nodes : <<c, n>> \in received

\* The calls whose node has neither exited nor been told to stop.
Undisturbed == {c \in Calls : NodeOf[c] \notin exited /\ stops[NodeOf[c]] = 0}

InMap(map, c) == map[NodeOf[c]][request_id[c]] = c

\* A waiting send() can always still be woken: its Notify has a permit, or is
\* in its map with the acceptor or a retransmission task at work to get it out.
NeverStranded ==
  \A c \in Undisturbed :
    LET n == NodeOf[c]
        taken == acc[n] \in {"v_job", "v_sent"} /\ cur[n].id = request_id[c]
        resent == \E t \in tasks : t.notify = c /\ t.buff.job = c
    IN  /\ pc[c] = "discover" =>
             \/ <<"discovery", c>> \in permits
             \/ InMap(notify_discovery, c) /\ InMap(jobs, c)
        /\ pc[c] = "await" =>
             \/ <<"finish", c>> \in permits
             \/ /\ InMap(notify_finish, c) /\ InMap(notify_sent, c)
                /\ taken \/ resent

\* Nothing of a returned send() is left once the acceptor is between two
\* datagrams: no entry in a map, no task but one that is about to end.
NothingLeftBehind ==
  \A c \in Undisturbed :
    pc[c] = "returned" /\ acc[NodeOf[c]] = "recv" =>
      /\ \A i \in Ids :
           c \notin {jobs[NodeOf[c]][i], notify_discovery[NodeOf[c]][i],
                     notify_sent[NodeOf[c]][i], notify_finish[NodeOf[c]][i]}
      /\ \A t \in tasks : t.notify = c => <<"sent", c>> \in permits

\* Where UDP does not duplicate, an unreliable job is handled at most once and
\* by one node, however often its query and the answers to it were repeated.
UnreliableOnce ==
  ~ Duplicating =>
    \A c \in Calls \ Reliable : \A n \in Nodes :
      /\ handled[c][n] <= 1
      /\ handled[c][n] = 1 => \A m \in Nodes \ {n} : handled[c][m] = 0

\* What ends a wait that nothing else ends: a process exits, the application
\* stops the node that waits, or the server that was chosen for a reliable job
\* has no room for it.
GivenUp(c) ==
  \/ exited # {} \/ stops[NodeOf[c]] > 0
  \/ c \in Reliable /\ \E n \in winner[c] : <<c, n>> \in Oversized

\* A send() that asks for a server returns at last, unless it is given up.
SendReturns ==
  \A c \in Calls : pc[c] = "discover" ~> (pc[c] = "returned" \/ GivenUp(c))

\* Retransmission of a job ends at last, with the same exceptions.
RetransmissionEnds ==
  \A c \in Calls :
    (\E t \in tasks : t.notify = c)
      ~> ((\A t \in tasks : t.notify # c) \/ GivenUp(c))

Promise == INSTANCE Delivery WITH
  asked <- targets, server <- winner,
  returned <- {c \in Calls : pc[c] = "returned"}

\* UMQT implements what Delivery promises: whatever is repeated, lost, reordered
\* or stopped, a call chooses among the servers it asked, once, its job is
\* received and handled there only, and send() returns only after that.
Delivers == Promise!Spec
=============================================================================
