--------------------------------- MODULE RPC ---------------------------------
(***************************************************************************)
(* The RPC layer of native/src/rpc/main.rs over its default broker:        *)
(* consumers in a map by topic, every message a task of a tokio runtime    *)
(* with four workers. A call of send() puts its channel into MAP under a   *)
(* new id, publishes "req:topic" and blocks in recv(); the action of the   *)
(* topic runs as a task and pushes to "res:topic", whose consumer takes    *)
(* the channel out of MAP. An action may itself call send(). set_consumer  *)
(* and set_producer put an application's broker in the place of the        *)
(* default one; what becomes of a message there is not modelled here.      *)
(***************************************************************************)
EXTENDS Naturals, Sequences

CONSTANTS
  Calls, Topics, Ids,
  Workers,      \* the worker threads of the runtime
  TopicOf,      \* the topic each call is sent to
  Program,      \* what the action does with the request of each call: a
                \* sequence of Push and of calls it sends and waits for
  Push,
  App,          \* an application thread, as opposed to a worker
  DistinctIds,  \* TRUE: the clock never gives the same id twice
  Switches,     \* which of set_consumer() and set_producer() may be called
  NoCall, NoId, NoTask

Nested == UNION {{Program[c][k] : k \in 1 .. Len(Program[c])} : c \in Calls} \ {Push}

ASSUME ProgramAssumption ==
  /\ NoCall \notin Calls /\ NoId \notin Ids /\ App \notin Workers
  /\ Push \notin Calls \cup {NoCall} /\ "closed" \notin Calls \cup {NoCall}
  /\ TopicOf \in [Calls -> Topics]
  /\ Program \in [Calls -> Seq(Calls \cup {Push})]
  /\ DistinctIds \in BOOLEAN /\ Switches \subseteq {"consumer", "producer"}

Kinds == {"req", "res"}
Brokers == {"default", "other"}
\* A message on its way to a consumer; part tells the pushes of an action apart.
Tasks == [kind: Kinds, call: Calls, part: Nat]
ASSUME NoTaskAssumption == NoTask \notin Tasks

VARIABLES
  cb_consumer,  \* the broker on() registers consumers with
  cb_producer,  \* the broker send() publishes to
  consumers,    \* <<broker, kind, topic>>: "req:topic" or "res:topic" has one
  MAP,          \* by id, the call whose sender is stored
  chan,         \* per call: NoCall, the call it got the answer of, "closed"
  pc, request_id,
  ready,        \* spawned tasks any worker may take
  slot,         \* per worker, the task it spawned last and runs next itself
  running,      \* per worker, the call whose action it runs, or NoCall
  pos,          \* per call, the next step of its action: 0 before it begins
  via,          \* per call, the producer that its action's stream cloned
  runtime,      \* "up" or "down": dropped, the workers are to end
  setting,      \* set_producer() holds cb_producer and waits for the workers
  answer,       \* history: whose response a call returned with
  covered,      \* history: calls published when on() for the topic was over
  responded,    \* history: calls whose action had a response published
  lost,         \* history: calls that no response can come for any more
  abroad        \* history: calls with a message in the other broker's hands

brokerVars == <<cb_consumer, cb_producer, runtime, setting>>
queueVars == <<ready, slot>>
callVars == <<MAP, chan, pc, request_id, answer>>
actionVars == <<running, pos, via>>
histVars == <<covered, responded, lost, abroad>>
vars == <<brokerVars, consumers, queueVars, callVars, actionVars, histVars>>

PCs == {"idle", "publish", "wait", "returned", "panicked"}

Init ==
  /\ cb_consumer = "default" /\ cb_producer = "default"
  /\ runtime = "up" /\ setting = FALSE
  /\ consumers = {}
  /\ MAP = [i \in Ids |-> NoCall]
  /\ chan = [c \in Calls |-> NoCall]
  /\ pc = [c \in Calls |-> "idle"]
  /\ request_id = [c \in Calls |-> NoId]
  /\ ready = {} /\ slot = [w \in Workers |-> NoTask]
  /\ running = [w \in Workers |-> NoCall]
  /\ pos = [c \in Calls |-> 0] /\ via = [c \in Calls |-> "default"]
  /\ answer = [c \in Calls |-> NoCall]
  /\ covered = {} /\ responded = {} /\ lost = {} /\ abroad = {}

-----------------------------------------------------------------------------
(* on(): the request consumer is registered before the response consumer,  *)
(* both with cb_consumer locked. on() may come again for a topic: with the *)
(* same broker it replaces consumers by their like, which is no change     *)
(* here; after set_consumer() it registers them with the other one.        *)

\* Broker b has the requests of topic t and not its responses.
Half(b, t) == <<b, "req", t>> \in consumers /\ <<b, "res", t>> \notin consumers

\* Mutant of Registering: the lock is taken for each consumer.
NeverRegistering == FALSE
\* Some on() is between its two consumers.
Registering == \E t \in Topics, b \in Brokers : Half(b, t)

\* Mutant of Register: under the topic as the caller names it.
RegisterBare(kind, t) ==
  /\ consumers' = consumers \cup {t}
  /\ UNCHANGED <<brokerVars, queueVars, callVars, actionVars, histVars>>
Register(kind, t) ==
  /\ consumers' = consumers \cup {<<cb_consumer, kind, t>>}
  /\ UNCHANGED <<brokerVars, queueVars, callVars, actionVars, histVars>>

\* Mutant of OnResponses: either consumer may be registered first.
EitherFirst(t) == Register("res", t)

OnRequests(t) ==
  /\ <<cb_consumer, "req", t>> \notin consumers /\ ~ Registering
  /\ Register("req", t)
OnResponses(t) == (\E b \in Brokers : Half(b, t)) /\ Register("res", t)

SetConsumer ==
  /\ "consumer" \in Switches /\ cb_consumer = "default" /\ ~ Registering
  /\ cb_consumer' = "other"
  /\ UNCHANGED <<cb_producer, runtime, setting, consumers, queueVars, callVars,
                 actionVars, histVars>>

-----------------------------------------------------------------------------
(* The default producer: a task for the topic's consumer, if it has one.   *)

\* From an application thread the task goes to the shared queue; from a worker
\* to the worker's own slot, out of which the one before moves to the queue,
\* or, where the scheduler has the slot switched off, to the queue.
Spawn(from, t) ==
  \/ from = App /\ ready' = ready \cup {t} /\ UNCHANGED slot
  \/ /\ from \in Workers
     /\ slot' = [slot EXCEPT ![from] = t]
     /\ ready' = ready \cup ({slot[from]} \ {NoTask})
  \/ from \in Workers /\ ready' = ready \cup {t} /\ UNCHANGED slot

\* Mutant of Produce: looks for the response consumer, whatever the message.
ProduceOnce(from, b, t) ==
  IF b = "default" /\ <<"default", "res", TopicOf[t.call]>> \in consumers
  THEN Spawn(from, t) /\ UNCHANGED abroad
  ELSE UNCHANGED <<queueVars, abroad>>
\* A message to broker b.
Produce(from, b, t) ==
  \/ /\ b = "default" /\ <<"default", t.kind, TopicOf[t.call]>> \in consumers
     /\ Spawn(from, t) /\ UNCHANGED abroad
  \/ /\ b = "default" /\ <<"default", t.kind, TopicOf[t.call]>> \notin consumers
     /\ UNCHANGED <<queueVars, abroad>>
  \/ /\ b = "other" /\ abroad' = abroad \cup {t.call}
     /\ UNCHANGED queueVars

-----------------------------------------------------------------------------
(* send(), of an application thread or of an action on worker from.        *)

Step(c) == IF pos[c] \in 1 .. Len(Program[c]) THEN Program[c][pos[c]] ELSE NoCall

\* Thread from is the one that makes call c.
Makes(from, c) ==
  IF c \in Nested
  THEN from \in Workers /\ running[from] \in Calls /\ Step(running[from]) = c
  ELSE from = App

\* Mutant of RequestIds: a clock too coarse to tell two calls apart.
CoarseIds(c) == Ids
\* What generate_request_id() can return: the clock in nanoseconds.
RequestIds(c) ==
  {i \in Ids : DistinctIds => \A d \in Calls : request_id[d] # i}

\* MAP.insert drops the sender that was stored under the id, which closes the
\* channel of the call that waits for it.
SendInsert(from, c) ==
  /\ pc[c] = "idle" /\ Makes(from, c)
  /\ \E i \in RequestIds(c) :
       /\ request_id' = [request_id EXCEPT ![c] = i]
       /\ MAP' = [MAP EXCEPT ![i] = c]
       /\ chan' = IF MAP[i] = NoCall THEN chan
                  ELSE [chan EXCEPT ![MAP[i]] = "closed"]
  /\ pc' = [pc EXCEPT ![c] = "publish"]
  /\ UNCHANGED <<brokerVars, consumers, queueVars, answer, actionVars,
                 histVars>>

\* An application thread publishes with cb_producer locked, an action through
\* the producer that its stream cloned.
SendPublish(from, c) ==
  LET b == IF from = App THEN cb_producer ELSE via[running[from]]
      served == b = "other" \/ <<b, "req", TopicOf[c]>> \in consumers
  IN  /\ pc[c] = "publish" /\ Makes(from, c)
      /\ from = App => ~ setting
      /\ Produce(from, b, [kind |-> "req", call |-> c, part |-> 0])
      /\ pc' = [pc EXCEPT ![c] = "wait"]
      /\ covered' = IF <<b, "res", TopicOf[c]>> \in consumers
                    THEN covered \cup {c} ELSE covered
      /\ lost' = IF served THEN lost ELSE lost \cup {c}
      /\ UNCHANGED <<brokerVars, consumers, MAP, chan, request_id, answer,
                     actionVars, responded>>

\* After a call an action goes on with its next step.
Resume(from) ==
  pos' = IF from \in Workers THEN [pos EXCEPT ![running[from]] = @ + 1] ELSE pos

\* Mutant of SendReceive: recv_timeout, and whatever there is then.
SendTimesOut(from, c) ==
  /\ pc[c] = "wait" /\ Makes(from, c)
  /\ pc' = [pc EXCEPT ![c] = "returned"]
  /\ answer' = [answer EXCEPT ![c] = chan[c]]
  /\ Resume(from)
  /\ UNCHANGED <<brokerVars, consumers, queueVars, MAP, chan, request_id,
                 running, via, histVars>>
SendReceive(from, c) ==
  /\ pc[c] = "wait" /\ Makes(from, c) /\ chan[c] \in Calls
  /\ pc' = [pc EXCEPT ![c] = "returned"]
  /\ answer' = [answer EXCEPT ![c] = chan[c]]
  /\ Resume(from)
  /\ UNCHANGED <<brokerVars, consumers, queueVars, MAP, chan, request_id,
                 running, via, histVars>>

\* The calls that are given up when the action of call p is over.
Unanswered(p) == {p} \ responded

\* The workers whose action has a stream with a clone of the default producer.
Holders ==
  {w \in Workers : /\ running[w] \in Calls /\ pos[running[w]] > 0
                   /\ via[running[w]] = "default"}

\* The action on worker w is over, and its stream with it. The default producer
\* owns the runtime: the last clone that goes, when set_producer has replaced it,
\* shuts it down. tokio panics when a worker does that, after the shutdown has
\* begun, which ends a task that had nothing left to do.
Leave(w) ==
  /\ running' = [running EXCEPT ![w] = NoCall]
  /\ runtime' = IF cb_producer = "other" /\ Holders = {w} THEN "down" ELSE runtime

\* recv() fails and unwrap() panics: the thread ends, or the task of the action.
SendPanic(from, c) ==
  /\ pc[c] = "wait" /\ Makes(from, c) /\ chan[c] = "closed"
  /\ pc' = [pc EXCEPT ![c] = "panicked"]
  /\ IF from = App
     THEN UNCHANGED <<running, runtime, lost>>
     ELSE /\ Leave(from)
          /\ lost' = lost \cup Unanswered(running[from])
  /\ UNCHANGED <<cb_consumer, cb_producer, setting, consumers, queueVars, MAP,
                 chan, request_id, answer, pos, via, covered, responded, abroad>>

-----------------------------------------------------------------------------
(* The workers.                                                            *)

Idle(w) == running[w] = NoCall

\* Mutant of Takes: another worker may take a task out of a slot.
TakesAny(w, t) ==
  \/ /\ t \in ready /\ ready' = ready \ {t} /\ UNCHANGED slot
  \/ \E v \in Workers : /\ slot[v] = t
                        /\ slot' = [slot EXCEPT ![v] = NoTask]
                        /\ UNCHANGED ready
\* Worker w takes task t from the queue or from its own slot.
Takes(w, t) ==
  \/ /\ t \in ready /\ ready' = ready \ {t} /\ UNCHANGED slot
  \/ /\ slot[w] = t /\ slot' = [slot EXCEPT ![w] = NoTask] /\ UNCHANGED ready

\* The request consumer has read the request.
TakeRequest(w, t) ==
  /\ Idle(w) /\ t.kind = "req" /\ Takes(w, t)
  /\ running' = [running EXCEPT ![w] = t.call]
  /\ UNCHANGED <<brokerVars, consumers, callVars, pos, via, histVars>>

\* Worker w is about to clone the producer for the stream of its action.
Starting(w) == running[w] \in Calls /\ pos[running[w]] = 0

\* Mutant of StartAction: cloned without the lock.
StartUnlocked(w) ==
  /\ Starting(w)
  /\ pos' = [pos EXCEPT ![running[w]] = 1]
  /\ via' = [via EXCEPT ![running[w]] = cb_producer]
  /\ UNCHANGED <<brokerVars, consumers, queueVars, callVars, running, histVars>>
\* The producer is cloned with cb_producer locked, and the action begins.
StartAction(w) ==
  /\ Starting(w) /\ ~ setting
  /\ pos' = [pos EXCEPT ![running[w]] = 1]
  /\ via' = [via EXCEPT ![running[w]] = cb_producer]
  /\ UNCHANGED <<brokerVars, consumers, queueVars, callVars, running, histVars>>

\* Mutant of TakeOut: the entry stays in MAP.
LeaveIn(i) == MAP
TakeOut(i) == [MAP EXCEPT ![i] = NoCall]

\* Mutant of IdOf: responses are told apart by their topic only.
IdOfTopic(t) ==
  request_id[CHOOSE c \in Calls : TopicOf[c] = TopicOf[t.call] /\ request_id[c] # NoId]
\* The id that a response carries: that of the request it answers.
IdOf(t) == request_id[t.call]

\* The response consumer: the first response to an id gets the channel.
RunResponse(w, t) ==
  LET i == IdOf(t)
  IN  /\ Idle(w) /\ t.kind = "res" /\ Takes(w, t)
      /\ MAP' = TakeOut(i)
      /\ chan' = IF MAP[i] = NoCall THEN chan
                 ELSE [chan EXCEPT ![MAP[i]] = t.call]
      /\ UNCHANGED <<brokerVars, consumers, pc, request_id, answer, actionVars,
                     histVars>>

\* stream.push(): to the response topic, with the id of the request.
ActionPush(w) ==
  LET c == running[w]
  IN  /\ ~ Idle(w) /\ Step(c) = Push
      /\ Produce(w, via[c], [kind |-> "res", call |-> c, part |-> pos[c]])
      /\ responded' = IF <<via[c], "res", TopicOf[c]>> \in consumers
                      THEN responded \cup {c} ELSE responded
      /\ pos' = [pos EXCEPT ![c] = @ + 1]
      /\ UNCHANGED <<brokerVars, consumers, callVars, running, via, covered,
                     lost>>

ActionEnd(w) ==
  /\ ~ Idle(w) /\ pos[running[w]] > Len(Program[running[w]])
  /\ Leave(w)
  /\ lost' = lost \cup Unanswered(running[w])
  /\ UNCHANGED <<cb_consumer, cb_producer, setting, consumers, queueVars,
                 callVars, pos, via, covered, responded, abroad>>

-----------------------------------------------------------------------------
(* set_producer() and the end of the runtime.                              *)

Queued == (ready \cup {slot[w] : w \in Workers}) \ {NoTask}

\* The default producer is dropped under the lock: unless some action's stream
\* has a clone of it, the caller drops the runtime and waits for its workers.
SetProducer ==
  /\ "producer" \in Switches /\ cb_producer = "default" /\ ~ setting
  /\ cb_producer' = "other"
  /\ runtime' = IF Holders = {} THEN "down" ELSE runtime
  /\ setting' = (Holders = {})
  /\ UNCHANGED <<cb_consumer, consumers, queueVars, callVars, actionVars,
                 histVars>>

\* A worker that notices the shutdown drops the tasks it finds.
DropTask(t) ==
  /\ runtime = "down" /\ t \in Queued
  /\ ready' = ready \ {t}
  /\ slot' = [w \in Workers |-> IF slot[w] = t THEN NoTask ELSE slot[w]]
  /\ lost' = lost \cup {t.call}
  /\ UNCHANGED <<brokerVars, consumers, callVars, actionVars, covered, responded,
                 abroad>>

SetProducerReturn ==
  /\ setting /\ Queued = {} /\ \A w \in Workers : Idle(w)
  /\ setting' = FALSE
  /\ UNCHANGED <<cb_consumer, cb_producer, runtime, consumers, queueVars,
                 callVars, actionVars, histVars>>

-----------------------------------------------------------------------------
Send(from, c) ==
  \/ SendInsert(from, c) \/ SendPublish(from, c)
  \/ SendReceive(from, c) \/ SendPanic(from, c)
TakeTask(w) == \E t \in Queued : TakeRequest(w, t) \/ RunResponse(w, t)
Act(w) == StartAction(w) \/ ActionPush(w) \/ ActionEnd(w)

Next ==
  \/ \E t \in Topics : OnRequests(t) \/ OnResponses(t)
  \/ SetConsumer \/ SetProducer \/ SetProducerReturn
  \/ \E from \in Workers \cup {App}, c \in Calls : Send(from, c)
  \/ \E w \in Workers : TakeTask(w) \/ Act(w)
  \/ \E t \in Queued : DropTask(t)

Spec == Init /\ [][Next]_vars

\* A thread that can run does run.
Fairness ==
  /\ \A c \in Calls : WF_vars(pc[c] # "idle" /\ Send(App, c))
  /\ \A w \in Workers :
       /\ WF_vars(TakeTask(w)) /\ WF_vars(Act(w))
       /\ WF_vars(\E c \in Calls : Send(w, c))
  /\ WF_vars(SetProducerReturn)
  /\ WF_vars(\E t \in Queued : DropTask(t))

FairSpec == Spec /\ Fairness

-----------------------------------------------------------------------------
(* Properties.                                                             *)

\* Every variable stays in the set its Rust type stands for.
TypeOK ==
  /\ cb_consumer \in Brokers /\ cb_producer \in Brokers
  /\ runtime \in {"up", "down"} /\ setting \in BOOLEAN
  /\ consumers \subseteq Brokers \X Kinds \X Topics
  /\ via \in [Calls -> Brokers]
  /\ MAP \in [Ids -> Calls \cup {NoCall}]
  /\ chan \in [Calls -> Calls \cup {NoCall, "closed"}]
  /\ pc \in [Calls -> PCs]
  /\ request_id \in [Calls -> Ids \cup {NoId}]
  /\ ready \subseteq Tasks /\ slot \in [Workers -> Tasks \cup {NoTask}]
  /\ running \in [Workers -> Calls \cup {NoCall}] /\ pos \in [Calls -> Nat]
  /\ answer \in [Calls -> Calls \cup {NoCall}]
  /\ covered \subseteq Calls /\ responded \subseteq Calls
  /\ lost \subseteq Calls /\ abroad \subseteq Calls

\* A call of send() returns with a response to its own request, whatever other
\* calls wait and however many responses an action pushes.
AnswersOwnRequest == \A c \in Calls : answer[c] \in {NoCall, c}

\* Whatever ids the clock repeats, it harms only the calls that share an id, and
\* one of them is spared: a send() returns with a response to its own id, and one
\* that panics has lost its channel to a call of that id which does not.
CollisionsAreContained ==
  \A c \in Calls :
    /\ answer[c] # NoCall => request_id[answer[c]] = request_id[c]
    /\ pc[c] = "panicked" =>
         \E d \in Calls \ {c} : request_id[d] = request_id[c] /\ pc[d] # "panicked"

\* No recv() of a waiting call finds its channel closed.
NoRecvPanic == \A c \in Calls : pc[c] # "panicked"

\* MAP holds the sender of exactly the calls that were made and not answered.
PendingIffInMap ==
  \A c \in Calls :
    (pc[c] \in {"publish", "wait"} /\ chan[c] = NoCall)
      <=> (\E i \in Ids : MAP[i] = c)

\* A waiting call without an answer is accounted for: its request is queued,
\* its action runs, a response is queued, another broker has its message, or
\* nothing can come and it is lost.
WaitingIsAccountedFor ==
  \A c \in Calls :
    pc[c] = "wait" /\ chan[c] = NoCall =>
      \/ c \in lost \cup abroad
      \/ \E w \in Workers : running[w] = c
      \/ \E t \in Queued : t.call = c

\* The action of call c pushes at least once.
Pushes(c) == \E k \in 1 .. Len(Program[c]) : Program[c][k] = Push

\* A request sent after on() for its topic was over is never lost if the action
\* pushes at all: the two halves of on() are both in place.
CoveredIsAnswered ==
  \A c \in covered : Pushes(c) => c \notin lost

\* Worker w waits in a nested send() for a task that only w itself would run.
SelfWait(w) ==
  /\ slot[w] # NoTask /\ running[w] \in Calls
  /\ Step(running[w]) \in Calls
  /\ LET c == Step(running[w])
     IN  pc[c] = "wait" /\ slot[w].kind = "req" /\ slot[w].call = c

\* A broker that gets the requests of a topic gets its responses as well, or an
\* on() that nobody overtakes is about to register them there, whatever
\* set_consumer() does meanwhile: else requests would come and no response ever
\* would. And no broker has responses only.
TopicIsWhole ==
  \A t \in Topics, b \in Brokers :
    /\ Half(b, t) => b = cb_consumer
    /\ <<b, "res", t>> \in consumers => <<b, "req", t>> \in consumers

\* Everyone waits on everyone: set_producer() for a worker, and that worker for
\* the lock that set_producer() holds.
Cornered == setting /\ \E w \in Workers : Starting(w)

\* set_producer() returns, whatever the actions are waiting for, unless it is
\* cornered, and that is forever.
SetProducerReturns == setting ~> (~ setting \/ []Cornered)

\* A worker that waits for its own slot waits forever: an action that calls
\* send() can cost the runtime a worker.
SelfWaitIsForever == [][\A w \in Workers : SelfWait(w) => SelfWait(w)']_vars

\* Worker w runs an action that is inside a nested send().
Blocked(w) == running[w] \in Calls /\ Step(running[w]) \in Calls

\* What the action of call c, or a task of c that sits in the slot of a blocked
\* worker, waits for. A worker that waits for its own slot awaits what it awaits.
Awaits(c) ==
  {Step(running[w]) : w \in {v \in Workers :
     Blocked(v) /\ (running[v] = c \/ (slot[v] # NoTask /\ slot[v].call = c))}}

\* Call c is one of some calls that wait for each other, or for one whose
\* response is lost or in another broker's hands.
Hopeless(c) ==
  \E S \in SUBSET Calls :
    c \in S /\ \A d \in S : d \in lost \cup abroad \/ Awaits(d) \cap S # {}

\* If a call waits forever, then it is hopeless, or all workers wait, or
\* set_producer() and a worker wait for each other: nothing else, and no other
\* order of the threads, makes a send() hang.
HangsOnlyByNesting ==
  \A c \in Calls :
    <>[](pc[c] = "wait") =>
      <>[](Hopeless(c) \/ (\A w \in Workers : Blocked(w)) \/ Cornered)

Runs(c) == \E w \in Workers : running[w] = c
Pushed(c) == \E k \in 1 .. Len(Program[c]) : pos[c] > k /\ Program[c][k] = Push

Promise == INSTANCE RequestReply WITH
  sent <- {c \in Calls : pc[c] \notin {"idle", "publish"}},
  returned <- {c \in Calls : pc[c] = "returned"},
  begun <- {c \in Calls : Runs(c) \/ pos[c] > 0},
  over <- {c \in Calls : ~ Runs(c) /\ pos[c] > 0},
  pushed <- {c \in Calls : Pushed(c)}

\* RPC implements what RequestReply promises, whatever the workers, slots,
\* brokers and the end of the runtime do: no request is served twice, an action
\* goes through its program in order and waits for the calls it makes, and a
\* send() returns only when the action of its own request has pushed.
Replies == Promise!Spec
=============================================================================
