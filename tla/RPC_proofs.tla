------------------------------ MODULE RPC_proofs ------------------------------
(***************************************************************************)
(* Theorems about RPC, for every set of calls, topics, ids and workers and *)
(* every program of the actions.                                           *)
(***************************************************************************)
EXTENDS RPC, TLAPS

BrokerTypes ==
  /\ cb_consumer \in Brokers /\ cb_producer \in Brokers
  /\ runtime \in {"up", "down"} /\ setting \in BOOLEAN
  /\ consumers \subseteq Brokers \X Kinds \X Topics

CallTypes ==
  /\ MAP \in [Ids -> Calls \cup {NoCall}]
  /\ chan \in [Calls -> Calls \cup {NoCall, "closed"}]
  /\ pc \in [Calls -> PCs]
  /\ request_id \in [Calls -> Ids \cup {NoId}]
  /\ answer \in [Calls -> Calls \cup {NoCall}]

QueueTypes == ready \subseteq Tasks /\ slot \in [Workers -> Tasks \cup {NoTask}]

ActionTypes ==
  /\ running \in [Workers -> Calls \cup {NoCall}] /\ pos \in [Calls -> Nat]
  /\ via \in [Calls -> Brokers]

HistoryTypes ==
  /\ covered \subseteq Calls /\ responded \subseteq Calls
  /\ lost \subseteq Calls /\ abroad \subseteq Calls

\* The type invariant, by group of variables.
LEMMA TypeParts ==
  /\ TypeOK <=> BrokerTypes /\ CallTypes /\ QueueTypes /\ ActionTypes /\ HistoryTypes
  /\ TypeOK' <=>
       BrokerTypes' /\ CallTypes' /\ QueueTypes' /\ ActionTypes' /\ HistoryTypes'
BY DEF TypeOK, BrokerTypes, CallTypes, QueueTypes, ActionTypes, HistoryTypes

\* Each part depends on its own variables only.
LEMMA TypeFrames ==
  /\ BrokerTypes /\ UNCHANGED <<brokerVars, consumers>> => BrokerTypes'
  /\ CallTypes /\ UNCHANGED callVars => CallTypes'
  /\ QueueTypes /\ UNCHANGED queueVars => QueueTypes'
  /\ ActionTypes /\ UNCHANGED actionVars => ActionTypes'
  /\ HistoryTypes /\ UNCHANGED histVars => HistoryTypes'
BY DEF BrokerTypes, CallTypes, QueueTypes, ActionTypes, HistoryTypes, brokerVars,
       callVars, queueVars, actionVars, histVars

-----------------------------------------------------------------------------
(* What the helpers do to the queue.                                       *)

\* A task that is spawned is queued, and none that was queued is forgotten.
LEMMA SpawnQueues ==
  ASSUME QueueTypes, NEW from \in Workers \cup {App}, NEW t \in Tasks, Spawn(from, t)
  PROVE  QueueTypes' /\ Queued' = Queued \cup {t}
<1>1. CASE from = App /\ ready' = ready \cup {t} /\ UNCHANGED slot
  BY <1>1, NoTaskAssumption DEF QueueTypes, Queued
<1>2. CASE /\ from \in Workers
           /\ slot' = [slot EXCEPT ![from] = t]
           /\ ready' = ready \cup ({slot[from]} \ {NoTask})
  <2>1. QueueTypes'
    BY <1>2 DEF QueueTypes
  <2>2. ASSUME NEW u PROVE u \in Queued' <=> u \in Queued \cup {t}
    BY <1>2, NoTaskAssumption DEF QueueTypes, Queued
  <2> QED
    BY <2>1, <2>2
<1>3. CASE from \in Workers /\ ready' = ready \cup {t} /\ UNCHANGED slot
  BY <1>3, NoTaskAssumption DEF QueueTypes, Queued
<1> QED
  BY <1>1, <1>2, <1>3 DEF Spawn

\* A message that the default broker takes is queued for its consumer; one that
\* goes elsewhere leaves the queue alone.
LEMMA ProduceQueues ==
  ASSUME QueueTypes, HistoryTypes, NEW from \in Workers \cup {App},
         NEW b \in Brokers, NEW t \in Tasks, Produce(from, b, t)
  PROVE  /\ QueueTypes' /\ Queued \subseteq Queued'
         /\ \/ Queued' = Queued \cup {t} /\ UNCHANGED abroad /\ b = "default"
               /\ <<b, t.kind, TopicOf[t.call]>> \in consumers
            \/ UNCHANGED <<queueVars, Queued, abroad>> /\ b = "default"
               /\ <<b, t.kind, TopicOf[t.call]>> \notin consumers
            \/ UNCHANGED <<queueVars, Queued>> /\ abroad' = abroad \cup {t.call}
               /\ b = "other"
<1>1. CASE /\ b = "default" /\ <<"default", t.kind, TopicOf[t.call]>> \in consumers
           /\ Spawn(from, t) /\ UNCHANGED abroad
  BY <1>1, SpawnQueues
<1>2. CASE /\ b = "default" /\ <<"default", t.kind, TopicOf[t.call]>> \notin consumers
           /\ UNCHANGED <<queueVars, abroad>>
  BY <1>2 DEF QueueTypes, Queued, queueVars
<1>3. CASE b = "other" /\ abroad' = abroad \cup {t.call} /\ UNCHANGED queueVars
  BY <1>3 DEF QueueTypes, Queued, queueVars
<1> QED
  BY <1>1, <1>2, <1>3 DEF Produce

\* A worker takes one task, and it was queued.
LEMMA TakesOne ==
  ASSUME QueueTypes, NEW w \in Workers, NEW t \in Queued, Takes(w, t)
  PROVE  /\ QueueTypes' /\ t \in Tasks
         /\ Queued' \subseteq Queued /\ Queued \ {t} \subseteq Queued'
<1>1. t \in Tasks
  BY DEF QueueTypes, Queued
<1>2. QueueTypes'
  BY DEF QueueTypes, Takes
<1>3. ASSUME NEW u
      PROVE  /\ u \in Queued' => u \in Queued
             /\ u \in Queued \ {t} => u \in Queued'
  BY <1>1 DEF QueueTypes, Queued, Takes
<1> QED
  BY <1>1, <1>2, <1>3

\* Of a runtime that ends, one task is dropped at a time.
LEMMA DropsOne ==
  ASSUME QueueTypes, NEW t \in Queued, DropTask(t)
  PROVE  QueueTypes' /\ t \in Tasks /\ Queued' = Queued \ {t}
<1>1. t \in Tasks
  BY DEF QueueTypes, Queued
<1>2. QueueTypes'
  BY DEF QueueTypes, DropTask
<1>3. ASSUME NEW u PROVE u \in Queued' <=> u \in Queued \ {t}
  BY <1>1 DEF QueueTypes, Queued, DropTask
<1> QED
  BY <1>1, <1>2, <1>3

-----------------------------------------------------------------------------
(* Type correctness.                                                       *)

\* The state before the application does anything is well typed.
LEMMA TypeInit == Init => TypeOK
<1> SUFFICES ASSUME Init PROVE TypeOK
  OBVIOUS
<1>1. BrokerTypes /\ QueueTypes
  BY DEF Init, BrokerTypes, QueueTypes, Brokers
<1>2. CallTypes
  BY DEF Init, CallTypes, PCs
<1>3. ActionTypes /\ HistoryTypes
  BY DEF Init, ActionTypes, HistoryTypes, Brokers
<1> QED
  BY <1>1, <1>2, <1>3, TypeParts

\* The thread that makes a call is an application thread or a worker with an
\* action whose next step is that call.
LEMMA MakerTypes ==
  ASSUME ActionTypes, NEW from \in Workers \cup {App}, NEW c \in Calls, Makes(from, c)
  PROVE  \/ from = App /\ from \notin Workers
         \/ from \in Workers /\ from # App /\ running[from] \in Calls
            /\ Step(running[from]) = c
BY ProgramAssumption DEF Makes, ActionTypes

\* The next step of an action is one of its program.
LEMMA StepTypes ==
  ASSUME ActionTypes, NEW p \in Calls
  PROVE  /\ Step(p) \in Calls \cup {Push, NoCall}
         /\ Step(p) # NoCall => pos[p] \in 1 .. Len(Program[p])
                                /\ Step(p) = Program[p][pos[p]]
<1>1. Program[p] \in Seq(Calls \cup {Push})
  BY ProgramAssumption
<1>2. \A k \in 1 .. Len(Program[p]) : Program[p][k] \in Calls \cup {Push}
  BY <1>1
<1> QED
  BY <1>2 DEF Step

\* on(), set_consumer() and set_producer() preserve the types.
LEMMA TypeBroker ==
  ASSUME TypeOK, NEW t \in Topics,
         OnRequests(t) \/ OnResponses(t) \/ SetConsumer \/ SetProducer
           \/ SetProducerReturn
  PROVE  TypeOK'
<1> USE TypeParts
<1>1. CASE OnRequests(t) \/ OnResponses(t)
  <2>1. BrokerTypes'
    BY <1>1 DEF OnRequests, OnResponses, Register, BrokerTypes, brokerVars, Kinds
  <2> QED
    BY <1>1, <2>1, TypeFrames DEF OnRequests, OnResponses, Register
<1>2. CASE SetConsumer
  <2>1. BrokerTypes'
    BY <1>2 DEF SetConsumer, BrokerTypes, Brokers
  <2> QED
    BY <1>2, <2>1, TypeFrames DEF SetConsumer
<1>3. CASE SetProducer
  <2>1. BrokerTypes'
    BY <1>3 DEF SetProducer, BrokerTypes, Brokers
  <2> QED
    BY <1>3, <2>1, TypeFrames DEF SetProducer
<1>4. CASE SetProducerReturn
  <2>1. BrokerTypes'
    BY <1>4 DEF SetProducerReturn, BrokerTypes
  <2> QED
    BY <1>4, <2>1, TypeFrames DEF SetProducerReturn
<1> QED
  BY <1>1, <1>2, <1>3, <1>4

\* Every step of send() preserves the types.
LEMMA TypeSend ==
  ASSUME TypeOK, NEW from \in Workers \cup {App}, NEW c \in Calls, Send(from, c)
  PROVE  TypeOK'
<1> USE TypeParts
<1>1. CASE SendInsert(from, c)
  <2>1. CallTypes'
    BY <1>1 DEF SendInsert, CallTypes, RequestIds, PCs
  <2> QED
    BY <1>1, <2>1, TypeFrames DEF SendInsert
<1>2. CASE SendPublish(from, c)
  <2> DEFINE b == IF from = App THEN cb_producer ELSE via[running[from]]
             t == [kind |-> "req", call |-> c, part |-> 0]
  <2>1. b \in Brokers /\ t \in Tasks
    BY <1>2, MakerTypes DEF SendPublish, BrokerTypes, ActionTypes, Tasks, Kinds
  <2>2. Produce(from, b, t) /\ t.call = c
    BY <1>2 DEF SendPublish
  <2>3. QueueTypes' /\ abroad' \subseteq abroad \cup {c}
    BY <2>1, <2>2, ProduceQueues
  <2>4. CallTypes'
    BY <1>2 DEF SendPublish, CallTypes, PCs
  <2>5. HistoryTypes'
    BY <1>2, <2>3 DEF SendPublish, HistoryTypes
  <2> QED
    BY <1>2, <2>3, <2>4, <2>5, TypeFrames DEF SendPublish
<1>3. CASE SendReceive(from, c)
  <2>1. CallTypes'
    BY <1>3 DEF SendReceive, CallTypes, PCs
  <2>2. ActionTypes'
    BY <1>3, MakerTypes DEF SendReceive, Resume, ActionTypes
  <2> QED
    BY <1>3, <2>1, <2>2, TypeFrames DEF SendReceive
<1>4. CASE SendPanic(from, c)
  <2>1. CallTypes'
    BY <1>4 DEF SendPanic, CallTypes, PCs
  <2>2. BrokerTypes' /\ ActionTypes'
    BY <1>4, MakerTypes DEF SendPanic, Leave, BrokerTypes, ActionTypes
  <2>3. HistoryTypes'
    BY <1>4, MakerTypes DEF SendPanic, Unanswered, HistoryTypes
  <2> QED
    BY <1>4, <2>1, <2>2, <2>3, TypeFrames DEF SendPanic, queueVars
<1> QED
  BY <1>1, <1>2, <1>3, <1>4 DEF Send

\* The steps of the workers preserve the types.
LEMMA TypeWorker ==
  ASSUME TypeOK, NEW w \in Workers, TakeTask(w) \/ Act(w)
  PROVE  TypeOK'
<1> USE TypeParts
<1>1. ASSUME NEW t \in Queued, TakeRequest(w, t) PROVE TypeOK'
  <2>1. QueueTypes' /\ t \in Tasks
    BY <1>1, TakesOne DEF TakeRequest
  <2>2. ActionTypes'
    BY <1>1, <2>1 DEF TakeRequest, ActionTypes, Tasks
  <2> QED
    BY <1>1, <2>1, <2>2, TypeFrames DEF TakeRequest
<1>2. ASSUME NEW t \in Queued, RunResponse(w, t) PROVE TypeOK'
  <2>1. QueueTypes' /\ t \in Tasks
    BY <1>2, TakesOne DEF RunResponse
  <2>2. CallTypes'
    BY <1>2, <2>1 DEF RunResponse, TakeOut, CallTypes, Tasks
  <2> QED
    BY <1>2, <2>1, <2>2, TypeFrames DEF RunResponse
<1>3. CASE StartAction(w)
  <2>1. ActionTypes'
    BY <1>3 DEF StartAction, Starting, ActionTypes, BrokerTypes
  <2> QED
    BY <1>3, <2>1, TypeFrames DEF StartAction
<1>4. CASE ActionPush(w)
  <2> DEFINE c == running[w]
             t == [kind |-> "res", call |-> c, part |-> pos[c]]
  <2>1. c \in Calls /\ via[c] \in Brokers /\ t \in Tasks
    BY <1>4 DEF ActionPush, Idle, ActionTypes, Tasks, Kinds
  <2>2. Produce(w, via[c], t) /\ t.call = c
    BY <1>4 DEF ActionPush
  <2>3. QueueTypes' /\ abroad' \subseteq abroad \cup {c}
    BY <2>1, <2>2, ProduceQueues
  <2>4. ActionTypes'
    BY <1>4, <2>1 DEF ActionPush, ActionTypes
  <2>5. HistoryTypes'
    BY <1>4, <2>1, <2>3 DEF ActionPush, HistoryTypes
  <2> QED
    BY <1>4, <2>3, <2>4, <2>5, TypeFrames DEF ActionPush
<1>5. CASE ActionEnd(w)
  <2>1. BrokerTypes' /\ ActionTypes'
    BY <1>5 DEF ActionEnd, Leave, BrokerTypes, ActionTypes
  <2>2. HistoryTypes'
    BY <1>5 DEF ActionEnd, Idle, Unanswered, HistoryTypes, ActionTypes
  <2> QED
    BY <1>5, <2>1, <2>2, TypeFrames DEF ActionEnd, queueVars
<1> QED
  BY <1>1, <1>2, <1>3, <1>4, <1>5 DEF TakeTask, Act

\* The end of the runtime preserves the types.
LEMMA TypeDrop ==
  ASSUME TypeOK, NEW t \in Queued, DropTask(t)
  PROVE  TypeOK'
<1> USE TypeParts
<1>1. QueueTypes' /\ t \in Tasks
  BY DropsOne
<1>2. HistoryTypes'
  BY <1>1 DEF DropTask, HistoryTypes, Tasks
<1> QED
  BY <1>1, <1>2, TypeFrames DEF DropTask

\* TypeOK is inductive.
LEMMA TypeNext == TypeOK /\ [Next]_vars => TypeOK'
<1> SUFFICES ASSUME TypeOK, [Next]_vars PROVE TypeOK'
  OBVIOUS
<1>1. ASSUME NEW t \in Topics, OnRequests(t) \/ OnResponses(t) PROVE TypeOK'
  BY <1>1, TypeBroker
<1>2. CASE SetConsumer \/ SetProducer \/ SetProducerReturn
  <2>1. BrokerTypes'
    BY <1>2, TypeParts
       DEF SetConsumer, SetProducer, SetProducerReturn, BrokerTypes, Brokers
  <2> QED
    BY <1>2, <2>1, TypeParts, TypeFrames
       DEF SetConsumer, SetProducer, SetProducerReturn
<1>3. ASSUME NEW from \in Workers \cup {App}, NEW c \in Calls, Send(from, c)
      PROVE  TypeOK'
  BY <1>3, TypeSend
<1>4. ASSUME NEW w \in Workers, TakeTask(w) \/ Act(w) PROVE TypeOK'
  BY <1>4, TypeWorker
<1>5. ASSUME NEW t \in Queued, DropTask(t) PROVE TypeOK'
  BY <1>5, TypeDrop
<1>6. CASE UNCHANGED vars
  BY <1>6, TypeParts, TypeFrames DEF vars
<1> QED
  BY <1>1, <1>2, <1>3, <1>4, <1>5, <1>6 DEF Next

\* RPC stays in its types, whatever the actions do and however long they are.
THEOREM RPCTypeCorrect == Spec => []TypeOK
BY TypeInit, TypeNext, PTL DEF Spec

-----------------------------------------------------------------------------
(* The inductive invariants, in the order in which they are proved.        *)

\* A call that nobody has published.
Unpublished(c) == pc[c] \in {"idle", "publish"}

\* Nothing happens for a call before it is published.
PublishInv ==
  /\ \A t \in Queued : ~ Unpublished(t.call)
  /\ \A w \in Workers : running[w] \in Calls => ~ Unpublished(running[w])
  /\ \A c \in responded \cup lost \cup covered : ~ Unpublished(c)
  /\ \A c \in Calls : pos[c] > 0 => ~ Unpublished(c)

\* A call of send() that has neither got an answer nor lost its channel.
Pending(c) == pc[c] \in {"publish", "wait"} /\ chan[c] = NoCall

\* MAP and the pending calls refer to each other, even when ids repeat.
PendingInv ==
  \A c \in Calls :
    /\ request_id[c] \in Ids <=> pc[c] # "idle"
    /\ pc[c] = "idle" => chan[c] = NoCall
    /\ \A i \in Ids : MAP[i] = c => request_id[c] = i /\ Pending(c)
    /\ Pending(c) => MAP[request_id[c]] = c

QueuedAs(kind, c) == \E t \in Queued : t.kind = kind /\ t.call = c

\* As long as the action of a call has published no response, the request or
\* the action itself is still there; from then on, the response is.
Accounted(c) ==
  pc[c] = "wait" /\ chan[c] = NoCall =>
    \/ c \in lost \cup abroad
    \/ QueuedAs("res", c)
    \/ c \notin responded /\ (Runs(c) \/ QueuedAs("req", c))
AccountedInv == \A c \in Calls : Accounted(c)

-----------------------------------------------------------------------------
(* The two consumers of a topic are with one broker.                       *)

\* Nothing but on() and set_consumer() can disturb TopicIsWhole.
LEMMA WholeFrame ==
  ASSUME TopicIsWhole, UNCHANGED <<consumers, cb_consumer>>
  PROVE  TopicIsWhole'
BY DEF TopicIsWhole, Half

\* on() preserves it: the lock keeps any other on() from coming in between.
LEMMA WholeOn ==
  ASSUME TypeOK, TopicIsWhole, NEW t \in Topics, OnRequests(t) \/ OnResponses(t)
  PROVE  TopicIsWhole'
<1>1. cb_consumer \in Brokers /\ cb_consumer' = cb_consumer
  BY DEF TypeOK, OnRequests, OnResponses, Register, brokerVars
<1>2. CASE OnRequests(t)
  <2>1. consumers' = consumers \cup {<<cb_consumer, "req", t>>}
    BY <1>2 DEF OnRequests, Register
  <2> QED
    BY <1>1, <2>1 DEF TopicIsWhole, Half
<1>3. CASE OnResponses(t)
  <2>1. consumers' = consumers \cup {<<cb_consumer, "res", t>>}
    BY <1>3 DEF OnResponses, Register
  <2>2. <<cb_consumer, "req", t>> \in consumers
    BY <1>3 DEF OnResponses, TopicIsWhole, Half
  <2> QED
    BY <1>1, <2>1, <2>2 DEF TopicIsWhole, Half
<1> QED
  BY <1>2, <1>3

\* set_consumer() preserves it: no on() is between its two consumers.
LEMMA WholeSwitch == TopicIsWhole /\ SetConsumer => TopicIsWhole'
BY DEF TopicIsWhole, SetConsumer, Registering, Half

\* TopicIsWhole is inductive, given the types.
LEMMA WholeNext == TypeOK /\ TopicIsWhole /\ [Next]_vars => TopicIsWhole'
<1> SUFFICES ASSUME TypeOK, TopicIsWhole, [Next]_vars PROVE TopicIsWhole'
  OBVIOUS
<1>1. ASSUME NEW t \in Topics, OnRequests(t) \/ OnResponses(t) PROVE TopicIsWhole'
  BY <1>1, WholeOn
<1>2. CASE SetConsumer
  BY <1>2, WholeSwitch
<1>3. CASE SetProducer \/ SetProducerReturn
  BY <1>3, WholeFrame DEF SetProducer, SetProducerReturn
<1>4. ASSUME NEW from \in Workers \cup {App}, NEW c \in Calls, Send(from, c)
      PROVE  TopicIsWhole'
  BY <1>4, WholeFrame
     DEF Send, SendInsert, SendPublish, SendReceive, SendPanic, brokerVars
<1>5. ASSUME NEW w \in Workers, TakeTask(w) \/ Act(w) PROVE TopicIsWhole'
  BY <1>5, WholeFrame
     DEF TakeTask, TakeRequest, RunResponse, Act, StartAction, ActionPush,
         ActionEnd, brokerVars
<1>6. ASSUME NEW t \in Queued, DropTask(t) PROVE TopicIsWhole'
  BY <1>6, WholeFrame DEF DropTask, brokerVars
<1>7. CASE UNCHANGED vars
  BY <1>7, WholeFrame DEF vars, brokerVars
<1> QED
  BY <1>1, <1>2, <1>3, <1>4, <1>5, <1>6, <1>7 DEF Next

\* Whatever set_consumer() does and however often on() comes, a broker that gets
\* the requests of a topic gets its responses, but for one on() under way.
THEOREM TopicsAreWhole == Spec => []TopicIsWhole
<1>1. Init => TopicIsWhole
  BY DEF Init, TopicIsWhole, Half
<1> QED
  BY <1>1, WholeNext, RPCTypeCorrect, PTL DEF Spec

-----------------------------------------------------------------------------
(* Nothing happens for a call before it is published.                      *)

\* The tasks that are queued depend on the two queues only.
LEMMA QueuedFrame == UNCHANGED queueVars => Queued' = Queued
BY DEF queueVars, Queued

\* The tasks that are queued are tasks.
LEMMA QueuedTypes == QueueTypes => Queued \subseteq Tasks
BY DEF QueueTypes, Queued

\* A step preserves PublishInv if it makes no call unpublished and whatever is
\* new belongs to a published call.
LEMMA PublishKeeps ==
  ASSUME TypeOK, TypeOK', PublishInv,
         \A c \in Calls : Unpublished(c)' => Unpublished(c),
         \A t \in Queued' : t \in Queued \/ ~ Unpublished(t.call)',
         \A w \in Workers : running'[w] \in Calls =>
           running'[w] = running[w] \/ ~ Unpublished(running[w])',
         \A c \in responded' \cup lost' \cup covered' :
           c \in responded \cup lost \cup covered \/ ~ Unpublished(c)',
         \A c \in Calls : pos'[c] > 0 => pos[c] > 0 \/ ~ Unpublished(c)'
  PROVE  PublishInv'
<1>1. \A t \in Queued : t.call \in Calls
  BY QueuedTypes, TypeParts DEF Tasks
<1>2. \A t \in Queued' : ~ Unpublished(t.call)'
  BY <1>1 DEF PublishInv
<1>3. \A w \in Workers : running'[w] \in Calls => ~ Unpublished(running[w])'
  BY DEF PublishInv
<1>4. \A c \in responded' \cup lost' \cup covered' : ~ Unpublished(c)'
  BY DEF PublishInv, TypeOK
<1>5. \A c \in Calls : pos'[c] > 0 => ~ Unpublished(c)'
  BY DEF PublishInv
<1> QED
  BY <1>2, <1>3, <1>4, <1>5 DEF PublishInv, Unpublished

\* The steps of send() preserve PublishInv.
LEMMA PublishSend ==
  ASSUME TypeOK, TypeOK', PublishInv, NEW from \in Workers \cup {App},
         NEW c \in Calls, Send(from, c)
  PROVE  PublishInv'
<1> USE TypeParts
<1>1. CASE SendInsert(from, c)
  BY <1>1, PublishKeeps, QueuedFrame
     DEF SendInsert, Unpublished, CallTypes, actionVars, histVars
<1>2. CASE SendPublish(from, c)
  <2> DEFINE b == IF from = App THEN cb_producer ELSE via[running[from]]
             t == [kind |-> "req", call |-> c, part |-> 0]
  <2>1. b \in Brokers /\ t \in Tasks
    BY <1>2, MakerTypes DEF SendPublish, BrokerTypes, ActionTypes, Tasks, Kinds
  <2>2. Produce(from, b, t) /\ t.call = c
    BY <1>2 DEF SendPublish
  <2>3. Queued' \subseteq Queued \cup {t}
    BY <2>1, <2>2, ProduceQueues
  <2>4. pc' = [pc EXCEPT ![c] = "wait"] /\ covered' \subseteq covered \cup {c}
        /\ lost' \subseteq lost \cup {c}
        /\ UNCHANGED <<running, pos, responded>>
    BY <1>2 DEF SendPublish, actionVars
  <2>5. \A d \in Calls : Unpublished(d)' <=> Unpublished(d) /\ d # c
    BY <1>2, <2>4 DEF Unpublished, CallTypes, SendPublish
  <2> HIDE DEF t
  <2> QED
    BY <2>2, <2>3, <2>4, <2>5, PublishKeeps
<1>3. CASE SendReceive(from, c)
  <2>1. \A d \in Calls : Unpublished(d)' => Unpublished(d)
    BY <1>3 DEF SendReceive, Unpublished, CallTypes
  <2>2. \A d \in Calls : pos'[d] > 0 => pos[d] > 0 \/ ~ Unpublished(d)'
    <3>1. CASE from = App
      BY <1>3, <3>1, MakerTypes DEF SendReceive, Resume
    <3>2. CASE from \in Workers /\ running[from] \in Calls
      BY <1>3, <2>1, <3>2 DEF SendReceive, Resume, PublishInv, ActionTypes
    <3> QED
      BY <1>3, <3>1, <3>2, MakerTypes DEF SendReceive
  <2> QED
    BY <1>3, <2>1, <2>2, PublishKeeps, QueuedFrame DEF SendReceive, histVars
<1>4. CASE SendPanic(from, c)
  <2>1. \A d \in Calls : Unpublished(d)' => Unpublished(d)
    BY <1>4 DEF SendPanic, Unpublished, CallTypes
  <2>2. \A w \in Workers : running'[w] \in Calls => running'[w] = running[w]
    BY <1>4, ProgramAssumption DEF SendPanic, Leave, ActionTypes
  <2>3. \A d \in lost' : d \in lost \/ ~ Unpublished(d)'
    BY <1>4, <2>1, MakerTypes
       DEF SendPanic, Unanswered, PublishInv, HistoryTypes
  <2>4. UNCHANGED <<queueVars, pos, responded, covered>>
    BY <1>4 DEF SendPanic
  <2> QED
    BY <2>1, <2>2, <2>3, <2>4, PublishKeeps, QueuedFrame
<1> QED
  BY <1>1, <1>2, <1>3, <1>4 DEF Send

\* The steps of the workers preserve PublishInv.
LEMMA PublishWorker ==
  ASSUME TypeOK, TypeOK', PublishInv, NEW w \in Workers, TakeTask(w) \/ Act(w)
  PROVE  PublishInv'
<1> USE TypeParts
<1>1. ASSUME NEW t \in Queued, TakeRequest(w, t) PROVE PublishInv'
  <2>1. Queued' \subseteq Queued /\ ~ Unpublished(t.call)
    BY <1>1, TakesOne DEF TakeRequest, PublishInv
  <2>2. \A d \in Calls : Unpublished(d)' <=> Unpublished(d)
    BY <1>1 DEF TakeRequest, callVars, Unpublished
  <2>3. t.call \in Calls
    BY QueuedTypes DEF Tasks
  <2>4. \A v \in Workers : running'[v] = running[v] \/ running'[v] = t.call
    BY <1>1 DEF TakeRequest, ActionTypes
  <2>5. \A v \in Workers : running'[v] = running[v] \/ ~ Unpublished(running[v])'
    BY <2>1, <2>2, <2>3, <2>4 DEF Unpublished
  <2>6. UNCHANGED <<pos, responded, lost, covered>>
    BY <1>1 DEF TakeRequest, histVars
  <2> QED
    BY <2>1, <2>2, <2>5, <2>6, PublishKeeps
<1>2. ASSUME NEW t \in Queued, RunResponse(w, t) PROVE PublishInv'
  <2>1. Queued' \subseteq Queued
    BY <1>2, TakesOne DEF RunResponse
  <2>2. UNCHANGED <<pc, running, pos, responded, lost, covered>>
    BY <1>2 DEF RunResponse, actionVars, histVars
  <2> QED
    BY <2>1, <2>2, PublishKeeps DEF Unpublished
<1>3. CASE StartAction(w)
  <2>1. \A d \in Calls : Unpublished(d)' <=> Unpublished(d)
    BY <1>3 DEF StartAction, callVars, Unpublished
  <2>2. running[w] \in Calls /\ ~ Unpublished(running[w])
    BY <1>3 DEF StartAction, Starting, PublishInv
  <2>3. pos' = [pos EXCEPT ![running[w]] = 1]
        /\ UNCHANGED <<queueVars, running, responded, lost, covered>>
    BY <1>3 DEF StartAction, histVars
  <2> QED
    BY <2>1, <2>2, <2>3, PublishKeeps, QueuedFrame DEF ActionTypes
<1>4. CASE ActionPush(w)
  <2> DEFINE c == running[w]
             t == [kind |-> "res", call |-> c, part |-> pos[c]]
  <2>1. c \in Calls /\ via[c] \in Brokers /\ t \in Tasks
    BY <1>4 DEF ActionPush, Idle, ActionTypes, Tasks, Kinds
  <2>2. Produce(w, via[c], t) /\ t.call = c
    BY <1>4 DEF ActionPush
  <2>3. Queued' \subseteq Queued \cup {t}
    BY <2>1, <2>2, ProduceQueues
  <2>4. \A d \in Calls : Unpublished(d)' <=> Unpublished(d)
    BY <1>4 DEF ActionPush, callVars, Unpublished
  <2>5. ~ Unpublished(c)
    BY <2>1 DEF PublishInv
  <2>6. pos' = [pos EXCEPT ![c] = @ + 1] /\ responded' \subseteq responded \cup {c}
        /\ UNCHANGED <<running, lost, covered>>
    BY <1>4 DEF ActionPush
  <2> HIDE DEF t, c
  <2> QED
    BY <2>1, <2>2, <2>3, <2>4, <2>5, <2>6, PublishKeeps DEF ActionTypes
<1>5. CASE ActionEnd(w)
  <2>1. \A d \in Calls : Unpublished(d)' <=> Unpublished(d)
    BY <1>5 DEF ActionEnd, callVars, Unpublished
  <2>2. \A v \in Workers : running'[v] \in Calls => running'[v] = running[v]
    BY <1>5, ProgramAssumption DEF ActionEnd, Leave, ActionTypes
  <2>3. \A d \in lost' : d \in lost \/ ~ Unpublished(d)'
    BY <1>5, <2>1 DEF ActionEnd, Idle, Unanswered, PublishInv, ActionTypes
  <2>4. UNCHANGED <<queueVars, pos, responded, covered>>
    BY <1>5 DEF ActionEnd
  <2> QED
    BY <2>1, <2>2, <2>3, <2>4, PublishKeeps, QueuedFrame
<1> QED
  BY <1>1, <1>2, <1>3, <1>4, <1>5 DEF TakeTask, Act

\* PublishInv is inductive, given the types.
LEMMA PublishNext == TypeOK /\ TypeOK' /\ PublishInv /\ [Next]_vars => PublishInv'
<1> SUFFICES ASSUME TypeOK, TypeOK', PublishInv, [Next]_vars PROVE PublishInv'
  OBVIOUS
<1>1. ASSUME NEW t \in Topics, OnRequests(t) \/ OnResponses(t) PROVE PublishInv'
  BY <1>1, PublishKeeps, QueuedFrame
     DEF OnRequests, OnResponses, Register, callVars, actionVars, histVars, Unpublished
<1>2. CASE SetConsumer \/ SetProducer \/ SetProducerReturn
  BY <1>2, PublishKeeps, QueuedFrame
     DEF SetConsumer, SetProducer, SetProducerReturn, callVars, actionVars,
         histVars, Unpublished
<1>3. ASSUME NEW from \in Workers \cup {App}, NEW c \in Calls, Send(from, c)
      PROVE  PublishInv'
  BY <1>3, PublishSend
<1>4. ASSUME NEW w \in Workers, TakeTask(w) \/ Act(w) PROVE PublishInv'
  BY <1>4, PublishWorker
<1>5. ASSUME NEW t \in Queued, DropTask(t) PROVE PublishInv'
  <2>1. Queued' \subseteq Queued /\ ~ Unpublished(t.call)
    BY <1>5, DropsOne, TypeParts DEF PublishInv
  <2>2. UNCHANGED <<pc, running, pos, responded, covered>>
        /\ lost' = lost \cup {t.call}
    BY <1>5 DEF DropTask, callVars, actionVars
  <2> QED
    BY <2>1, <2>2, PublishKeeps DEF Unpublished
<1>6. CASE UNCHANGED vars
  BY <1>6, PublishKeeps, QueuedFrame
     DEF vars, callVars, actionVars, histVars, Unpublished
<1> QED
  BY <1>1, <1>2, <1>3, <1>4, <1>5, <1>6 DEF Next

\* PublishInv holds always.
LEMMA PublishAlways == Spec => []PublishInv
<1>1. Init => PublishInv
  BY ProgramAssumption DEF Init, PublishInv, Queued
<1> QED
  BY <1>1, PublishNext, RPCTypeCorrect, PTL DEF Spec

-----------------------------------------------------------------------------
(* MAP holds the sender of exactly the calls that wait for an answer.      *)

\* PendingInv depends on the variables of the calls only.
LEMMA PendingFrame ==
  ASSUME PendingInv, UNCHANGED <<MAP, chan, pc, request_id>>
  PROVE  PendingInv'
BY DEF PendingInv, Pending

\* MAP.insert preserves PendingInv: the sender that it drops, if an id comes
\* twice, is that of a call which is no longer pending.
LEMMA PendingInsert ==
  ASSUME TypeOK, PendingInv, NEW from, NEW c \in Calls, SendInsert(from, c)
  PROVE  PendingInv'
<1> USE TypeParts
<1>1. PICK i \in Ids :
        /\ request_id' = [request_id EXCEPT ![c] = i]
        /\ MAP' = [MAP EXCEPT ![i] = c]
        /\ chan' = IF MAP[i] = NoCall THEN chan
                   ELSE [chan EXCEPT ![MAP[i]] = "closed"]
  BY DEF SendInsert, RequestIds
<1>2. pc[c] = "idle" /\ pc' = [pc EXCEPT ![c] = "publish"] /\ chan[c] = NoCall
  BY DEF SendInsert, PendingInv
<1>3. MAP[i] # c
  BY <1>2 DEF PendingInv, Pending
<1>4. request_id'[c] = i /\ pc'[c] = "publish" /\ chan'[c] = NoCall /\ MAP'[i] = c
  BY <1>1, <1>2, <1>3 DEF CallTypes
<1>5. ASSUME NEW j \in Ids, MAP'[j] = c PROVE j = i
  BY <1>1, <1>2, <1>5 DEF CallTypes, PendingInv, Pending
<1>6. ASSUME NEW d \in Calls, d # c
      PROVE  /\ request_id'[d] = request_id[d] /\ pc'[d] = pc[d]
             /\ chan'[d] = IF MAP[i] = d THEN "closed" ELSE chan[d]
             /\ \A j \in Ids : MAP'[j] = d <=> j # i /\ MAP[j] = d
  BY <1>1, <1>2, <1>6, ProgramAssumption DEF CallTypes
<1>7. ASSUME NEW d \in Calls, d # c
      PROVE  /\ request_id'[d] \in Ids <=> pc'[d] # "idle"
             /\ pc'[d] = "idle" => chan'[d] = NoCall
             /\ \A j \in Ids : MAP'[j] = d => request_id'[d] = j /\ Pending(d)'
             /\ Pending(d)' => MAP'[request_id'[d]] = d
  <2>1. MAP[i] = d => request_id[d] = i /\ pc[d] \in {"publish", "wait"}
    BY DEF PendingInv, Pending
  <2>2. \A j \in Ids : MAP[j] = d => request_id[d] = j /\ Pending(d)
    BY DEF PendingInv
  <2>3. Pending(d)' <=> Pending(d) /\ MAP[i] # d
    BY <1>6, <1>7, <2>2, ProgramAssumption DEF Pending
  <2>4. Pending(d) => MAP[request_id[d]] = d /\ request_id[d] \in Ids
    BY DEF PendingInv, Pending
  <2>5. /\ request_id[d] \in Ids <=> pc[d] # "idle"
        /\ pc[d] = "idle" => chan[d] = NoCall
    BY DEF PendingInv
  <2> QED
    BY <1>6, <1>7, <2>1, <2>2, <2>3, <2>4, <2>5
<1> QED
  BY <1>4, <1>5, <1>7, <1>2 DEF PendingInv, Pending

\* send() goes on: a call stays pending until it has an answer.
LEMMA PendingSend ==
  ASSUME TypeOK, PendingInv, NEW from \in Workers \cup {App}, NEW c \in Calls,
         Send(from, c)
  PROVE  PendingInv'
<1>1. CASE SendInsert(from, c)
  BY <1>1, PendingInsert
<1>2. CASE SendPublish(from, c)
  <2>1. /\ pc[c] = "publish" /\ pc' = [pc EXCEPT ![c] = "wait"]
        /\ UNCHANGED <<MAP, chan, request_id>>
    BY <1>2 DEF SendPublish
  <2> QED
    BY <2>1, TypeParts DEF PendingInv, Pending, CallTypes
<1>3. CASE SendReceive(from, c) \/ SendPanic(from, c)
  <2>1. /\ pc[c] = "wait" /\ chan[c] # NoCall
        /\ \/ pc' = [pc EXCEPT ![c] = "returned"]
           \/ pc' = [pc EXCEPT ![c] = "panicked"]
        /\ UNCHANGED <<MAP, chan, request_id>>
    BY <1>3, ProgramAssumption DEF SendReceive, SendPanic
  <2> QED
    BY <2>1, TypeParts DEF PendingInv, Pending, CallTypes
<1> QED
  BY <1>1, <1>2, <1>3 DEF Send

\* The response consumer preserves PendingInv: the call whose channel it takes
\* out of MAP has its answer.
LEMMA PendingResponse ==
  ASSUME TypeOK, PublishInv, PendingInv, NEW w \in Workers, NEW t \in Queued,
         RunResponse(w, t)
  PROVE  PendingInv'
<1> USE TypeParts
<1> DEFINE i == request_id[t.call]
<1>1. t.call \in Calls
  BY QueuedTypes DEF Tasks
<1>2. i \in Ids
  BY <1>1 DEF PublishInv, PendingInv, Unpublished
<1>3. /\ MAP' = [MAP EXCEPT ![i] = NoCall]
      /\ chan' = IF MAP[i] = NoCall THEN chan ELSE [chan EXCEPT ![MAP[i]] = t.call]
      /\ UNCHANGED <<pc, request_id>>
  BY DEF RunResponse, IdOf, TakeOut
<1> HIDE DEF i
<1>4. ASSUME NEW d \in Calls
      PROVE  /\ chan'[d] = IF MAP[i] = d THEN t.call ELSE chan[d]
             /\ \A j \in Ids : MAP'[j] = d <=> j # i /\ MAP[j] = d
  BY <1>2, <1>3, ProgramAssumption DEF CallTypes
<1>5. t.call # NoCall
  BY <1>1, ProgramAssumption
<1> QED
  BY <1>2, <1>3, <1>4, <1>5 DEF PendingInv, Pending

\* PendingInv is inductive, given the types and PublishInv.
LEMMA PendingNext ==
  TypeOK /\ PublishInv /\ PendingInv /\ [Next]_vars => PendingInv'
<1> SUFFICES ASSUME TypeOK, PublishInv, PendingInv, [Next]_vars PROVE PendingInv'
  OBVIOUS
<1>1. ASSUME NEW t \in Topics, OnRequests(t) \/ OnResponses(t) PROVE PendingInv'
  BY <1>1, PendingFrame DEF OnRequests, OnResponses, Register, callVars
<1>2. CASE SetConsumer \/ SetProducer \/ SetProducerReturn
  BY <1>2, PendingFrame DEF SetConsumer, SetProducer, SetProducerReturn, callVars
<1>3. ASSUME NEW from \in Workers \cup {App}, NEW c \in Calls, Send(from, c)
      PROVE  PendingInv'
  BY <1>3, PendingSend
<1>4. ASSUME NEW w \in Workers, NEW t \in Queued, RunResponse(w, t)
      PROVE  PendingInv'
  BY <1>4, PendingResponse
<1>5. ASSUME NEW w \in Workers, NEW t \in Queued, TakeRequest(w, t)
      PROVE  PendingInv'
  BY <1>5, PendingFrame DEF TakeRequest, callVars
<1>6. ASSUME NEW w \in Workers, Act(w) PROVE PendingInv'
  BY <1>6, PendingFrame DEF Act, StartAction, ActionPush, ActionEnd, callVars
<1>7. ASSUME NEW t \in Queued, DropTask(t) PROVE PendingInv'
  BY <1>7, PendingFrame DEF DropTask, callVars
<1>8. CASE UNCHANGED vars
  BY <1>8, PendingFrame DEF vars, callVars
<1> QED
  BY <1>1, <1>2, <1>3, <1>4, <1>5, <1>6, <1>7, <1>8 DEF Next, TakeTask

\* PendingInv holds always.
LEMMA PendingAlways == Spec => []PendingInv
<1>1. ASSUME Init PROVE PendingInv
  <2>1. /\ \A c \in Calls : request_id[c] = NoId /\ pc[c] = "idle" /\ chan[c] = NoCall
        /\ \A i \in Ids : MAP[i] = NoCall
    BY <1>1 DEF Init
  <2> QED
    BY <2>1, ProgramAssumption DEF PendingInv, Pending
<1> QED
  BY <1>1, PendingNext, RPCTypeCorrect, PublishAlways, PTL DEF Spec

\* MAP neither loses the sender of a call that waits nor keeps one that got its
\* answer: even when the clock gives an id twice.
THEOREM MapHoldsThePending == Spec => []PendingIffInMap
<1>1. TypeOK /\ PendingInv => PendingIffInMap
  BY DEF TypeOK, PendingInv, Pending, PendingIffInMap
<1> QED
  BY <1>1, PendingAlways, RPCTypeCorrect, PTL

-----------------------------------------------------------------------------
(* What repeated ids can do.                                               *)

\* A channel has a response to the id of its call, and the call returned with
\* what is in it; a closed one has left the id to another that is not closed.
CollisionInv ==
  \A c \in Calls :
    /\ chan[c] \in Calls =>
         request_id[chan[c]] = request_id[c] /\ pc[chan[c]] # "idle"
    /\ answer[c] # NoCall => answer[c] = chan[c]
    /\ pc[c] = "panicked" => chan[c] = "closed"
    /\ chan[c] = "closed" =>
         \E d \in Calls \ {c} : request_id[d] = request_id[c] /\ chan[d] # "closed"

\* CollisionInv depends on the variables of the calls only.
LEMMA CollisionFrame ==
  ASSUME CollisionInv, UNCHANGED <<chan, pc, request_id, answer>>
  PROVE  CollisionInv'
BY DEF CollisionInv

\* MAP.insert: a call whose sender is dropped leaves its id to the new one.
LEMMA CollisionInsert ==
  ASSUME TypeOK, PendingInv, CollisionInv, NEW from, NEW e \in Calls,
         SendInsert(from, e)
  PROVE  CollisionInv'
<1> USE TypeParts
<1>1. PICK i \in Ids :
        /\ request_id' = [request_id EXCEPT ![e] = i]
        /\ chan' = IF MAP[i] = NoCall THEN chan
                   ELSE [chan EXCEPT ![MAP[i]] = "closed"]
  BY DEF SendInsert, RequestIds
<1>2. /\ pc[e] = "idle" /\ pc' = [pc EXCEPT ![e] = "publish"] /\ chan[e] = NoCall
      /\ answer' = answer
  BY DEF SendInsert, PendingInv
<1>3. MAP[i] # e /\ (MAP[i] \in Calls =>
                      request_id[MAP[i]] = i /\ chan[MAP[i]] = NoCall)
  BY <1>2 DEF PendingInv, Pending
<1>4. request_id'[e] = i /\ chan'[e] = NoCall /\ pc'[e] = "publish"
  BY <1>1, <1>2, <1>3 DEF CallTypes
<1>5. ASSUME NEW d \in Calls, d # e
      PROVE  /\ request_id'[d] = request_id[d] /\ pc'[d] = pc[d]
             /\ chan'[d] = IF MAP[i] = d THEN "closed" ELSE chan[d]
  BY <1>1, <1>2, <1>5, ProgramAssumption DEF CallTypes
<1>6. NoCall # "closed" /\ NoCall \notin Calls /\ "closed" \notin Calls
  BY ProgramAssumption
<1>7. ASSUME NEW c \in Calls
      PROVE  /\ chan'[c] \in Calls =>
                  request_id'[chan'[c]] = request_id'[c] /\ pc'[chan'[c]] # "idle"
             /\ answer[c] # NoCall => answer[c] = chan'[c]
             /\ pc'[c] = "panicked" => chan'[c] = "closed"
  BY <1>2, <1>3, <1>4, <1>5, <1>6 DEF CollisionInv, CallTypes
<1>8. ASSUME NEW c \in Calls, chan'[c] = "closed"
      PROVE  \E d \in Calls \ {c} :
               request_id'[d] = request_id'[c] /\ chan'[d] # "closed"
  <2>1. c # e
    BY <1>4, <1>6, <1>8
  <2>2. CASE MAP[i] = c
    BY <1>3, <1>4, <1>5, <1>6, <2>1, <2>2
  <2>3. CASE MAP[i] # c
    <3>1. chan[c] = "closed"
      BY <1>5, <1>8, <2>1, <2>3
    <3>2. PICK d \in Calls \ {c} :
            request_id[d] = request_id[c] /\ chan[d] # "closed"
      BY <3>1 DEF CollisionInv
    <3>3. d # e
      BY <1>2, <1>6, <3>1, <3>2 DEF PendingInv
    <3>4. CASE MAP[i] = d
      BY <1>3, <1>4, <1>5, <1>6, <2>1, <3>2, <3>4
    <3>5. CASE MAP[i] # d
      BY <1>5, <2>1, <3>2, <3>3, <3>5
    <3> QED
      BY <3>4, <3>5
  <2> QED
    BY <2>2, <2>3
<1> QED
  BY <1>2, <1>7, <1>8 DEF CollisionInv

\* The other steps of send(): it returns with what is in its channel, and panics
\* if that is closed.
LEMMA CollisionSend ==
  ASSUME TypeOK, PendingInv, CollisionInv, NEW from \in Workers \cup {App},
         NEW c \in Calls, Send(from, c)
  PROVE  CollisionInv'
<1> USE TypeParts
<1>1. CASE SendInsert(from, c)
  BY <1>1, CollisionInsert
<1>2. CASE SendPublish(from, c)
  <2>1. pc' = [pc EXCEPT ![c] = "wait"] /\ UNCHANGED <<chan, request_id, answer>>
    BY <1>2 DEF SendPublish
  <2> QED
    BY <2>1 DEF CollisionInv, CallTypes
<1>3. CASE SendReceive(from, c)
  <2>1. /\ pc' = [pc EXCEPT ![c] = "returned"]
        /\ answer' = [answer EXCEPT ![c] = chan[c]]
        /\ UNCHANGED <<chan, request_id>>
    BY <1>3 DEF SendReceive
  <2> QED
    BY <2>1 DEF CollisionInv, CallTypes
<1>4. CASE SendPanic(from, c)
  <2>1. /\ pc' = [pc EXCEPT ![c] = "panicked"] /\ chan[c] = "closed"
        /\ UNCHANGED <<chan, request_id, answer>>
    BY <1>4 DEF SendPanic
  <2> QED
    BY <2>1 DEF CollisionInv, CallTypes
<1> QED
  BY <1>1, <1>2, <1>3, <1>4 DEF Send

\* The response consumer gives a channel a response to the id it is stored under.
LEMMA CollisionResponse ==
  ASSUME TypeOK, PublishInv, PendingInv, CollisionInv, NEW w \in Workers,
         NEW t \in Queued, RunResponse(w, t)
  PROVE  CollisionInv'
<1> USE TypeParts
<1> DEFINE i == request_id[t.call]
<1>1. t.call \in Calls
  BY QueuedTypes DEF Tasks
<1>2. i \in Ids /\ pc[t.call] # "idle"
  BY <1>1 DEF PublishInv, PendingInv, Unpublished
<1>3. /\ chan' = IF MAP[i] = NoCall THEN chan ELSE [chan EXCEPT ![MAP[i]] = t.call]
      /\ UNCHANGED <<pc, request_id, answer>>
  BY DEF RunResponse, IdOf
<1>4. MAP[i] \in Calls => request_id[MAP[i]] = i /\ Pending(MAP[i])
  BY <1>2 DEF PendingInv
<1>5. ASSUME NEW d \in Calls
      PROVE  chan'[d] = IF MAP[i] = d THEN t.call ELSE chan[d]
  BY <1>3, ProgramAssumption DEF CallTypes
<1>6. t.call # "closed" /\ NoCall \notin Calls
  BY <1>1, ProgramAssumption
<1>7. ASSUME NEW d \in Calls, answer[d] # NoCall PROVE MAP[i] # d
  BY <1>4, <1>7 DEF CollisionInv, Pending
<1>8. ASSUME NEW d \in Calls, pc[d] = "panicked" PROVE MAP[i] # d
  BY <1>4, <1>8 DEF Pending
<1> HIDE DEF i
<1>9. ASSUME NEW c \in Calls
      PROVE  /\ chan'[c] \in Calls =>
                  request_id[chan'[c]] = request_id[c] /\ pc[chan'[c]] # "idle"
             /\ answer[c] # NoCall => answer[c] = chan'[c]
             /\ pc[c] = "panicked" => chan'[c] = "closed"
  BY <1>2, <1>4, <1>5, <1>7, <1>8 DEF CollisionInv, i
<1>10. ASSUME NEW c \in Calls, chan'[c] = "closed"
       PROVE  \E d \in Calls \ {c} :
                request_id[d] = request_id[c] /\ chan'[d] # "closed"
  BY <1>5, <1>6, <1>10 DEF CollisionInv
<1> QED
  BY <1>3, <1>9, <1>10 DEF CollisionInv

\* CollisionInv is inductive, given the types, PublishInv and PendingInv.
LEMMA CollisionNext ==
  TypeOK /\ PublishInv /\ PendingInv /\ CollisionInv /\ [Next]_vars => CollisionInv'
<1> SUFFICES ASSUME TypeOK, PublishInv, PendingInv, CollisionInv, [Next]_vars
             PROVE  CollisionInv'
  OBVIOUS
<1>1. ASSUME NEW t \in Topics, OnRequests(t) \/ OnResponses(t) PROVE CollisionInv'
  BY <1>1, CollisionFrame DEF OnRequests, OnResponses, Register, callVars
<1>2. CASE SetConsumer \/ SetProducer \/ SetProducerReturn
  BY <1>2, CollisionFrame DEF SetConsumer, SetProducer, SetProducerReturn, callVars
<1>3. ASSUME NEW from \in Workers \cup {App}, NEW c \in Calls, Send(from, c)
      PROVE  CollisionInv'
  BY <1>3, CollisionSend
<1>4. ASSUME NEW w \in Workers, NEW t \in Queued, RunResponse(w, t)
      PROVE  CollisionInv'
  BY <1>4, CollisionResponse
<1>5. ASSUME NEW w \in Workers, NEW t \in Queued, TakeRequest(w, t)
      PROVE  CollisionInv'
  BY <1>5, CollisionFrame DEF TakeRequest, callVars
<1>6. ASSUME NEW w \in Workers, Act(w) PROVE CollisionInv'
  BY <1>6, CollisionFrame DEF Act, StartAction, ActionPush, ActionEnd, callVars
<1>7. ASSUME NEW t \in Queued, DropTask(t) PROVE CollisionInv'
  BY <1>7, CollisionFrame DEF DropTask, callVars
<1>8. CASE UNCHANGED vars
  BY <1>8, CollisionFrame DEF vars, callVars
<1> QED
  BY <1>1, <1>2, <1>3, <1>4, <1>5, <1>6, <1>7, <1>8 DEF Next, TakeTask

\* Whatever ids the clock gives, a send() returns with a response to its own id,
\* and panics only if another call of that id does not.
THEOREM CollisionsStayWithTheirId == Spec => []CollisionsAreContained
<1>1. Init => CollisionInv
  <2> SUFFICES ASSUME Init PROVE CollisionInv
    OBVIOUS
  <2>1. \A c \in Calls : chan[c] = NoCall /\ pc[c] = "idle" /\ answer[c] = NoCall
    BY DEF Init
  <2>2. NoCall # "closed" /\ NoCall \notin Calls
    BY ProgramAssumption
  <2> QED
    BY <2>1, <2>2 DEF CollisionInv
<1>2. TypeOK /\ CollisionInv => CollisionsAreContained
  <2> SUFFICES ASSUME TypeOK, CollisionInv, NEW c \in Calls
               PROVE  /\ answer[c] # NoCall => request_id[answer[c]] = request_id[c]
                      /\ pc[c] = "panicked" =>
                           \E d \in Calls \ {c} :
                             request_id[d] = request_id[c] /\ pc[d] # "panicked"
    BY DEF CollisionsAreContained
  <2>1. answer[c] \in Calls \cup {NoCall}
    BY DEF TypeOK
  <2> QED
    BY <2>1 DEF CollisionInv
<1> QED
  BY <1>1, <1>2, CollisionNext, RPCTypeCorrect, PublishAlways, PendingAlways, PTL
     DEF Spec

-----------------------------------------------------------------------------
(* A waiting call is accounted for.                                        *)

\* A call is accounted for as before if nothing of it is taken away.
LEMMA AccountedFrame ==
  ASSUME NEW c \in Calls, Accounted(c),
         pc'[c] = "wait" => pc[c] = "wait", chan'[c] = NoCall => chan[c] = NoCall,
         c \in lost \cup abroad => c \in lost' \cup abroad',
         \A t \in Queued : t.call = c => t \in Queued',
         Runs(c) => Runs(c)' \/ c \in responded \cup lost',
         c \in responded' => c \in responded
  PROVE  Accounted(c)'
BY DEF Accounted, QueuedAs

\* send() leaves every call accounted for.
LEMMA AccountedSend ==
  ASSUME TypeOK, PublishInv, AccountedInv, NEW from \in Workers \cup {App},
         NEW c \in Calls, Send(from, c), NEW d \in Calls
  PROVE  Accounted(d)'
<1> USE TypeParts
<1>0. Accounted(d)
  BY DEF AccountedInv
<1>1. CASE SendInsert(from, c)
  <2>1. UNCHANGED <<Queued, running, responded, lost, abroad>>
    BY <1>1, QueuedFrame DEF SendInsert, actionVars, histVars
  <2>2. /\ pc'[d] = "wait" => pc[d] = "wait"
        /\ chan'[d] = NoCall => chan[d] = NoCall
    BY <1>1, ProgramAssumption DEF SendInsert, CallTypes
  <2> QED
    BY <1>0, <2>1, <2>2, AccountedFrame DEF Runs
<1>2. CASE SendPublish(from, c)
  <2> DEFINE b == IF from = App THEN cb_producer ELSE via[running[from]]
             t == [kind |-> "req", call |-> c, part |-> 0]
  <2>1. b \in Brokers /\ t \in Tasks
    BY <1>2, MakerTypes DEF SendPublish, BrokerTypes, ActionTypes, Tasks, Kinds
  <2>2. Produce(from, b, t) /\ t.call = c /\ t.kind = "req"
    BY <1>2 DEF SendPublish
  <2>3. /\ Queued \subseteq Queued'
        /\ \/ t \in Queued' /\ UNCHANGED abroad
           \/ b = "default" /\ <<b, "req", TopicOf[c]>> \notin consumers
              /\ UNCHANGED abroad
           \/ abroad' = abroad \cup {c}
    BY <2>1, <2>2, ProduceQueues
  <2>4. /\ pc' = [pc EXCEPT ![c] = "wait"]
        /\ UNCHANGED <<chan, running, responded>>
        /\ lost' = IF b = "other" \/ <<b, "req", TopicOf[c]>> \in consumers
                   THEN lost ELSE lost \cup {c}
    BY <1>2 DEF SendPublish, actionVars
  <2>5. c \notin responded
    BY <1>2 DEF SendPublish, PublishInv, Unpublished
  <2>6. CASE d = c
    <3>1. c \in lost' \cup abroad' \/ t \in Queued'
      BY <2>3, <2>4
    <3> QED
      BY <2>2, <2>4, <2>5, <2>6, <3>1 DEF Accounted, QueuedAs
  <2>7. CASE d # c
    <3> HIDE DEF b, t
    <3> QED
      BY <1>0, <2>3, <2>4, <2>7, AccountedFrame DEF CallTypes, Runs
  <2> QED
    BY <2>6, <2>7
<1>3. CASE SendReceive(from, c)
  <2>1. UNCHANGED <<Queued, chan, running, responded, lost, abroad>>
    BY <1>3, QueuedFrame DEF SendReceive, histVars
  <2>2. pc'[d] = "wait" => pc[d] = "wait"
    BY <1>3 DEF SendReceive, CallTypes
  <2> QED
    BY <1>0, <2>1, <2>2, AccountedFrame DEF Runs
<1>4. CASE SendPanic(from, c)
  <2>1. UNCHANGED <<Queued, chan, responded, abroad>>
    BY <1>4, QueuedFrame DEF SendPanic
  <2>2. pc'[d] = "wait" => pc[d] = "wait"
    BY <1>4 DEF SendPanic, CallTypes
  <2>3. lost \subseteq lost' /\ (Runs(d) => Runs(d)' \/ d \in responded \cup lost')
    <3>1. CASE from = App
      BY <1>4, <3>1 DEF SendPanic, Runs
    <3>2. CASE from # App
      BY <1>4, <3>2 DEF SendPanic, Leave, Unanswered, Runs, ActionTypes
    <3> QED
      BY <3>1, <3>2
  <2> QED
    BY <1>0, <2>1, <2>2, <2>3, AccountedFrame
<1> QED
  BY <1>1, <1>2, <1>3, <1>4 DEF Send

\* The steps of the workers leave every call accounted for.
LEMMA AccountedWorker ==
  ASSUME TypeOK, PublishInv, PendingInv, AccountedInv, NEW w \in Workers,
         TakeTask(w) \/ Act(w), NEW d \in Calls
  PROVE  Accounted(d)'
<1> USE TypeParts
<1>0. Accounted(d)
  BY DEF AccountedInv
<1>1. ASSUME NEW t \in Queued, TakeRequest(w, t) PROVE Accounted(d)'
  <2>1. Queued \ {t} \subseteq Queued' /\ t.call \in Calls /\ t.kind = "req"
    BY <1>1, TakesOne DEF TakeRequest, Tasks
  <2>2. UNCHANGED <<pc, chan, responded, lost, abroad>>
        /\ running' = [running EXCEPT ![w] = t.call] /\ running[w] = NoCall
    BY <1>1 DEF TakeRequest, callVars, histVars, Idle
  <2>3. Runs(d) => Runs(d)'
    BY <2>2, ProgramAssumption DEF Runs, ActionTypes
  <2>4. CASE d = t.call
    <3>1. Runs(d)'
      BY <2>1, <2>2, <2>4 DEF Runs, ActionTypes
    <3>2. QueuedAs("res", d) => QueuedAs("res", d)'
      BY <2>1 DEF QueuedAs
    <3> QED
      BY <1>0, <2>2, <3>1, <3>2 DEF Accounted
  <2>5. CASE d # t.call
    BY <1>0, <2>1, <2>2, <2>3, <2>5, AccountedFrame
  <2> QED
    BY <2>4, <2>5
<1>2. ASSUME NEW t \in Queued, RunResponse(w, t) PROVE Accounted(d)'
  <2> DEFINE i == request_id[t.call]
  <2>1. Queued \ {t} \subseteq Queued' /\ t.call \in Calls
    BY <1>2, TakesOne DEF RunResponse, Tasks
  <2>2. UNCHANGED <<pc, running, responded, lost, abroad>>
        /\ chan' = IF MAP[i] = NoCall THEN chan ELSE [chan EXCEPT ![MAP[i]] = t.call]
    BY <1>2 DEF RunResponse, IdOf, actionVars, histVars
  <2>3. i \in Ids
    BY <2>1 DEF PublishInv, PendingInv, Unpublished
  <2>4. CASE d = t.call
    <3>1. ~ (pc'[d] = "wait" /\ chan'[d] = NoCall)
      <4>1. SUFFICES ASSUME pc[d] = "wait", chan'[d] = NoCall PROVE FALSE
        BY <2>2
      <4>2. chan[d] = NoCall
        BY <2>1, <2>2, <4>1, ProgramAssumption DEF CallTypes
      <4>3. MAP[i] = d
        BY <2>4, <4>1, <4>2 DEF PendingInv, Pending
      <4> QED
        BY <2>1, <2>2, <2>4, <4>1, <4>3, ProgramAssumption DEF CallTypes
    <3> QED
      BY <3>1 DEF Accounted
  <2>5. CASE d # t.call
    <3>1. chan'[d] = NoCall => chan[d] = NoCall
      BY <2>1, <2>2, ProgramAssumption DEF CallTypes
    <3> QED
      BY <1>0, <2>1, <2>2, <2>5, <3>1, AccountedFrame DEF Runs
  <2> QED
    BY <2>4, <2>5
<1>3. CASE StartAction(w)
  BY <1>0, <1>3, AccountedFrame, QueuedFrame
     DEF StartAction, callVars, histVars, Runs
<1>4. CASE ActionPush(w)
  <2> DEFINE c == running[w]
             t == [kind |-> "res", call |-> c, part |-> pos[c]]
  <2>1. c \in Calls /\ via[c] \in Brokers /\ t \in Tasks
    BY <1>4 DEF ActionPush, Idle, ActionTypes, Tasks, Kinds
  <2>2. Produce(w, via[c], t) /\ t.call = c /\ t.kind = "res"
    BY <1>4 DEF ActionPush
  <2>3. /\ Queued \subseteq Queued'
        /\ \/ t \in Queued' /\ UNCHANGED abroad
           \/ <<via[c], "res", TopicOf[c]>> \notin consumers /\ UNCHANGED abroad
           \/ abroad' = abroad \cup {c}
    BY <2>1, <2>2, ProduceQueues
  <2>4. /\ UNCHANGED <<pc, chan, running, lost>>
        /\ responded' = IF <<via[c], "res", TopicOf[c]>> \in consumers
                        THEN responded \cup {c} ELSE responded
    BY <1>4 DEF ActionPush, callVars
  <2>5. CASE d = c
    <3>1. c \in abroad' \/ t \in Queued' \/ UNCHANGED responded
      BY <2>3, <2>4
    <3>2. CASE c \in abroad' \/ t \in Queued'
      BY <2>2, <2>5, <3>2 DEF Accounted, QueuedAs
    <3>3. CASE UNCHANGED responded
      <4> HIDE DEF c, t
      <4> QED
        BY <1>0, <2>3, <2>4, <3>3, AccountedFrame DEF Runs
    <3> QED
      BY <3>1, <3>2, <3>3
  <2>6. CASE d # c
    <3> HIDE DEF c, t
    <3> QED
      BY <1>0, <2>3, <2>4, <2>6, AccountedFrame DEF Runs
  <2> QED
    BY <2>5, <2>6
<1>5. CASE ActionEnd(w)
  <2>1. UNCHANGED <<Queued, chan, pc, responded, abroad>>
    BY <1>5, QueuedFrame DEF ActionEnd, callVars
  <2>2. lost \subseteq lost' /\ (Runs(d) => Runs(d)' \/ d \in responded \cup lost')
    BY <1>5 DEF ActionEnd, Leave, Unanswered, Runs, ActionTypes
  <2> QED
    BY <1>0, <2>1, <2>2, AccountedFrame
<1> QED
  BY <1>1, <1>2, <1>3, <1>4, <1>5 DEF TakeTask, Act

\* AccountedInv is inductive, given the three invariants before.
LEMMA AccountedNext ==
  TypeOK /\ PublishInv /\ PendingInv /\ AccountedInv /\ [Next]_vars => AccountedInv'
<1> SUFFICES ASSUME TypeOK, PublishInv, PendingInv, AccountedInv, [Next]_vars,
                    NEW d \in Calls
             PROVE  Accounted(d)'
  BY DEF AccountedInv
<1>0. Accounted(d)
  BY DEF AccountedInv
<1>1. ASSUME NEW t \in Topics, OnRequests(t) \/ OnResponses(t) PROVE Accounted(d)'
  BY <1>0, <1>1, AccountedFrame, QueuedFrame
     DEF OnRequests, OnResponses, Register, callVars, actionVars, histVars, Runs
<1>2. CASE SetConsumer \/ SetProducer \/ SetProducerReturn
  BY <1>0, <1>2, AccountedFrame, QueuedFrame
     DEF SetConsumer, SetProducer, SetProducerReturn, callVars, actionVars,
         histVars, Runs
<1>3. ASSUME NEW from \in Workers \cup {App}, NEW c \in Calls, Send(from, c)
      PROVE  Accounted(d)'
  BY <1>3, AccountedSend
<1>4. ASSUME NEW w \in Workers, TakeTask(w) \/ Act(w) PROVE Accounted(d)'
  BY <1>4, AccountedWorker
<1>5. ASSUME NEW t \in Queued, DropTask(t) PROVE Accounted(d)'
  <2>1. Queued' = Queued \ {t}
    BY <1>5, DropsOne, TypeParts
  <2>2. UNCHANGED <<pc, chan, running, responded, abroad>>
        /\ lost' = lost \cup {t.call}
    BY <1>5 DEF DropTask, callVars, actionVars
  <2>3. CASE d = t.call
    BY <2>2, <2>3 DEF Accounted
  <2>4. CASE d # t.call
    BY <1>0, <2>1, <2>2, <2>4, AccountedFrame DEF Runs
  <2> QED
    BY <2>3, <2>4
<1>6. CASE UNCHANGED vars
  BY <1>0, <1>6, AccountedFrame, QueuedFrame
     DEF vars, callVars, actionVars, histVars, Runs
<1> QED
  BY <1>1, <1>2, <1>3, <1>4, <1>5, <1>6 DEF Next

\* No call of send() waits without a cause: as long as it has no answer, its
\* request or a response is on the way, or the response can be named as lost or
\* as another broker's. No order of the threads loses a message silently.
THEOREM NoCallIsForgotten == Spec => []WaitingIsAccountedFor
<1>1. Init => AccountedInv
  BY DEF Init, AccountedInv, Accounted
<1>2. AccountedInv => WaitingIsAccountedFor
  BY DEF AccountedInv, Accounted, QueuedAs, Runs, WaitingIsAccountedFor
<1> QED
  BY <1>1, <1>2, AccountedNext, RPCTypeCorrect, PublishAlways, PendingAlways, PTL
     DEF Spec
=============================================================================
