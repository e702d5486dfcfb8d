-------------------------- MODULE RPC_answer_proofs --------------------------
(***************************************************************************)
(* Theorems about RPC that rest on distinct request ids: who gets which    *)
(* response, what a nested send() can wait for, and that RPC implements    *)
(* RequestReply.                                                           *)
(***************************************************************************)
EXTENDS RPC_proofs

\* With distinct ids a call's channel carries its own response, once published.
AnswerInv ==
  /\ \A c, d \in Calls :
       request_id[c] = request_id[d] /\ request_id[c] \in Ids => c = d
  /\ \A c \in Calls :
       chan[c] \in {NoCall, c} /\ (Unpublished(c) => chan[c] = NoCall)
  /\ NoRecvPanic /\ AnswersOwnRequest

\* The action of a call has not begun, and nobody has answered the call.
Fresh(c) ==
  pos[c] = 0 /\ ~ Runs(c) /\ chan[c] = NoCall /\ ~ QueuedAs("res", c)

\* No request is both in the queue and in a slot, or in two slots.
OnePlace ==
  /\ \A w \in Workers : slot[w] \in ready => slot[w].kind = "res"
  /\ \A v, w \in Workers :
       slot[v] = slot[w] /\ slot[w] # NoTask /\ slot[w].kind = "req" => v = w

\* A request that is queued is in one place, and fresh.
FreshInv ==
  /\ \A t \in Queued : t.kind = "req" => t.part = 0 /\ Fresh(t.call)
  /\ OnePlace

\* Worker w waits for the request in its own slot, and its action's stream has a
\* clone of the default producer.
Stuck(w) == SelfWait(w) /\ via[running[w]] = "default"

\* A request in a worker's own slot is the one that this worker waits for: it is
\* there to stay, as the clone keeps the runtime from being shut down.
SlotInv ==
  /\ \A w \in Workers : slot[w] # NoTask /\ slot[w].kind = "req" => Stuck(w)
  /\ runtime = "down" => cb_producer = "other" /\ Holders = {}

\* Without set_producer() all messages go to the default broker.
OnlyDefault ==
  /\ cb_producer = "default" /\ runtime = "up"
  /\ \A c \in Calls : via[c] = "default"

\* The response consumer of a covered call is there, so that its action publishes
\* whatever it pushes, and it is not given up if there is such a push.
CoveredCall(c) ==
  /\ <<"default", "res", TopicOf[c]>> \in consumers
  /\ \A k \in 1 .. Len(Program[c]) :
       Program[c][k] = Push /\ pos[c] > k => c \in responded
  /\ Pushes(c) => c \notin lost

CoveredInv == OnlyDefault /\ \A c \in covered : CoveredCall(c)

-----------------------------------------------------------------------------
(* Answers: every channel carries the response to its own request.         *)

\* AnswerInv depends on the variables of the calls only.
LEMMA AnswerFrame ==
  ASSUME AnswerInv, UNCHANGED callVars
  PROVE  AnswerInv'
BY DEF AnswerInv, callVars, Unpublished, NoRecvPanic, AnswersOwnRequest

\* A new id is nobody's, and so MAP has no sender under it that would be dropped.
LEMMA AnswerInsert ==
  ASSUME DistinctIds, TypeOK, PendingInv, AnswerInv, NEW from, NEW c \in Calls,
         SendInsert(from, c)
  PROVE  AnswerInv' /\ UNCHANGED chan
<1> USE TypeParts
<1>1. PICK i \in Ids :
        /\ \A d \in Calls : request_id[d] # i
        /\ request_id' = [request_id EXCEPT ![c] = i]
        /\ chan' = IF MAP[i] = NoCall THEN chan
                   ELSE [chan EXCEPT ![MAP[i]] = "closed"]
  BY DEF SendInsert, RequestIds
<1>2. MAP[i] = NoCall
  BY <1>1 DEF PendingInv, CallTypes
<1>3. pc[c] = "idle" /\ pc' = [pc EXCEPT ![c] = "publish"]
      /\ UNCHANGED <<chan, answer>>
  BY <1>1, <1>2 DEF SendInsert
<1>4. \A d, e \in Calls :
        request_id'[d] = request_id'[e] /\ request_id'[d] \in Ids => d = e
  BY <1>1 DEF AnswerInv, CallTypes
<1>5. \A d \in Calls : Unpublished(d)' <=> Unpublished(d)
  BY <1>3 DEF Unpublished, CallTypes
<1>6. NoRecvPanic' /\ AnswersOwnRequest'
  BY <1>3 DEF AnswerInv, NoRecvPanic, AnswersOwnRequest, CallTypes
<1> QED
  BY <1>3, <1>4, <1>5, <1>6 DEF AnswerInv

\* A call publishes, returns with what its channel carries, and never panics.
LEMMA AnswerSend ==
  ASSUME DistinctIds, TypeOK, PendingInv, AnswerInv, NEW from, NEW c \in Calls,
         Send(from, c)
  PROVE  AnswerInv' /\ UNCHANGED chan /\ ~ SendPanic(from, c)
<1> USE TypeParts
<1>1. chan[c] # "closed"
  BY ProgramAssumption DEF AnswerInv
<1>2. ~ SendPanic(from, c)
  BY <1>1 DEF SendPanic
<1>3. CASE SendInsert(from, c)
  BY <1>2, <1>3, AnswerInsert
<1>4. CASE SendPublish(from, c)
  <2>1. pc' = [pc EXCEPT ![c] = "wait"] /\ UNCHANGED <<chan, request_id, answer>>
    BY <1>4 DEF SendPublish
  <2>2. \A d \in Calls : Unpublished(d)' => Unpublished(d)
    BY <2>1 DEF Unpublished, CallTypes
  <2>3. NoRecvPanic' /\ AnswersOwnRequest'
    BY <2>1 DEF AnswerInv, NoRecvPanic, AnswersOwnRequest, CallTypes
  <2> QED
    BY <1>2, <2>1, <2>2, <2>3 DEF AnswerInv
<1>5. CASE SendReceive(from, c)
  <2>1. /\ pc' = [pc EXCEPT ![c] = "returned"] /\ answer' = [answer EXCEPT ![c] = c]
        /\ UNCHANGED <<chan, request_id>>
    BY <1>5, ProgramAssumption DEF SendReceive, AnswerInv
  <2>2. \A d \in Calls : Unpublished(d)' => Unpublished(d)
    BY <2>1 DEF Unpublished, CallTypes
  <2>3. NoRecvPanic' /\ AnswersOwnRequest'
    BY <2>1 DEF AnswerInv, NoRecvPanic, AnswersOwnRequest, CallTypes
  <2> QED
    BY <1>2, <2>1, <2>2, <2>3 DEF AnswerInv
<1> QED
  BY <1>2, <1>3, <1>4, <1>5 DEF Send

\* Under the id of a response MAP has the call that it answers, or nobody.
LEMMA AnswerResponse ==
  ASSUME TypeOK, PublishInv, PendingInv, AnswerInv, NEW w \in Workers,
         NEW t \in Queued, RunResponse(w, t)
  PROVE  /\ AnswerInv' /\ t.call \in Calls
         /\ \A d \in Calls : d # t.call => chan'[d] = chan[d]
<1> USE TypeParts
<1> DEFINE i == request_id[t.call]
<1>1. t.call \in Calls
  BY QueuedTypes DEF Tasks
<1>2. i \in Ids /\ ~ Unpublished(t.call)
  BY <1>1 DEF PublishInv, PendingInv, Unpublished
<1>3. MAP[i] \in {NoCall, t.call}
  BY <1>1, <1>2 DEF PendingInv, AnswerInv, CallTypes
<1>4. /\ chan' = IF MAP[i] = NoCall THEN chan ELSE [chan EXCEPT ![MAP[i]] = t.call]
      /\ UNCHANGED <<pc, request_id, answer>>
  BY DEF RunResponse, IdOf
<1> HIDE DEF i
<1>5. chan' \in {chan, [chan EXCEPT ![t.call] = t.call]}
  BY <1>3, <1>4
<1>6. NoRecvPanic' /\ AnswersOwnRequest'
  BY <1>4 DEF AnswerInv, NoRecvPanic, AnswersOwnRequest
<1>7. \A d \in Calls : /\ d # t.call => chan'[d] = chan[d]
                       /\ chan'[t.call] \in {chan[t.call], t.call}
  BY <1>1, <1>5 DEF CallTypes
<1>8. \A d \in Calls :
        chan'[d] \in {NoCall, d} /\ (Unpublished(d)' => chan'[d] = NoCall)
  BY <1>1, <1>2, <1>4, <1>7 DEF AnswerInv, Unpublished
<1> QED
  BY <1>1, <1>4, <1>6, <1>7, <1>8 DEF AnswerInv

\* AnswerInv is inductive, given the types, PublishInv and PendingInv.
LEMMA AnswerNext ==
  ASSUME DistinctIds, TypeOK, PublishInv, PendingInv, AnswerInv, [Next]_vars
  PROVE  AnswerInv'
<1>1. ASSUME NEW t \in Topics, OnRequests(t) \/ OnResponses(t) PROVE AnswerInv'
  BY <1>1, AnswerFrame DEF OnRequests, OnResponses, Register
<1>2. CASE SetConsumer \/ SetProducer \/ SetProducerReturn
  BY <1>2, AnswerFrame DEF SetConsumer, SetProducer, SetProducerReturn
<1>3. ASSUME NEW from \in Workers \cup {App}, NEW c \in Calls, Send(from, c)
      PROVE  AnswerInv'
  BY <1>3, AnswerSend
<1>4. ASSUME NEW w \in Workers, NEW t \in Queued, RunResponse(w, t)
      PROVE  AnswerInv'
  BY <1>4, AnswerResponse
<1>5. ASSUME NEW w \in Workers, NEW t \in Queued, TakeRequest(w, t)
      PROVE  AnswerInv'
  BY <1>5, AnswerFrame DEF TakeRequest
<1>6. ASSUME NEW w \in Workers, Act(w) PROVE AnswerInv'
  BY <1>6, AnswerFrame DEF Act, StartAction, ActionPush, ActionEnd
<1>7. ASSUME NEW t \in Queued, DropTask(t) PROVE AnswerInv'
  BY <1>7, AnswerFrame DEF DropTask
<1>8. CASE UNCHANGED vars
  BY <1>8, AnswerFrame DEF vars
<1> QED
  BY <1>1, <1>2, <1>3, <1>4, <1>5, <1>6, <1>7, <1>8 DEF Next, TakeTask

\* AnswerInv holds always.
LEMMA AnswerAlways == ASSUME DistinctIds PROVE Spec => []AnswerInv
<1>1. Init => AnswerInv
  <2> SUFFICES ASSUME Init PROVE AnswerInv
    OBVIOUS
  <2>1. \A c \in Calls : request_id[c] \notin Ids /\ chan[c] = NoCall /\ c # NoCall
                         /\ pc[c] = "idle" /\ answer[c] = NoCall
    BY ProgramAssumption DEF Init
  <2> QED
    BY <2>1 DEF AnswerInv, NoRecvPanic, AnswersOwnRequest
<1>2. TypeOK /\ PublishInv /\ PendingInv /\ AnswerInv /\ [Next]_vars => AnswerInv'
  BY AnswerNext
<1> QED
  BY <1>1, <1>2, RPCTypeCorrect, PublishAlways, PendingAlways, PTL DEF Spec

\* As long as the clock never gives an id twice, every send() that returns has
\* the response to its own request, of however many a topic's action pushes.
THEOREM AnswersAreOnesOwn ==
  ASSUME DistinctIds PROVE Spec => []AnswersOwnRequest
<1>1. AnswerInv => AnswersOwnRequest
  BY DEF AnswerInv
<1> QED
  BY <1>1, AnswerAlways, PTL

-----------------------------------------------------------------------------
(* A request that is queued is in one place, and nothing came of it yet.   *)

\* A new task leaves every request in one place, if it is not queued already.
LEMMA SpawnOnePlace ==
  ASSUME QueueTypes, OnePlace, NEW from \in Workers \cup {App}, NEW t \in Tasks,
         t \notin Queued \/ t.kind = "res", Spawn(from, t)
  PROVE  OnePlace'
<1>1. \A w \in Workers : slot[w] = t => t \in Queued
  BY NoTaskAssumption DEF Queued
<1>2. t \in ready => t \in Queued
  BY NoTaskAssumption DEF Queued
<1>3. CASE ready' = ready \cup {t} /\ UNCHANGED slot
  BY <1>1, <1>3 DEF OnePlace
<1>4. CASE /\ from \in Workers
           /\ slot' = [slot EXCEPT ![from] = t]
           /\ ready' = ready \cup ({slot[from]} \ {NoTask})
  <2>1. \A w \in Workers : slot'[w] = IF w = from THEN t ELSE slot[w]
    BY <1>4 DEF QueueTypes
  <2>2. ASSUME NEW w \in Workers, slot'[w] \in ready' PROVE slot'[w].kind = "res"
    <3>1. CASE w = from /\ t \in ready
      BY <1>2, <2>1, <3>1 DEF QueueTypes, Queued
    <3>2. CASE w = from /\ t = slot[from]
      BY <1>1, <1>4, <2>1, <3>2
    <3>3. CASE w # from /\ slot[w] \in ready
      BY <2>1, <3>3 DEF OnePlace
    <3>4. CASE w # from /\ slot[w] = slot[from] /\ slot[from] # NoTask
      <4>1. slot[from] \in Tasks /\ slot[from].kind # "req"
        BY <1>4, <3>4 DEF OnePlace, QueueTypes
      <4> QED
        BY <2>1, <3>4, <4>1 DEF Tasks, Kinds
    <3> QED
      BY <1>4, <2>1, <2>2, <3>1, <3>2, <3>3, <3>4
  <2>3. ASSUME NEW v \in Workers, NEW w \in Workers,
               slot'[v] = slot'[w], slot'[w] # NoTask, slot'[w].kind = "req"
        PROVE  v = w
    BY <1>1, <2>1, <2>3 DEF OnePlace
  <2> QED
    BY <2>2, <2>3 DEF OnePlace
<1> QED
  BY <1>3, <1>4 DEF Spawn

\* So does a message, of whichever broker.
LEMMA ProduceOnePlace ==
  ASSUME QueueTypes, OnePlace, NEW from \in Workers \cup {App}, NEW b,
         NEW t \in Tasks, t \notin Queued \/ t.kind = "res", Produce(from, b, t)
  PROVE  OnePlace'
<1>1. CASE Spawn(from, t)
  BY <1>1, SpawnOnePlace
<1>2. CASE UNCHANGED queueVars
  BY <1>2 DEF queueVars, OnePlace
<1> QED
  BY <1>1, <1>2 DEF Produce, queueVars

\* A worker that takes a task leaves the others where they are; a request that
\* it takes is gone.
LEMMA TakesOnePlace ==
  ASSUME QueueTypes, OnePlace, NEW w \in Workers, NEW t \in Queued, Takes(w, t)
  PROVE  OnePlace' /\ (t.kind = "req" => t \notin Queued')
<1>1. t \in Tasks /\ t # NoTask
  BY QueuedTypes, NoTaskAssumption
<1>2. CASE t \in ready /\ ready' = ready \ {t} /\ UNCHANGED slot
  BY <1>1, <1>2 DEF OnePlace, Queued
<1>3. CASE slot[w] = t /\ slot' = [slot EXCEPT ![w] = NoTask] /\ UNCHANGED ready
  <2>1. \A v \in Workers : slot'[v] = IF v = w THEN NoTask ELSE slot[v]
    BY <1>3 DEF QueueTypes
  <2>2. NoTask \notin ready'
    BY <1>3, NoTaskAssumption DEF QueueTypes
  <2>3. OnePlace'
    BY <1>3, <2>1, <2>2 DEF OnePlace
  <2>4. t.kind = "req" => t \notin ready /\ \A v \in Workers : slot[v] = t => v = w
    BY <1>1, <1>3 DEF OnePlace
  <2> QED
    BY <1>1, <1>3, <2>1, <2>3, <2>4 DEF Queued
<1> QED
  BY <1>2, <1>3 DEF Takes

\* A call stays fresh if nothing happens for it.
LEMMA FreshKept ==
  ASSUME NEW c \in Calls, Fresh(c), pos'[c] = pos[c], Runs(c)' => Runs(c),
         chan'[c] = chan[c],
         \A t \in Queued' : t.call = c /\ t.kind = "res" => t \in Queued
  PROVE  Fresh(c)'
BY DEF Fresh, QueuedAs

\* The steps of send() preserve FreshInv.
LEMMA FreshSend ==
  ASSUME DistinctIds, TypeOK, PublishInv, PendingInv, AnswerInv, FreshInv,
         NEW from \in Workers \cup {App}, NEW c \in Calls, Send(from, c)
  PROVE  FreshInv'
<1> USE TypeParts
<1>0. UNCHANGED chan /\ ~ SendPanic(from, c)
  BY AnswerSend
<1>1. ASSUME NEW t \in Queued, t.kind = "req"
      PROVE  t.call \in Calls /\ t.part = 0 /\ Fresh(t.call)
  BY <1>1, QueuedTypes DEF FreshInv, Tasks
<1>2. CASE SendInsert(from, c)
  <2>1. UNCHANGED <<Queued, queueVars, pos, running>>
    BY <1>2, QueuedFrame DEF SendInsert, actionVars
  <2>2. OnePlace'
    BY <2>1 DEF queueVars, FreshInv, OnePlace
  <2> QED
    BY <1>0, <1>1, <2>1, <2>2, FreshKept DEF FreshInv, Runs
<1>3. CASE SendPublish(from, c)
  <2> DEFINE b == IF from = App THEN cb_producer ELSE via[running[from]]
             t == [kind |-> "req", call |-> c, part |-> 0]
  <2>1. b \in Brokers /\ t \in Tasks
    BY <1>3, MakerTypes DEF SendPublish, BrokerTypes, ActionTypes, Tasks, Kinds
  <2>2. Produce(from, b, t) /\ t.call = c /\ t.kind = "req" /\ t.part = 0
    BY <1>3 DEF SendPublish
  <2> HIDE DEF t, b
  <2>3. UNCHANGED <<pos, running>> /\ Unpublished(c)
    BY <1>3 DEF SendPublish, actionVars, Unpublished
  <2>4. \A u \in Queued : u.call # c
    BY <2>3 DEF PublishInv
  <2>5. Queued' \subseteq Queued \cup {t}
    BY <2>1, <2>2, ProduceQueues
  <2>6. OnePlace'
    BY <2>1, <2>2, <2>4, ProduceOnePlace DEF FreshInv
  <2>7. Fresh(c)'
    <3>1. pos[c] = 0 /\ ~ Runs(c) /\ chan[c] = NoCall
      BY <2>3 DEF PublishInv, ActionTypes, AnswerInv, Runs
    <3> QED
      BY <1>0, <2>2, <2>3, <2>4, <2>5, <3>1 DEF Fresh, Runs, QueuedAs
  <2>8. ASSUME NEW u \in Queued, u.kind = "req" PROVE Fresh(u.call)'
    BY <1>0, <1>1, <2>2, <2>3, <2>5, <2>8, FreshKept DEF Runs
  <2> QED
    BY <1>1, <2>2, <2>5, <2>6, <2>7, <2>8 DEF FreshInv
<1>4. CASE SendReceive(from, c)
  <2>1. UNCHANGED <<Queued, queueVars, running>>
    BY <1>4, QueuedFrame DEF SendReceive
  <2>2. OnePlace'
    BY <2>1 DEF queueVars, FreshInv, OnePlace
  <2>3. \A d \in Calls : ~ Runs(d) => pos'[d] = pos[d]
    BY <1>4, MakerTypes DEF SendReceive, Resume, Runs, ActionTypes
  <2> QED
    BY <1>0, <1>1, <2>1, <2>2, <2>3, FreshKept DEF FreshInv, Runs, Fresh
<1> QED
  BY <1>0, <1>2, <1>3, <1>4 DEF Send

\* The steps of the workers preserve FreshInv.
LEMMA FreshWorker ==
  ASSUME TypeOK, PublishInv, PendingInv, AnswerInv, FreshInv, NEW w \in Workers,
         TakeTask(w) \/ Act(w)
  PROVE  FreshInv'
<1> USE TypeParts
<1>0. ASSUME NEW t \in Queued, t.kind = "req"
      PROVE  t.call \in Calls /\ t.part = 0 /\ Fresh(t.call)
  BY <1>0, QueuedTypes DEF FreshInv, Tasks
<1>1. ASSUME NEW t \in Queued, TakeRequest(w, t) PROVE FreshInv'
  <2>1. t.kind = "req" /\ Takes(w, t) /\ UNCHANGED <<chan, pos>>
        /\ running' = [running EXCEPT ![w] = t.call]
    BY <1>1 DEF TakeRequest, callVars
  <2>2. OnePlace' /\ t \notin Queued' /\ Queued' \subseteq Queued
    BY <2>1, TakesOne, TakesOnePlace DEF FreshInv
  <2>3. ASSUME NEW u \in Queued', u.kind = "req" PROVE u.call # t.call
    <3>1. u \in Tasks /\ t \in Tasks /\ u.part = t.part /\ u.kind = t.kind /\ u # t
      BY <1>0, <2>1, <2>2, <2>3, QueuedTypes
    <3> QED
      BY <3>1 DEF Tasks
  <2>4. ASSUME NEW u \in Queued', u.kind = "req" PROVE u.part = 0 /\ Fresh(u.call)'
    <3>1. Runs(u.call)' => Runs(u.call)
      BY <2>1, <2>3, <2>4 DEF Runs, ActionTypes
    <3> QED
      BY <1>0, <2>1, <2>2, <2>4, <3>1, FreshKept
  <2> QED
    BY <2>2, <2>4 DEF FreshInv
<1>2. ASSUME NEW t \in Queued, RunResponse(w, t) PROVE FreshInv'
  <2>1. t.kind = "res" /\ Takes(w, t) /\ UNCHANGED <<pos, running>>
    BY <1>2 DEF RunResponse, actionVars
  <2>2. OnePlace' /\ Queued' \subseteq Queued
    BY <2>1, TakesOne, TakesOnePlace DEF FreshInv
  <2>3. \A d \in Calls : d # t.call => chan'[d] = chan[d]
    BY <1>2, AnswerResponse
  <2>4. ASSUME NEW u \in Queued', u.kind = "req" PROVE u.part = 0 /\ Fresh(u.call)'
    <3>1. u.call # t.call
      BY <1>0, <2>1, <2>2, <2>4 DEF Fresh, QueuedAs
    <3> QED
      BY <1>0, <2>1, <2>2, <2>3, <2>4, <3>1, FreshKept DEF Runs
  <2> QED
    BY <2>2, <2>4 DEF FreshInv
<1>3. CASE StartAction(w) \/ ActionEnd(w)
  <2>1. UNCHANGED <<Queued, queueVars, chan>>
    BY <1>3, QueuedFrame DEF StartAction, ActionEnd, callVars
  <2>2. OnePlace'
    BY <2>1 DEF queueVars, FreshInv, OnePlace
  <2>3. \A d \in Calls : ~ Runs(d) => pos'[d] = pos[d] /\ ~ Runs(d)'
    BY <1>3, ProgramAssumption
       DEF StartAction, Starting, ActionEnd, Leave, Runs, ActionTypes
  <2> QED
    BY <1>0, <2>1, <2>2, <2>3, FreshKept DEF FreshInv, Fresh
<1>4. CASE ActionPush(w)
  <2> DEFINE c == running[w]
             t == [kind |-> "res", call |-> c, part |-> pos[c]]
  <2>1. c \in Calls /\ via[c] \in Brokers /\ t \in Tasks
    BY <1>4 DEF ActionPush, Idle, ActionTypes, Tasks, Kinds
  <2>2. Produce(w, via[c], t) /\ t.call = c /\ t.kind = "res"
    BY <1>4 DEF ActionPush
  <2>3. Runs(c) /\ pos' = [pos EXCEPT ![c] = @ + 1] /\ UNCHANGED <<running, chan>>
    BY <1>4 DEF ActionPush, callVars, Runs
  <2> HIDE DEF t, c
  <2>4. OnePlace' /\ Queued' \subseteq Queued \cup {t}
    BY <2>1, <2>2, ProduceQueues, ProduceOnePlace DEF FreshInv
  <2>5. ASSUME NEW u \in Queued', u.kind = "req" PROVE u.part = 0 /\ Fresh(u.call)'
    <3>1. u \in Queued /\ u.call # c
      BY <1>0, <2>2, <2>3, <2>4, <2>5 DEF Fresh
    <3> QED
      BY <1>0, <2>2, <2>3, <2>4, <2>5, <3>1, FreshKept DEF Runs, ActionTypes
  <2> QED
    BY <2>4, <2>5 DEF FreshInv
<1> QED
  BY <1>1, <1>2, <1>3, <1>4 DEF TakeTask, Act

\* FreshInv is inductive, given the invariants before.
LEMMA FreshNext ==
  ASSUME DistinctIds, TypeOK, PublishInv, PendingInv, AnswerInv, FreshInv,
         [Next]_vars
  PROVE  FreshInv'
<1> USE TypeParts
<1>0. ASSUME NEW t \in Queued, t.kind = "req"
      PROVE  t.call \in Calls /\ t.part = 0 /\ Fresh(t.call)
  BY <1>0, QueuedTypes DEF FreshInv, Tasks
<1>1. ASSUME UNCHANGED <<queueVars, chan, running, pos>> PROVE FreshInv'
  <2>1. UNCHANGED Queued /\ OnePlace'
    BY <1>1, QueuedFrame DEF queueVars, FreshInv, OnePlace
  <2> QED
    BY <1>0, <1>1, <2>1, FreshKept DEF FreshInv, Runs
<1>2. ASSUME NEW t \in Topics, OnRequests(t) \/ OnResponses(t) PROVE FreshInv'
  BY <1>1, <1>2 DEF OnRequests, OnResponses, Register, callVars, actionVars
<1>3. CASE SetConsumer \/ SetProducer \/ SetProducerReturn
  BY <1>1, <1>3 DEF SetConsumer, SetProducer, SetProducerReturn, callVars, actionVars
<1>4. ASSUME NEW from \in Workers \cup {App}, NEW c \in Calls, Send(from, c)
      PROVE  FreshInv'
  BY <1>4, FreshSend
<1>5. ASSUME NEW w \in Workers, TakeTask(w) \/ Act(w) PROVE FreshInv'
  BY <1>5, FreshWorker
<1>6. ASSUME NEW t \in Queued, DropTask(t) PROVE FreshInv'
  <2>1. UNCHANGED <<chan, running, pos>> /\ Queued' \subseteq Queued
    BY <1>6, DropsOne DEF DropTask, callVars, actionVars
  <2>2. /\ ready' = ready \ {t}
        /\ \A w \in Workers : slot'[w] = IF slot[w] = t THEN NoTask ELSE slot[w]
    BY <1>6 DEF DropTask
  <2>3. NoTask \notin ready
    BY NoTaskAssumption DEF QueueTypes
  <2>4. OnePlace'
    BY <2>2, <2>3 DEF FreshInv, OnePlace
  <2> QED
    BY <1>0, <2>1, <2>4, FreshKept DEF FreshInv, Runs
<1>7. CASE UNCHANGED vars
  BY <1>1, <1>7 DEF vars, callVars, actionVars
<1> QED
  BY <1>2, <1>3, <1>4, <1>5, <1>6, <1>7 DEF Next

\* FreshInv holds always.
LEMMA FreshAlways == ASSUME DistinctIds PROVE Spec => []FreshInv
<1>1. Init => FreshInv
  BY DEF Init, FreshInv, OnePlace, Queued
<1>2. TypeOK /\ PublishInv /\ PendingInv /\ AnswerInv /\ FreshInv /\ [Next]_vars
        => FreshInv'
  BY FreshNext
<1> QED
  BY <1>1, <1>2, RPCTypeCorrect, PublishAlways, PendingAlways, AnswerAlways, PTL
     DEF Spec

-----------------------------------------------------------------------------
(* A request in the slot of a worker is one that the worker waits for.     *)

\* A message goes to the queue or to the slot of the worker that sends it by
\* the default broker; no other slot changes.
LEMMA ProduceSlot ==
  ASSUME QueueTypes, NEW from \in Workers \cup {App}, NEW b, NEW t \in Tasks,
         Produce(from, b, t), NEW w \in Workers
  PROVE  slot'[w] = slot[w] \/ (w = from /\ b = "default" /\ slot'[w] = t)
BY ProgramAssumption DEF Produce, Spawn, queueVars, QueueTypes

\* A worker that takes a task changes no other worker's slot.
LEMMA TakesSlot ==
  ASSUME QueueTypes, NEW v \in Workers, NEW t, Takes(v, t), NEW w \in Workers
  PROVE  slot'[w] = slot[w] \/ (w = v /\ slot'[w] = NoTask)
BY DEF Takes, QueueTypes

\* A worker is stuck as long as its action and its slot are, and the call waits.
LEMMA StuckFrame ==
  ASSUME NEW w \in Workers, Stuck(w), slot'[w] = slot[w], running'[w] = running[w],
         pos'[running[w]] = pos[running[w]], via'[running[w]] = via[running[w]],
         pc'[Step(running[w])] = "wait"
  PROVE  Stuck(w)'
BY DEF Stuck, SelfWait, Step

\* What is known of a worker that is stuck: the call it waits for has no answer
\* and its action is beyond its beginning.
LEMMA StuckFacts ==
  ASSUME TypeOK, FreshInv, NEW w \in Workers, Stuck(w)
  PROVE  /\ running[w] \in Calls /\ Step(running[w]) \in Calls
         /\ pc[Step(running[w])] = "wait" /\ chan[Step(running[w])] = NoCall
         /\ slot[w] # NoTask /\ slot[w].kind = "req"
         /\ pos[running[w]] > 0 /\ w \in Holders
<1> USE TypeParts
<1>1. /\ running[w] \in Calls /\ Step(running[w]) \in Calls
      /\ pc[Step(running[w])] = "wait"
      /\ slot[w] # NoTask /\ slot[w].kind = "req" /\ slot[w].call = Step(running[w])
      /\ via[running[w]] = "default"
  BY DEF Stuck, SelfWait
<1>2. slot[w] \in Queued
  BY <1>1 DEF Queued
<1>3. chan[Step(running[w])] = NoCall
  BY <1>1, <1>2 DEF FreshInv, Fresh
<1>4. pos[running[w]] > 0
  <2>1. pos[running[w]] \in 1 .. Len(Program[running[w]]) /\ pos[running[w]] \in Nat
    BY <1>1, StepTypes, ProgramAssumption DEF ActionTypes
  <2> QED
    BY <2>1
<1> QED
  BY <1>1, <1>3, <1>4 DEF Holders

\* send() neither frees a worker that is stuck nor leaves a request in the slot
\* of one that is not.
LEMMA StuckSend ==
  ASSUME DistinctIds, TypeOK, PublishInv, PendingInv, AnswerInv, FreshInv, SlotInv,
         NEW from \in Workers \cup {App}, NEW c \in Calls, Send(from, c),
         NEW w \in Workers
  PROVE  /\ Stuck(w) => Stuck(w)'
         /\ slot'[w] # NoTask /\ slot'[w].kind = "req" => Stuck(w)'
<1> USE TypeParts
<1>0. ~ SendPanic(from, c)
  BY AnswerSend
<1>1. slot[w] # NoTask /\ slot[w].kind = "req" => Stuck(w)
  BY DEF SlotInv
<1>2. CASE SendInsert(from, c)
  <2>1. UNCHANGED <<slot, running, pos, via>>
        /\ pc' = [pc EXCEPT ![c] = "publish"] /\ pc[c] = "idle"
    BY <1>2 DEF SendInsert, queueVars, actionVars
  <2> QED
    BY <1>1, <2>1, StuckFacts, StuckFrame DEF CallTypes
<1>3. CASE SendPublish(from, c)
  <2> DEFINE b == IF from = App THEN cb_producer ELSE via[running[from]]
             t == [kind |-> "req", call |-> c, part |-> 0]
  <2>1. t \in Tasks /\ t.call = c /\ t.kind = "req" /\ Produce(from, b, t)
    BY <1>3 DEF SendPublish, Tasks, Kinds
  <2>2. UNCHANGED <<running, pos, via>>
        /\ pc' = [pc EXCEPT ![c] = "wait"] /\ pc[c] = "publish"
    BY <1>3 DEF SendPublish, actionVars
  <2>3. slot'[w] = slot[w] \/ (w = from /\ b = "default" /\ slot'[w] = t)
    BY <2>1, ProduceSlot
  <2>4. w = from =>
          running[w] \in Calls /\ Step(running[w]) = c /\ b = via[running[w]]
    BY <1>3, MakerTypes DEF SendPublish
  <2> HIDE DEF b, t
  <2>5. Stuck(w) => w # from
    BY <2>2, <2>4, StuckFacts
  <2>6. CASE slot'[w] = slot[w]
    BY <1>1, <2>2, <2>6, StuckFacts, StuckFrame DEF CallTypes
  <2>7. CASE w = from /\ b = "default" /\ slot'[w] = t
    <3>1. Step(running[w])' = c /\ running'[w] \in Calls /\ pc'[c] = "wait"
      BY <2>2, <2>4, <2>7 DEF Step, CallTypes
    <3>2. t # NoTask
      BY <2>1, NoTaskAssumption
    <3> QED
      BY <2>1, <2>2, <2>4, <2>7, <3>1, <3>2 DEF Stuck, SelfWait
  <2> QED
    BY <2>3, <2>6, <2>7
<1>4. CASE SendReceive(from, c)
  <2>1. UNCHANGED <<slot, running, via>> /\ Resume(from)
        /\ pc' = [pc EXCEPT ![c] = "returned"] /\ chan[c] # NoCall
    BY <1>4, ProgramAssumption DEF SendReceive, queueVars
  <2>2. from \in Workers => running[from] \in Calls /\ Step(running[from]) = c
    BY <1>4, MakerTypes DEF SendReceive
  <2>3. ASSUME Stuck(w) PROVE pos'[running[w]] = pos[running[w]]
    <3>1. Step(running[w]) # c
      BY <2>1, <2>3, StuckFacts
    <3> QED
      BY <2>1, <2>2, <3>1 DEF Resume, ActionTypes
  <2> QED
    BY <1>1, <2>1, <2>3, StuckFacts, StuckFrame DEF CallTypes
<1> QED
  BY <1>0, <1>2, <1>3, <1>4 DEF Send

\* Nor do the steps of the workers.
LEMMA StuckWorker ==
  ASSUME TypeOK, FreshInv, SlotInv, NEW v \in Workers, TakeTask(v) \/ Act(v),
         NEW w \in Workers
  PROVE  /\ Stuck(w) => Stuck(w)'
         /\ slot'[w] # NoTask /\ slot'[w].kind = "req" => Stuck(w)'
<1> USE TypeParts
<1>0. slot[w] # NoTask /\ slot[w].kind = "req" => Stuck(w)
  BY DEF SlotInv
<1>1. ASSUME NEW t \in Queued, TakeRequest(v, t) \/ RunResponse(v, t)
      PROVE  /\ Stuck(w) => Stuck(w)'
             /\ slot'[w] # NoTask /\ slot'[w].kind = "req" => Stuck(w)'
  <2>1. /\ UNCHANGED <<pos, via, pc>> /\ running[v] = NoCall /\ Takes(v, t)
        /\ running' = running \/ running' = [running EXCEPT ![v] = t.call]
    BY <1>1 DEF TakeRequest, RunResponse, callVars, actionVars, Idle
  <2>2. slot'[w] = slot[w] \/ (w = v /\ slot'[w] = NoTask)
    BY <2>1, TakesSlot
  <2>3. Stuck(w) => w # v
    BY <2>1, StuckFacts, ProgramAssumption
  <2> QED
    BY <1>0, <2>1, <2>2, <2>3, StuckFacts, StuckFrame DEF ActionTypes
<1>2. CASE StartAction(v)
  <2>1. /\ UNCHANGED <<slot, running, pc>> /\ pos[running[v]] = 0
        /\ \A p \in Calls : p # running[v] => pos'[p] = pos[p] /\ via'[p] = via[p]
    BY <1>2 DEF StartAction, Starting, queueVars, callVars, ActionTypes
  <2>2. Stuck(w) => running[w] # running[v]
    BY <2>1, StuckFacts
  <2> QED
    BY <1>0, <2>1, <2>2, StuckFacts, StuckFrame
<1>3. CASE ActionPush(v)
  <2> DEFINE c == running[v]
             t == [kind |-> "res", call |-> c, part |-> pos[c]]
  <2>1. c \in Calls /\ t \in Tasks
    BY <1>3 DEF ActionPush, Idle, ActionTypes, Tasks, Kinds
  <2>2. Produce(v, via[c], t) /\ t.kind = "res"
    BY <1>3 DEF ActionPush
  <2>3. Step(c) = Push /\ pos' = [pos EXCEPT ![c] = @ + 1]
        /\ UNCHANGED <<running, via, pc>>
    BY <1>3 DEF ActionPush, callVars
  <2> HIDE DEF t, c
  <2>4. slot'[w] = slot[w] \/ (w = v /\ slot'[w].kind = "res")
    BY <2>1, <2>2, ProduceSlot
  <2>5. Stuck(w) => running[w] # c
    BY <2>3, StuckFacts, ProgramAssumption
  <2> QED
    BY <1>0, <2>3, <2>4, <2>5, StuckFacts, StuckFrame DEF ActionTypes, c
<1>4. CASE ActionEnd(v)
  <2>1. UNCHANGED <<slot, pos, via, pc>> /\ running' = [running EXCEPT ![v] = NoCall]
        /\ running[v] # NoCall /\ pos[running[v]] > Len(Program[running[v]])
    BY <1>4 DEF ActionEnd, Leave, queueVars, callVars, Idle
  <2>2. Step(running[v]) = NoCall
    <3>1. running[v] \in Calls
      BY <2>1 DEF ActionTypes
    <3>2. pos[running[v]] \in Nat /\ Len(Program[running[v]]) \in Nat
      BY <3>1, ProgramAssumption DEF ActionTypes
    <3> QED
      BY <2>1, <3>2 DEF Step
  <2>3. Stuck(w) => w # v
    BY <2>2, StuckFacts, ProgramAssumption
  <2> QED
    BY <1>0, <2>1, <2>3, StuckFacts, StuckFrame DEF ActionTypes
<1> QED
  BY <1>1, <1>2, <1>3, <1>4 DEF TakeTask, Act

\* Nor does any other step; a runtime that is down has no worker that is stuck.
LEMMA StuckNext ==
  ASSUME DistinctIds, TypeOK, PublishInv, PendingInv, AnswerInv, FreshInv, SlotInv,
         [Next]_vars, NEW w \in Workers
  PROVE  /\ Stuck(w) => Stuck(w)'
         /\ slot'[w] # NoTask /\ slot'[w].kind = "req" => Stuck(w)'
<1>0. slot[w] # NoTask /\ slot[w].kind = "req" => Stuck(w)
  BY DEF SlotInv
<1>1. ASSUME UNCHANGED <<slot, running, pos, via, pc>>
      PROVE  /\ Stuck(w) => Stuck(w)'
             /\ slot'[w] # NoTask /\ slot'[w].kind = "req" => Stuck(w)'
  BY <1>0, <1>1 DEF Stuck, SelfWait, Step
<1>2. ASSUME NEW t \in Topics, OnRequests(t) \/ OnResponses(t)
      PROVE  UNCHANGED <<slot, running, pos, via, pc>>
  BY <1>2 DEF OnRequests, OnResponses, Register, queueVars, callVars, actionVars
<1>3. ASSUME SetConsumer \/ SetProducer \/ SetProducerReturn
      PROVE  UNCHANGED <<slot, running, pos, via, pc>>
  BY <1>3 DEF SetConsumer, SetProducer, SetProducerReturn, queueVars, callVars,
              actionVars
<1>4. ASSUME NEW t \in Queued, DropTask(t)
      PROVE  ~ Stuck(w) /\ (slot'[w] = slot[w] \/ slot'[w] = NoTask)
  <2>1. runtime = "down" /\ (slot'[w] = slot[w] \/ slot'[w] = NoTask)
    BY <1>4 DEF DropTask
  <2> QED
    BY <2>1, StuckFacts DEF SlotInv
<1>5. UNCHANGED vars => UNCHANGED <<slot, running, pos, via, pc>>
  BY DEF vars, queueVars, callVars, actionVars
<1> QED
  BY <1>0, <1>1, <1>2, <1>3, <1>4, <1>5, StuckSend, StuckWorker DEF Next

\* The default producer is dropped when no action has a clone of it.
LEMMA HoldersNext ==
  ASSUME DistinctIds, TypeOK, PublishInv, PendingInv, AnswerInv, FreshInv, SlotInv,
         [Next]_vars, runtime' = "down"
  PROVE  cb_producer' = "other" /\ Holders' = {}
<1> USE TypeParts
<1>0. runtime = "down" => cb_producer = "other" /\ Holders = {}
  BY DEF SlotInv
<1>1. ASSUME UNCHANGED <<runtime, cb_producer, actionVars>>
      PROVE  cb_producer' = "other" /\ Holders' = {}
  BY <1>0, <1>1 DEF actionVars, Holders
<1>2. ASSUME UNCHANGED <<runtime, cb_producer>>, Holders' \subseteq Holders
      PROVE  cb_producer' = "other" /\ Holders' = {}
  BY <1>0, <1>2
<1>3. ASSUME NEW t \in Topics, OnRequests(t) \/ OnResponses(t)
      PROVE  cb_producer' = "other" /\ Holders' = {}
  BY <1>1, <1>3 DEF OnRequests, OnResponses, Register, brokerVars
<1>4. CASE SetConsumer \/ SetProducerReturn
  BY <1>1, <1>4 DEF SetConsumer, SetProducerReturn
<1>5. CASE SetProducer
  BY <1>0, <1>5 DEF SetProducer, actionVars, Holders
<1>6. ASSUME NEW from \in Workers \cup {App}, NEW c \in Calls, Send(from, c)
      PROVE  cb_producer' = "other" /\ Holders' = {}
  <2>1. ~ SendPanic(from, c)
    BY <1>6, AnswerSend
  <2>2. CASE SendInsert(from, c) \/ SendPublish(from, c)
    BY <1>1, <2>2 DEF SendInsert, SendPublish, brokerVars
  <2>3. CASE SendReceive(from, c)
    <3>1. UNCHANGED <<runtime, cb_producer, running, via>> /\ Resume(from)
      BY <2>3 DEF SendReceive, brokerVars
    <3>2. from \in Workers => running[from] \in Calls /\ pos[running[from]] > 0
      <4>1. SUFFICES ASSUME from \in Workers
                     PROVE  running[from] \in Calls /\ pos[running[from]] > 0
        OBVIOUS
      <4>2. running[from] \in Calls /\ Step(running[from]) = c /\ c # NoCall
        BY <2>3, <4>1, MakerTypes, ProgramAssumption DEF SendReceive
      <4>3. pos[running[from]] \in 1 .. Len(Program[running[from]])
            /\ pos[running[from]] \in Nat
        BY <4>2, StepTypes DEF ActionTypes
      <4> QED
        BY <4>2, <4>3
    <3>3. \A p \in Calls : pos'[p] > 0 => pos[p] > 0
      BY <3>1, <3>2 DEF Resume, ActionTypes
    <3>4. Holders' \subseteq Holders
      BY <3>1, <3>3 DEF Holders
    <3> QED
      BY <1>2, <3>1, <3>4
  <2> QED
    BY <1>6, <2>1, <2>2, <2>3 DEF Send
<1>7. ASSUME NEW w \in Workers, NEW t \in Queued, TakeRequest(w, t)
      PROVE  cb_producer' = "other" /\ Holders' = {}
  <2>1. UNCHANGED <<runtime, cb_producer, pos, via>> /\ t.call \in Calls
        /\ running' = [running EXCEPT ![w] = t.call] /\ pos[t.call] = 0
    BY <1>7, QueuedTypes DEF TakeRequest, brokerVars, Tasks, FreshInv, Fresh
  <2>2. Holders' \subseteq Holders
    BY <2>1 DEF Holders, ActionTypes
  <2> QED
    BY <1>2, <2>1, <2>2
<1>8. ASSUME NEW w \in Workers, NEW t \in Queued, RunResponse(w, t)
      PROVE  cb_producer' = "other" /\ Holders' = {}
  BY <1>1, <1>8 DEF RunResponse, brokerVars
<1>9. ASSUME NEW w \in Workers, StartAction(w)
      PROVE  cb_producer' = "other" /\ Holders' = {}
  <2>1. UNCHANGED <<runtime, cb_producer, running>> /\ running[w] \in Calls
        /\ pos' = [pos EXCEPT ![running[w]] = 1]
        /\ via' = [via EXCEPT ![running[w]] = cb_producer]
    BY <1>9 DEF StartAction, Starting, brokerVars
  <2>2. cb_producer = "other"
    BY <1>0, <2>1
  <2>3. Holders' \subseteq Holders
    BY <2>1, <2>2 DEF Holders, ActionTypes
  <2> QED
    BY <1>2, <2>1, <2>3
<1>10. ASSUME NEW w \in Workers, ActionPush(w)
       PROVE  cb_producer' = "other" /\ Holders' = {}
  <2>1. UNCHANGED <<runtime, cb_producer, running, via>> /\ running[w] \in Calls
        /\ pos' = [pos EXCEPT ![running[w]] = @ + 1] /\ Step(running[w]) = Push
    BY <1>10 DEF ActionPush, brokerVars, Idle, ActionTypes
  <2>2. pos[running[w]] > 0
    <3>1. pos[running[w]] \in 1 .. Len(Program[running[w]]) /\ pos[running[w]] \in Nat
      BY <2>1, StepTypes, ProgramAssumption DEF ActionTypes
    <3> QED
      BY <3>1
  <2>3. Holders' \subseteq Holders
    BY <2>1, <2>2 DEF Holders, ActionTypes
  <2> QED
    BY <1>2, <2>1, <2>3
<1>11. ASSUME NEW w \in Workers, ActionEnd(w)
       PROVE  cb_producer' = "other" /\ Holders' = {}
  <2>1. UNCHANGED <<cb_producer, pos, via>>
        /\ running' = [running EXCEPT ![w] = NoCall]
        /\ runtime' = IF cb_producer = "other" /\ Holders = {w} THEN "down"
                      ELSE runtime
    BY <1>11 DEF ActionEnd, Leave
  <2>2. Holders' \subseteq Holders \ {w}
    BY <2>1, ProgramAssumption DEF Holders, ActionTypes
  <2> QED
    BY <1>0, <2>1, <2>2
<1>12. ASSUME NEW t \in Queued, DropTask(t)
       PROVE  cb_producer' = "other" /\ Holders' = {}
  BY <1>1, <1>12 DEF DropTask, brokerVars
<1>13. CASE UNCHANGED vars
  BY <1>1, <1>13 DEF vars, brokerVars
<1> QED
  BY <1>3, <1>4, <1>5, <1>6, <1>7, <1>8, <1>9, <1>10, <1>11, <1>12, <1>13
     DEF Next, TakeTask, Act

\* SlotInv holds always.
LEMMA SlotAlways == ASSUME DistinctIds PROVE Spec => []SlotInv
<1>1. Init => SlotInv
  BY DEF Init, SlotInv
<1>2. TypeOK /\ PublishInv /\ PendingInv /\ AnswerInv /\ FreshInv /\ SlotInv
        /\ [Next]_vars => SlotInv'
  BY StuckNext, HoldersNext DEF SlotInv
<1> QED
  BY <1>1, <1>2, RPCTypeCorrect, PublishAlways, PendingAlways, AnswerAlways,
     FreshAlways, PTL DEF Spec

\* A worker whose action waits, in a nested send(), for a request that sits in
\* the worker's own slot waits forever: no other worker takes the request, no
\* response of another call wakes it, and not even set_producer() ends it, for
\* the runtime lives as long as the action's stream does.
THEOREM OwnSlotIsForever ==
  ASSUME DistinctIds PROVE Spec => SelfWaitIsForever
<1>1. TypeOK /\ PublishInv /\ PendingInv /\ AnswerInv /\ FreshInv /\ SlotInv
        /\ [Next]_vars => [\A w \in Workers : SelfWait(w) => SelfWait(w)']_vars
  <2> SUFFICES ASSUME TypeOK, PublishInv, PendingInv, AnswerInv, FreshInv, SlotInv,
                      [Next]_vars, NEW w \in Workers, SelfWait(w)
               PROVE  SelfWait(w)'
    OBVIOUS
  <2>1. Stuck(w)
    BY DEF SelfWait, SlotInv
  <2> QED
    BY <2>1, StuckNext DEF Stuck
<1> QED
  BY <1>1, RPCTypeCorrect, PublishAlways, PendingAlways, AnswerAlways, FreshAlways,
     SlotAlways, PTL DEF Spec, SelfWaitIsForever

-----------------------------------------------------------------------------
(* A covered request is answered.                                          *)

\* Without set_producer(), all messages go on going to the default broker.
LEMMA OnlyDefaultNext ==
  ASSUME "producer" \notin Switches, TypeOK, OnlyDefault, [Next]_vars
  PROVE  OnlyDefault'
<1> USE TypeParts DEF OnlyDefault
<1>1. ASSUME NEW t \in Topics, OnRequests(t) \/ OnResponses(t) PROVE OnlyDefault'
  BY <1>1 DEF OnRequests, OnResponses, Register, brokerVars, actionVars
<1>2. CASE SetConsumer \/ SetProducer \/ SetProducerReturn
  BY <1>2 DEF SetConsumer, SetProducer, SetProducerReturn, actionVars
<1>3. ASSUME NEW from \in Workers \cup {App}, NEW c \in Calls, Send(from, c)
      PROVE  OnlyDefault'
  BY <1>3 DEF Send, SendInsert, SendPublish, SendReceive, SendPanic, Leave,
              brokerVars, actionVars
<1>4. ASSUME NEW w \in Workers, TakeTask(w) PROVE OnlyDefault'
  BY <1>4 DEF TakeTask, TakeRequest, RunResponse, brokerVars, actionVars
<1>5. ASSUME NEW w \in Workers, Act(w) PROVE OnlyDefault'
  BY <1>5 DEF Act, StartAction, ActionPush, ActionEnd, Leave, brokerVars, ActionTypes
<1>6. ASSUME NEW t \in Queued, DropTask(t) PROVE OnlyDefault'
  BY <1>6 DEF DropTask
<1>7. CASE UNCHANGED vars
  BY <1>7 DEF vars, brokerVars, actionVars
<1> QED
  BY <1>1, <1>2, <1>3, <1>4, <1>5, <1>6, <1>7 DEF Next

\* A covered call stays one as long as its action does not go on.
LEMMA CoveredFrame ==
  ASSUME NEW c \in Calls, CoveredCall(c), consumers \subseteq consumers',
         responded \subseteq responded', pos'[c] = pos[c], c \in lost' => c \in lost
  PROVE  CoveredCall(c)'
BY DEF CoveredCall, Pushes

\* A call that is published when on() for its topic is over has both consumers.
LEMMA CoveredPublish ==
  ASSUME TypeOK, TopicIsWhole, PublishInv, CoveredInv,
         NEW from \in Workers \cup {App}, NEW c \in Calls, SendPublish(from, c),
         NEW d \in covered'
  PROVE  CoveredCall(d)'
<1> USE TypeParts
<1>1. (IF from = App THEN cb_producer ELSE via[running[from]]) = "default"
  BY MakerTypes DEF SendPublish, CoveredInv, OnlyDefault
<1>2. /\ covered' = IF <<"default", "res", TopicOf[c]>> \in consumers
                    THEN covered \cup {c} ELSE covered
      /\ lost' = IF <<"default", "req", TopicOf[c]>> \in consumers
                 THEN lost ELSE lost \cup {c}
      /\ UNCHANGED <<consumers, responded, pos>> /\ Unpublished(c)
  BY <1>1 DEF SendPublish, actionVars, Unpublished
<1>3. CASE d \in covered
  <2>1. d # c /\ d \in Calls /\ CoveredCall(d)
    BY <1>2, <1>3 DEF PublishInv, HistoryTypes, CoveredInv
  <2> QED
    BY <1>2, <2>1, CoveredFrame
<1>4. CASE d = c /\ <<"default", "res", TopicOf[c]>> \in consumers
  <2>1. TopicOf[c] \in Topics
    BY ProgramAssumption
  <2>2. <<"default", "req", TopicOf[c]>> \in consumers
    BY <1>4, <2>1 DEF TopicIsWhole, Brokers
  <2>3. c \notin lost /\ pos[c] = 0
    BY <1>2 DEF PublishInv, ActionTypes
  <2>4. \A k \in 1 .. Len(Program[c]) : ~ (0 > k)
    BY ProgramAssumption
  <2> QED
    BY <1>2, <1>4, <2>2, <2>3, <2>4 DEF CoveredCall
<1> QED
  BY <1>2, <1>3, <1>4

\* An action that goes on has published what it pushed; when it is over, it has
\* pushed all that it does.
LEMMA CoveredAct ==
  ASSUME TypeOK, CoveredInv, NEW w \in Workers, Act(w), NEW d \in covered'
  PROVE  CoveredCall(d)'
<1> USE TypeParts
<1>1. d \in covered /\ d \in Calls /\ CoveredCall(d)
  BY DEF Act, StartAction, ActionPush, ActionEnd, histVars, CoveredInv, HistoryTypes
<1>2. \A k \in 1 .. Len(Program[d]) : k \in Nat /\ k >= 1 /\ k <= Len(Program[d])
  BY <1>1, ProgramAssumption
<1>3. CASE StartAction(w)
  <2>1. /\ pos'[d] \in {pos[d], 1} /\ (pos'[d] # pos[d] => pos'[d] = 1)
        /\ UNCHANGED <<consumers, responded, lost>>
    BY <1>1, <1>3 DEF StartAction, ActionTypes, histVars
  <2>2. CASE pos'[d] = pos[d]
    BY <1>1, <2>1, <2>2, CoveredFrame
  <2>3. CASE pos'[d] = 1
    <3>1. \A k \in 1 .. Len(Program[d]) : ~ (pos'[d] > k)
      BY <1>2, <2>3
    <3> QED
      BY <1>1, <2>1, <3>1 DEF CoveredCall, Pushes
  <2> QED
    BY <2>1, <2>2, <2>3
<1>4. CASE ActionPush(w)
  <2>1. /\ responded' = IF <<via[running[w]], "res", TopicOf[running[w]]>> \in consumers
                        THEN responded \cup {running[w]} ELSE responded
        /\ pos' = [pos EXCEPT ![running[w]] = @ + 1] /\ running[w] \in Calls
        /\ UNCHANGED <<consumers, lost>>
    BY <1>4 DEF ActionPush, Idle, ActionTypes
  <2>2. CASE d = running[w]
    <3>1. d \in responded'
      BY <1>1, <2>1, <2>2 DEF CoveredInv, OnlyDefault, CoveredCall
    <3> QED
      BY <1>1, <2>1, <3>1 DEF CoveredCall, Pushes
  <2>3. CASE d # running[w]
    BY <1>1, <2>1, <2>3, CoveredFrame DEF ActionTypes
  <2> QED
    BY <2>2, <2>3
<1>5. CASE ActionEnd(w)
  <2>1. /\ lost' = lost \cup ({running[w]} \ responded)
        /\ pos[running[w]] > Len(Program[running[w]]) /\ running[w] \in Calls
        /\ UNCHANGED <<consumers, responded, pos>>
    BY <1>5 DEF ActionEnd, Idle, Unanswered, ActionTypes
  <2>2. CASE d = running[w] /\ Pushes(d)
    <3>1. PICK k \in 1 .. Len(Program[d]) : Program[d][k] = Push
      BY <2>2 DEF Pushes
    <3>2. pos[d] > k
      BY <1>1, <1>2, <2>1, <2>2, <3>1, ProgramAssumption DEF ActionTypes
    <3>3. d \in responded
      BY <1>1, <3>1, <3>2 DEF CoveredCall
    <3> QED
      BY <1>1, <2>1, <3>3, CoveredFrame
  <2>3. CASE d # running[w]
    BY <1>1, <2>1, <2>3, CoveredFrame
  <2>4. CASE ~ Pushes(d)
    BY <1>1, <2>1, <2>4 DEF CoveredCall, Pushes
  <2> QED
    BY <2>2, <2>3, <2>4
<1> QED
  BY <1>3, <1>4, <1>5 DEF Act

\* CoveredInv is inductive, given the invariants before.
LEMMA CoveredNext ==
  ASSUME DistinctIds, "producer" \notin Switches, TypeOK, TopicIsWhole, PublishInv, PendingInv,
         AnswerInv, CoveredInv, [Next]_vars
  PROVE  CoveredInv'
<1> USE TypeParts
<1>0. OnlyDefault'
  BY OnlyDefaultNext DEF CoveredInv
<1> SUFFICES ASSUME NEW d \in covered' PROVE CoveredCall(d)'
  BY <1>0 DEF CoveredInv
<1>1. ASSUME d \in covered, consumers \subseteq consumers',
             UNCHANGED <<responded, pos, lost>>
      PROVE  CoveredCall(d)'
  BY <1>1, CoveredFrame DEF CoveredInv, HistoryTypes
<1>2. ASSUME NEW t \in Topics, OnRequests(t) \/ OnResponses(t) PROVE CoveredCall(d)'
  BY <1>1, <1>2 DEF OnRequests, OnResponses, Register, actionVars, histVars
<1>3. CASE SetConsumer \/ SetProducer \/ SetProducerReturn
  BY <1>1, <1>3 DEF SetConsumer, SetProducer, SetProducerReturn, actionVars, histVars
<1>4. ASSUME NEW from \in Workers \cup {App}, NEW c \in Calls, Send(from, c)
      PROVE  CoveredCall(d)'
  <2>1. ~ SendPanic(from, c)
    BY <1>4, AnswerSend
  <2>2. CASE SendInsert(from, c)
    BY <1>1, <2>2 DEF SendInsert, actionVars, histVars
  <2>3. CASE SendPublish(from, c)
    BY <2>3, CoveredPublish
  <2>4. CASE SendReceive(from, c)
    <3>1. UNCHANGED <<consumers, responded, covered, lost>> /\ Resume(from)
      BY <2>4 DEF SendReceive, histVars
    <3>2. d \in Calls /\ CoveredCall(d)
      BY <3>1 DEF CoveredInv, HistoryTypes
    <3>3. CASE from = App
      BY <1>1, <3>1, <3>3, ProgramAssumption DEF Resume
    <3>4. CASE from \in Workers /\ running[from] \in Calls /\ running[from] # d
      BY <3>1, <3>2, <3>4, CoveredFrame DEF Resume, ActionTypes
    <3>5. CASE from \in Workers /\ running[from] = d /\ Step(d) = c
      <4>1. pos'[d] = pos[d] + 1 /\ pos[d] \in Nat
        BY <3>1, <3>2, <3>5 DEF Resume, ActionTypes
      <4>2. Program[d][pos[d]] # Push
        BY <3>2, <3>5, StepTypes, ProgramAssumption
      <4>3. \A k \in 1 .. Len(Program[d]) :
              Program[d][k] = Push /\ pos'[d] > k => pos[d] > k
        BY <3>2, <4>1, <4>2, ProgramAssumption
      <4> QED
        BY <3>1, <3>2, <4>3 DEF CoveredCall, Pushes
    <3> QED
      BY <2>4, <3>3, <3>4, <3>5, MakerTypes DEF SendReceive
  <2> QED
    BY <1>4, <2>1, <2>2, <2>3, <2>4 DEF Send
<1>5. ASSUME NEW w \in Workers, TakeTask(w) PROVE CoveredCall(d)'
  BY <1>1, <1>5 DEF TakeTask, TakeRequest, RunResponse, actionVars, histVars
<1>6. ASSUME NEW w \in Workers, Act(w) PROVE CoveredCall(d)'
  BY <1>6, CoveredAct
<1>7. ASSUME NEW t \in Queued, DropTask(t) PROVE CoveredCall(d)'
  BY <1>7 DEF DropTask, CoveredInv, OnlyDefault
<1>8. CASE UNCHANGED vars
  BY <1>1, <1>8 DEF vars, actionVars, histVars
<1> QED
  BY <1>2, <1>3, <1>4, <1>5, <1>6, <1>7, <1>8 DEF Next

\* A request that is sent when on() for its topic is over never loses its
\* response, if the action pushes one at all: whatever the action waits for in
\* between, and however many workers there are. It may still hang before that.
THEOREM CoveredRequestsKeepTheirAnswer ==
  ASSUME DistinctIds, "producer" \notin Switches PROVE Spec => []CoveredIsAnswered
<1>1. Init => CoveredInv
  BY DEF Init, CoveredInv, OnlyDefault
<1>2. TypeOK /\ TopicIsWhole /\ PublishInv /\ PendingInv /\ AnswerInv /\ CoveredInv
        /\ [Next]_vars => CoveredInv'
  BY CoveredNext
<1>3. CoveredInv => CoveredIsAnswered
  BY DEF CoveredInv, CoveredCall, CoveredIsAnswered
<1> QED
  BY <1>1, <1>2, <1>3, RPCTypeCorrect, TopicsAreWhole, PublishAlways, PendingAlways,
     AnswerAlways, PTL DEF Spec

-----------------------------------------------------------------------------
(* RPC implements RequestReply.                                            *)

\* The step k of the action of call c is done.
Done(c, k) == k \in 1 .. Len(Program[c]) /\ pos[c] > k

\* An action runs on one worker.
RunsOnce ==
  \A v, w \in Workers : running[v] = running[w] /\ running[v] \in Calls => v = w
\* There is a response of a call only if its action has pushed.
PushedFirst ==
  \A c \in Calls : chan[c] # NoCall \/ QueuedAs("res", c) => Pushed(c)
\* An action is past a call that it makes only when that call has returned.
CallsReturned ==
  \A c \in Calls, k \in Nat :
    Done(c, k) /\ Program[c][k] # Push => pc[Program[c][k]] = "returned"
StepInv == RunsOnce /\ PushedFirst /\ CallsReturned

\* StepInv is preserved if no action goes back, no call comes back, and whatever
\* is new was pushed, or returned from, before.
LEMMA StepKeeps ==
  ASSUME TypeOK, StepInv, RunsOnce',
         \A c \in Calls : pos'[c] \in Nat /\ pos'[c] >= pos[c],
         \A c \in Calls : pc[c] = "returned" => pc'[c] = "returned",
         \A c \in Calls : chan'[c] # NoCall \/ QueuedAs("res", c)' =>
           chan[c] # NoCall \/ QueuedAs("res", c) \/ Pushed(c)',
         \A c \in Calls, k \in Nat :
           Done(c, k)' /\ ~ Done(c, k) /\ Program[c][k] # Push =>
             pc'[Program[c][k]] = "returned"
  PROVE  StepInv'
<1> USE TypeParts
<1>1. \A c \in Calls : Pushed(c) => Pushed(c)'
  <2> SUFFICES ASSUME NEW c \in Calls, Pushed(c) PROVE Pushed(c)'
    OBVIOUS
  <2>1. PICK k \in 1 .. Len(Program[c]) : pos[c] > k /\ Program[c][k] = Push
    BY DEF Pushed
  <2>2. k \in Nat
    BY ProgramAssumption
  <2>3. pos'[c] > k
    BY <2>1, <2>2 DEF ActionTypes
  <2> QED
    BY <2>1, <2>3 DEF Pushed
<1>2. PushedFirst'
  BY <1>1 DEF StepInv, PushedFirst
<1>3. CallsReturned'
  <2> SUFFICES ASSUME NEW c \in Calls, NEW k \in Nat, Done(c, k)', Program[c][k] # Push
               PROVE  pc'[Program[c][k]] = "returned"
    BY DEF CallsReturned
  <2>1. CASE Done(c, k)
    <3>1. Program[c][k] \in Calls
      BY <2>1, ProgramAssumption DEF Done
    <3> QED
      BY <2>1, <3>1 DEF StepInv, CallsReturned
  <2>2. CASE ~ Done(c, k)
    BY <2>2
  <2> QED
    BY <2>1, <2>2
<1> QED
  BY <1>2, <1>3 DEF StepInv

\* A step of no action, which adds no response.
LEMMA StepFrame ==
  ASSUME TypeOK, StepInv, UNCHANGED <<pos, chan>>,
         \A w \in Workers : running'[w] \in {running[w], NoCall},
         \A t \in Queued' : t.kind = "res" => t \in Queued,
         \A c \in Calls : pc[c] = "returned" => pc'[c] = "returned"
  PROVE  StepInv'
<1> USE TypeParts
<1>1. RunsOnce'
  BY ProgramAssumption DEF StepInv, RunsOnce
<1>2. \A c \in Calls : QueuedAs("res", c)' => QueuedAs("res", c)
  BY DEF QueuedAs
<1>3. \A c \in Calls : pos'[c] \in Nat /\ pos'[c] >= pos[c]
  BY DEF ActionTypes
<1>4. \A c \in Calls, k \in Nat : Done(c, k)' => Done(c, k)
  BY DEF Done
<1> QED
  BY <1>1, <1>2, <1>3, <1>4, StepKeeps

\* The steps of send() preserve StepInv.
LEMMA StepSend ==
  ASSUME DistinctIds, TypeOK, PendingInv, AnswerInv, StepInv,
         NEW from \in Workers \cup {App}, NEW c \in Calls, Send(from, c)
  PROVE  StepInv'
<1> USE TypeParts
<1>0. UNCHANGED chan /\ ~ SendPanic(from, c)
  BY AnswerSend
<1>1. CASE SendInsert(from, c)
  <2>1. UNCHANGED <<Queued, pos, running>> /\ pc[c] = "idle"
        /\ pc' = [pc EXCEPT ![c] = "publish"]
    BY <1>1, QueuedFrame DEF SendInsert, actionVars
  <2>2. \A d \in Calls : pc[d] = "returned" => pc'[d] = "returned"
    BY <2>1 DEF CallTypes
  <2> QED
    BY <1>0, <2>1, <2>2, StepFrame
<1>2. CASE SendPublish(from, c)
  <2> DEFINE b == IF from = App THEN cb_producer ELSE via[running[from]]
             t == [kind |-> "req", call |-> c, part |-> 0]
  <2>1. b \in Brokers /\ t \in Tasks
    BY <1>2, MakerTypes DEF SendPublish, BrokerTypes, ActionTypes, Tasks, Kinds
  <2>2. Produce(from, b, t) /\ t.kind = "req"
    BY <1>2 DEF SendPublish
  <2> HIDE DEF t, b
  <2>3. Queued' \subseteq Queued \cup {t}
    BY <2>1, <2>2, ProduceQueues
  <2>4. UNCHANGED <<pos, running>> /\ pc[c] = "publish"
        /\ pc' = [pc EXCEPT ![c] = "wait"]
    BY <1>2 DEF SendPublish, actionVars
  <2>5. \A d \in Calls : pc[d] = "returned" => pc'[d] = "returned"
    BY <2>4 DEF CallTypes
  <2>6. \A u \in Queued' : u.kind = "res" => u \in Queued
    BY <2>2, <2>3
  <2> QED
    BY <1>0, <2>4, <2>5, <2>6, StepFrame
<1>3. CASE SendReceive(from, c)
  <2>1. UNCHANGED <<Queued, running>> /\ pc' = [pc EXCEPT ![c] = "returned"]
        /\ Makes(from, c) /\ Resume(from)
    BY <1>3, QueuedFrame DEF SendReceive
  <2>2. \A d \in Calls : pc[d] = "returned" => pc'[d] = "returned"
    BY <2>1 DEF CallTypes
  <2>3. CASE from = App /\ from \notin Workers
    BY <1>0, <2>1, <2>2, <2>3, StepFrame DEF Resume
  <2>4. CASE from \in Workers /\ running[from] \in Calls /\ Step(running[from]) = c
    <3>1. PICK p \in Calls : p = running[from] /\ Step(p) = c
      BY <2>4
    <3>2. pos' = [pos EXCEPT ![p] = @ + 1] /\ c = Program[p][pos[p]]
      BY <2>1, <2>4, <3>1, StepTypes, ProgramAssumption DEF Resume
    <3>3. \A d \in Calls : pos'[d] \in Nat /\ pos'[d] >= pos[d]
      BY <3>2 DEF ActionTypes
    <3>4. ASSUME NEW d \in Calls, NEW k \in Nat, Done(d, k)', ~ Done(d, k)
          PROVE  pc'[Program[d][k]] = "returned"
      <4>1. d = p /\ k = pos[p]
        BY <3>2, <3>4 DEF Done, ActionTypes
      <4> QED
        BY <2>1, <3>2, <4>1 DEF CallTypes
    <3>5. RunsOnce'
      BY <2>1 DEF StepInv, RunsOnce
    <3>6. \A d \in Calls : QueuedAs("res", d)' => QueuedAs("res", d)
      BY <2>1 DEF QueuedAs
    <3> QED
      BY <1>0, <2>2, <3>3, <3>4, <3>5, <3>6, StepKeeps
  <2> QED
    BY <2>1, <2>3, <2>4, MakerTypes
<1> QED
  BY <1>0, <1>1, <1>2, <1>3 DEF Send

\* The steps of the workers preserve StepInv.
LEMMA StepWorker ==
  ASSUME TypeOK, PublishInv, PendingInv, AnswerInv, FreshInv, StepInv,
         NEW w \in Workers, TakeTask(w) \/ Act(w)
  PROVE  StepInv'
<1> USE TypeParts
<1>1. ASSUME NEW t \in Queued, TakeRequest(w, t) PROVE StepInv'
  <2>1. t.kind = "req" /\ UNCHANGED <<chan, pos, pc>> /\ Queued' \subseteq Queued
        /\ running' = [running EXCEPT ![w] = t.call]
    BY <1>1, TakesOne DEF TakeRequest, callVars
  <2>2. ~ Runs(t.call)
    BY <2>1 DEF FreshInv, Fresh
  <2>3. RunsOnce'
    BY <2>1, <2>2 DEF StepInv, RunsOnce, Runs, ActionTypes
  <2>4. \A c \in Calls : QueuedAs("res", c)' => QueuedAs("res", c)
    BY <2>1 DEF QueuedAs
  <2>5. \A c \in Calls : pos'[c] \in Nat /\ pos'[c] >= pos[c]
    BY <2>1 DEF ActionTypes
  <2>6. \A c \in Calls, k \in Nat : Done(c, k)' => Done(c, k)
    BY <2>1 DEF Done
  <2> QED
    BY <2>1, <2>3, <2>4, <2>5, <2>6, StepKeeps
<1>2. ASSUME NEW t \in Queued, RunResponse(w, t) PROVE StepInv'
  <2>1. t.kind = "res" /\ UNCHANGED <<pos, running, pc>> /\ Queued' \subseteq Queued
    BY <1>2, TakesOne DEF RunResponse, actionVars
  <2>2. t.call \in Calls /\ \A d \in Calls : d # t.call => chan'[d] = chan[d]
    BY <1>2, AnswerResponse
  <2>3. QueuedAs("res", t.call)
    BY <2>1 DEF QueuedAs
  <2>4. \A c \in Calls : QueuedAs("res", c)' => QueuedAs("res", c)
    BY <2>1 DEF QueuedAs
  <2>5. RunsOnce'
    BY <2>1 DEF StepInv, RunsOnce
  <2>6. \A c \in Calls : pos'[c] \in Nat /\ pos'[c] >= pos[c]
    BY <2>1 DEF ActionTypes
  <2>7. \A c \in Calls, k \in Nat : Done(c, k)' => Done(c, k)
    BY <2>1 DEF Done
  <2>8. \A c \in Calls : chan'[c] # NoCall \/ QueuedAs("res", c)' =>
          chan[c] # NoCall \/ QueuedAs("res", c)
    BY <2>2, <2>3, <2>4
  <2> QED
    BY <2>1, <2>5, <2>6, <2>7, <2>8, StepKeeps
<1>3. CASE StartAction(w)
  <2>1. PICK p \in Calls : p = running[w] /\ pos[p] = 0
    BY <1>3 DEF StartAction, Starting
  <2>2. pos' = [pos EXCEPT ![p] = 1] /\ UNCHANGED <<Queued, chan, pc, running>>
    BY <1>3, <2>1, QueuedFrame DEF StartAction, callVars
  <2>3. \A c \in Calls : pos'[c] \in Nat /\ pos'[c] >= pos[c]
    BY <2>1, <2>2 DEF ActionTypes
  <2>4. \A c \in Calls, k \in Nat : Done(c, k)' => Done(c, k)
    BY <2>1, <2>2 DEF Done, ActionTypes
  <2>5. RunsOnce'
    BY <2>2 DEF StepInv, RunsOnce
  <2>6. \A c \in Calls : QueuedAs("res", c)' => QueuedAs("res", c)
    BY <2>2 DEF QueuedAs
  <2> QED
    BY <2>2, <2>3, <2>4, <2>5, <2>6, StepKeeps
<1>4. CASE ActionPush(w)
  <2>1. PICK p \in Calls : p = running[w] /\ Step(p) = Push
    BY <1>4 DEF ActionPush, Idle, ActionTypes
  <2>2. PICK t : t = [kind |-> "res", call |-> p, part |-> pos[p]]
    OBVIOUS
  <2>3. t \in Tasks /\ t.call = p /\ via[p] \in Brokers
    BY <2>1, <2>2 DEF ActionTypes, Tasks, Kinds
  <2>4. /\ Produce(w, via[p], t) /\ pos' = [pos EXCEPT ![p] = @ + 1]
        /\ UNCHANGED <<chan, pc, running>>
    BY <1>4, <2>1, <2>2 DEF ActionPush, callVars
  <2>5. Queued' \subseteq Queued \cup {t}
    BY <2>3, <2>4, ProduceQueues
  <2>6. pos[p] \in 1 .. Len(Program[p]) /\ Program[p][pos[p]] = Push
    BY <2>1, StepTypes, ProgramAssumption
  <2>7. Pushed(p)'
    BY <2>4, <2>6 DEF Pushed, ActionTypes
  <2>8. \A c \in Calls : QueuedAs("res", c)' => QueuedAs("res", c) \/ Pushed(c)'
    BY <2>3, <2>5, <2>7 DEF QueuedAs
  <2>9. \A c \in Calls : pos'[c] \in Nat /\ pos'[c] >= pos[c]
    BY <2>4 DEF ActionTypes
  <2>10. \A c \in Calls, k \in Nat :
           Done(c, k)' /\ ~ Done(c, k) => Program[c][k] = Push
    BY <2>4, <2>6 DEF Done, ActionTypes
  <2>11. RunsOnce'
    BY <2>4 DEF StepInv, RunsOnce
  <2> QED
    BY <2>4, <2>8, <2>9, <2>10, <2>11, StepKeeps
<1>5. CASE ActionEnd(w)
  <2>1. UNCHANGED <<Queued, chan, pos, pc>> /\ running' = [running EXCEPT ![w] = NoCall]
    BY <1>5, QueuedFrame DEF ActionEnd, Leave, callVars
  <2> QED
    BY <2>1, StepFrame DEF ActionTypes
<1> QED
  BY <1>1, <1>2, <1>3, <1>4, <1>5 DEF TakeTask, Act

\* StepInv is inductive, given the invariants before.
LEMMA StepNext ==
  ASSUME DistinctIds, TypeOK, PublishInv, PendingInv, AnswerInv, FreshInv, StepInv,
         [Next]_vars
  PROVE  StepInv'
<1> USE TypeParts
<1>1. ASSUME UNCHANGED <<queueVars, chan, pc, running, pos>> PROVE StepInv'
  BY <1>1, QueuedFrame, StepFrame
<1>2. ASSUME NEW t \in Topics, OnRequests(t) \/ OnResponses(t) PROVE StepInv'
  BY <1>1, <1>2 DEF OnRequests, OnResponses, Register, callVars, actionVars
<1>3. CASE SetConsumer \/ SetProducer \/ SetProducerReturn
  BY <1>1, <1>3 DEF SetConsumer, SetProducer, SetProducerReturn, callVars, actionVars
<1>4. ASSUME NEW from \in Workers \cup {App}, NEW c \in Calls, Send(from, c)
      PROVE  StepInv'
  BY <1>4, StepSend
<1>5. ASSUME NEW w \in Workers, TakeTask(w) \/ Act(w) PROVE StepInv'
  BY <1>5, StepWorker
<1>6. ASSUME NEW t \in Queued, DropTask(t) PROVE StepInv'
  <2>1. UNCHANGED <<chan, running, pos, pc>> /\ Queued' \subseteq Queued
    BY <1>6, DropsOne DEF DropTask, callVars, actionVars
  <2> QED
    BY <2>1, StepFrame
<1>7. CASE UNCHANGED vars
  BY <1>1, <1>7 DEF vars, callVars, actionVars
<1> QED
  BY <1>2, <1>3, <1>4, <1>5, <1>6, <1>7 DEF Next

\* StepInv holds always.
LEMMA StepAlways == ASSUME DistinctIds PROVE Spec => []StepInv
<1>1. Init => StepInv
  <2> SUFFICES ASSUME Init PROVE StepInv
    OBVIOUS
  <2>1. RunsOnce /\ PushedFirst
    BY ProgramAssumption DEF Init, RunsOnce, PushedFirst, QueuedAs, Queued
  <2>2. CallsReturned
    BY DEF Init, CallsReturned, Done
  <2> QED
    BY <2>1, <2>2 DEF StepInv
<1>2. TypeOK /\ PublishInv /\ PendingInv /\ AnswerInv /\ FreshInv /\ StepInv
        /\ [Next]_vars => StepInv'
  BY StepNext
<1> QED
  BY <1>1, <1>2, RPCTypeCorrect, PublishAlways, PendingAlways, AnswerAlways,
     FreshAlways, PTL DEF Spec

\* The initial states of RPC are initial states of RequestReply.
LEMMA PromiseInit == Init => Promise!Init
<1> SUFFICES ASSUME Init PROVE Promise!Init
  OBVIOUS
<1>1. ASSUME NEW c \in Calls
      PROVE  pc[c] = "idle" /\ pos[c] = 0 /\ ~ Runs(c) /\ ~ Pushed(c)
  <2>1. pc[c] = "idle" /\ pos[c] = 0
    BY DEF Init
  <2>2. ~ Runs(c)
    BY ProgramAssumption DEF Init, Runs
  <2>3. Len(Program[c]) \in Nat
    BY ProgramAssumption
  <2>4. ~ Pushed(c)
    BY <2>1, <2>3 DEF Pushed
  <2> QED
    BY <2>1, <2>2, <2>4
<1> QED
  BY <1>1 DEF Promise!Init

\* A step that RequestReply does not see.
LEMMA PromiseStutter ==
  ASSUME UNCHANGED pos,
         \A c \in Calls : /\ Unpublished(c)' <=> Unpublished(c)
                          /\ pc'[c] = "returned" <=> pc[c] = "returned"
                          /\ Runs(c)' <=> Runs(c)
  PROVE  UNCHANGED Promise!vars
<1>1. \A c \in Calls : Pushed(c)' <=> Pushed(c)
  BY DEF Pushed
<1> QED
  BY <1>1 DEF Promise!vars, Unpublished

\* An action that is at step k has come there.
LEMMA ReachedNow ==
  ASSUME TypeOK, StepInv, NEW c \in Calls, Runs(c),
         NEW k \in 1 .. Len(Program[c]) + 1, pos[c] >= k
  PROVE  Promise!Reached(c, k)
<1> USE TypeParts
<1>1. Len(Program[c]) \in Nat /\ pos[c] \in Nat
  BY ProgramAssumption DEF ActionTypes
<1>2. ASSUME NEW j \in 1 .. k - 1, Program[c][j] # Push
      PROVE  Program[c][j] \in Calls /\ pc[Program[c][j]] = "returned"
  <2>1. j \in Nat /\ Done(c, j)
    BY <1>1 DEF Done
  <2>2. Program[c][j] \in Calls
    BY <1>2, <2>1, ProgramAssumption DEF Done
  <2> QED
    BY <1>2, <2>1, <2>2 DEF StepInv, CallsReturned
<1> QED
  BY <1>2 DEF Promise!Reached

\* A call is made by the application or by an action that has come to it.
LEMMA MadeNow ==
  ASSUME TypeOK, StepInv, NEW from \in Workers \cup {App}, NEW c \in Calls,
         Makes(from, c)
  PROVE  Promise!Made(c)
<1> USE TypeParts
<1>1. CASE c \notin Nested
  BY <1>1 DEF Promise!Made, Promise!Nested, Nested
<1>2. CASE c \in Nested
  <2>1. from \in Workers /\ running[from] \in Calls /\ Step(running[from]) = c
    BY <1>2 DEF Makes
  <2>2. PICK p \in Calls : p = running[from] /\ Step(p) = c
    BY <2>1
  <2>3. pos[p] \in 1 .. Len(Program[p]) /\ Program[p][pos[p]] = c
    BY <2>2, StepTypes, ProgramAssumption
  <2>4. Runs(p) /\ pos[p] \in 1 .. Len(Program[p]) + 1 /\ pos[p] >= pos[p]
    BY <2>1, <2>2, <2>3, ProgramAssumption DEF Runs
  <2>5. Promise!Reached(p, pos[p])
    BY <2>4, ReachedNow
  <2> QED
    BY <2>3, <2>5 DEF Promise!Made
<1> QED
  BY <1>1, <1>2

\* send() sends and returns, when it may.
LEMMA PromiseSend ==
  ASSUME DistinctIds, TypeOK, PendingInv, AnswerInv, StepInv,
         NEW from \in Workers \cup {App}, NEW c \in Calls, Send(from, c)
  PROVE  [Promise!Next]_Promise!vars
<1> USE TypeParts
<1>0. UNCHANGED chan /\ ~ SendPanic(from, c)
  BY AnswerSend
<1>1. CASE SendInsert(from, c)
  <2>1. UNCHANGED <<pos, running>> /\ pc[c] = "idle" /\ pc' = [pc EXCEPT ![c] = "publish"]
    BY <1>1 DEF SendInsert, actionVars
  <2>2. \A d \in Calls : /\ Unpublished(d)' <=> Unpublished(d)
                         /\ pc'[d] = "returned" <=> pc[d] = "returned"
                         /\ Runs(d)' <=> Runs(d)
    BY <2>1 DEF Unpublished, Runs, CallTypes
  <2> QED
    BY <2>1, <2>2, PromiseStutter
<1>2. CASE SendPublish(from, c)
  <2>1. /\ UNCHANGED <<pos, running>> /\ pc[c] = "publish" /\ Makes(from, c)
        /\ pc' = [pc EXCEPT ![c] = "wait"]
    BY <1>2 DEF SendPublish, actionVars
  <2>2. \A d \in Calls : (Runs(d)' <=> Runs(d)) /\ (Pushed(d)' <=> Pushed(d))
    BY <2>1 DEF Runs, Pushed
  <2>3. /\ {d \in Calls : pc'[d] \notin {"idle", "publish"}} =
             {d \in Calls : pc[d] \notin {"idle", "publish"}} \cup {c}
        /\ {d \in Calls : pc'[d] = "returned"} = {d \in Calls : pc[d] = "returned"}
        /\ c \notin {d \in Calls : pc[d] \notin {"idle", "publish"}}
    BY <2>1 DEF CallTypes
  <2>4. Promise!Made(c)
    BY <2>1, MadeNow
  <2>5. Promise!Send(c)
    BY <2>1, <2>2, <2>3, <2>4 DEF Promise!Send
  <2> QED
    BY <2>5 DEF Promise!Next
<1>3. CASE SendReceive(from, c)
  <2>1. /\ UNCHANGED running /\ pc[c] = "wait" /\ Makes(from, c) /\ chan[c] # NoCall
        /\ pc' = [pc EXCEPT ![c] = "returned"] /\ Resume(from)
    BY <1>3, ProgramAssumption DEF SendReceive
  <2>2. \A d \in Calls : /\ Runs(d)' <=> Runs(d)
                         /\ pos'[d] > 0 <=> pos[d] > 0
                         /\ Pushed(d)' <=> Pushed(d)
    <3>1. CASE from = App /\ from \notin Workers
      BY <2>1, <3>1 DEF Resume, Runs, Pushed
    <3>2. CASE from \in Workers /\ running[from] \in Calls /\ Step(running[from]) = c
      <4>1. PICK p \in Calls : p = running[from] /\ Step(p) = c
        BY <3>2
      <4>2. /\ pos' = [pos EXCEPT ![p] = @ + 1] /\ c = Program[p][pos[p]]
            /\ pos[p] \in 1 .. Len(Program[p]) /\ c # Push
        BY <2>1, <3>2, <4>1, StepTypes, ProgramAssumption DEF Resume
      <4>3. Pushed(p)' <=> Pushed(p)
        <5>1. \A k \in 1 .. Len(Program[p]) :
                Program[p][k] = Push => (pos'[p] > k <=> pos[p] > k)
          BY <4>2 DEF ActionTypes
        <5> QED
          BY <5>1 DEF Pushed
      <4>4. \A d \in Calls : d # p => pos'[d] = pos[d]
        BY <4>2 DEF ActionTypes
      <4>5. \A d \in Calls : Pushed(d)' <=> Pushed(d)
        BY <4>3, <4>4 DEF Pushed
      <4>6. \A d \in Calls : pos'[d] > 0 <=> pos[d] > 0
        BY <4>2, <4>4 DEF ActionTypes
      <4> QED
        BY <2>1, <4>5, <4>6 DEF Runs
    <3> QED
      BY <2>1, <3>1, <3>2, MakerTypes
  <2>3. /\ {d \in Calls : pc'[d] = "returned"} =
             {d \in Calls : pc[d] = "returned"} \cup {c}
        /\ {d \in Calls : pc'[d] \notin {"idle", "publish"}} =
             {d \in Calls : pc[d] \notin {"idle", "publish"}}
        /\ c \notin {d \in Calls : pc[d] = "returned"}
    BY <2>1 DEF CallTypes
  <2>4. Promise!Made(c) /\ Pushed(c)
    BY <2>1, MadeNow DEF StepInv, PushedFirst
  <2>5. Promise!Return(c)
    BY <2>2, <2>3, <2>4 DEF Promise!Return
  <2> QED
    BY <2>5 DEF Promise!Next
<1> QED
  BY <1>0, <1>1, <1>2, <1>3 DEF Send

\* The workers serve, respond and finish, when they may.
LEMMA PromiseWorker ==
  ASSUME TypeOK, PublishInv, PendingInv, AnswerInv, FreshInv, StepInv,
         NEW w \in Workers, TakeTask(w) \/ Act(w)
  PROVE  [Promise!Next]_Promise!vars
<1> USE TypeParts
<1>1. ASSUME NEW t \in Queued, TakeRequest(w, t) PROVE [Promise!Next]_Promise!vars
  <2>1. PICK c \in Calls : c = t.call
    BY QueuedTypes DEF Tasks
  <2>2. t.kind = "req" /\ running[w] = NoCall /\ UNCHANGED <<pos, pc>>
        /\ running' = [running EXCEPT ![w] = c]
    BY <1>1, <2>1 DEF TakeRequest, callVars, Idle
  <2>3. pos[c] = 0 /\ ~ Runs(c) /\ ~ Unpublished(c)
    BY <2>1, <2>2 DEF FreshInv, Fresh, PublishInv
  <2>4. Runs(c)' /\ \A d \in Calls : d # c => (Runs(d)' <=> Runs(d))
    BY <2>2, ProgramAssumption DEF Runs, ActionTypes
  <2>5. \A d \in Calls : Pushed(d)' <=> Pushed(d)
    BY <2>2 DEF Pushed
  <2>6. /\ {d \in Calls : Runs(d)' \/ pos'[d] > 0} =
             {d \in Calls : Runs(d) \/ pos[d] > 0} \cup {c}
        /\ {d \in Calls : ~ Runs(d)' /\ pos'[d] > 0} =
             {d \in Calls : ~ Runs(d) /\ pos[d] > 0}
        /\ c \notin {d \in Calls : Runs(d) \/ pos[d] > 0}
    BY <2>2, <2>3, <2>4
  <2>7. c \in {d \in Calls : pc[d] \notin {"idle", "publish"}}
    BY <2>3 DEF Unpublished
  <2>8. Promise!Serve(c)
    BY <2>2, <2>5, <2>6, <2>7 DEF Promise!Serve
  <2> QED
    BY <2>8 DEF Promise!Next
<1>2. ASSUME NEW t \in Queued, RunResponse(w, t) PROVE [Promise!Next]_Promise!vars
  BY <1>2, PromiseStutter DEF RunResponse, actionVars, Unpublished, Runs
<1>3. CASE StartAction(w)
  <2>1. PICK p \in Calls : p = running[w] /\ pos[p] = 0
    BY <1>3 DEF StartAction, Starting
  <2>2. pos' = [pos EXCEPT ![p] = 1] /\ UNCHANGED <<pc, running>>
    BY <1>3, <2>1 DEF StartAction, callVars
  <2>3. Runs(p) /\ Runs(p)' /\ \A d \in Calls : Runs(d)' <=> Runs(d)
    BY <2>1, <2>2 DEF Runs
  <2>4. \A d \in Calls : d # p => pos'[d] = pos[d]
    BY <2>2 DEF ActionTypes
  <2>5. ~ Pushed(p) /\ ~ Pushed(p)'
    BY <2>1, <2>2 DEF Pushed, ActionTypes
  <2>6. \A d \in Calls : Pushed(d)' <=> Pushed(d)
    BY <2>4, <2>5 DEF Pushed
  <2>7. UNCHANGED Promise!vars
    BY <2>2, <2>3, <2>4, <2>6 DEF Promise!vars
  <2> QED
    BY <2>7
<1>4. CASE ActionPush(w)
  <2>1. PICK p \in Calls : p = running[w] /\ Step(p) = Push
    BY <1>4 DEF ActionPush, Idle, ActionTypes
  <2>2. pos' = [pos EXCEPT ![p] = @ + 1] /\ UNCHANGED <<pc, running>>
    BY <1>4, <2>1 DEF ActionPush, callVars
  <2>3. pos[p] \in 1 .. Len(Program[p]) /\ Program[p][pos[p]] = Push
    BY <2>1, StepTypes, ProgramAssumption
  <2>4. Runs(p) /\ \A d \in Calls : Runs(d)' <=> Runs(d)
    BY <2>1, <2>2 DEF Runs
  <2>5. \A d \in Calls : d # p => pos'[d] = pos[d]
    BY <2>2 DEF ActionTypes
  <2>6. Pushed(p)' /\ \A d \in Calls : d # p => (Pushed(d)' <=> Pushed(d))
    BY <2>2, <2>3, <2>5 DEF Pushed, ActionTypes
  <2>7. {d \in Calls : Pushed(d)'} = {d \in Calls : Pushed(d)} \cup {p}
    BY <2>6
  <2>8. \A d \in Calls : pos'[d] > 0 <=> pos[d] > 0
    BY <2>2, <2>3, <2>5 DEF ActionTypes
  <2>9. Promise!Reached(p, pos[p])
    <3>1. pos[p] \in 1 .. Len(Program[p]) + 1 /\ pos[p] >= pos[p]
      BY <2>3, ProgramAssumption
    <3> QED
      BY <2>4, <3>1, ReachedNow
  <2>10. Promise!Respond(p)
    BY <2>2, <2>3, <2>4, <2>7, <2>8, <2>9 DEF Promise!Respond
  <2> QED
    BY <2>10 DEF Promise!Next
<1>5. CASE ActionEnd(w)
  <2>1. PICK p \in Calls : p = running[w] /\ pos[p] > Len(Program[p])
    BY <1>5 DEF ActionEnd, Idle, ActionTypes
  <2>2. running' = [running EXCEPT ![w] = NoCall] /\ UNCHANGED <<pos, pc>>
    BY <1>5 DEF ActionEnd, Leave, callVars
  <2>3. Runs(p) /\ ~ Runs(p)' /\ \A d \in Calls : d # p => (Runs(d)' <=> Runs(d))
    BY <2>1, <2>2, ProgramAssumption DEF Runs, StepInv, RunsOnce, ActionTypes
  <2>4. \A d \in Calls : Pushed(d)' <=> Pushed(d)
    BY <2>2 DEF Pushed
  <2>5. Len(Program[p]) \in Nat /\ pos[p] \in Nat
    BY ProgramAssumption DEF ActionTypes
  <2>6. /\ {d \in Calls : ~ Runs(d)' /\ pos'[d] > 0} =
             {d \in Calls : ~ Runs(d) /\ pos[d] > 0} \cup {p}
        /\ {d \in Calls : Runs(d)' \/ pos'[d] > 0} =
             {d \in Calls : Runs(d) \/ pos[d] > 0}
    BY <2>1, <2>2, <2>3, <2>5
  <2>7. Promise!Reached(p, Len(Program[p]) + 1)
    <3>1. Len(Program[p]) + 1 \in 1 .. Len(Program[p]) + 1
          /\ pos[p] >= Len(Program[p]) + 1
      BY <2>1, <2>5
    <3> QED
      BY <2>3, <3>1, ReachedNow
  <2>8. Promise!Finish(p)
    BY <2>2, <2>4, <2>6, <2>7 DEF Promise!Finish
  <2> QED
    BY <2>8 DEF Promise!Next
<1> QED
  BY <1>1, <1>2, <1>3, <1>4, <1>5 DEF TakeTask, Act

\* Every step of RPC maps to a step of RequestReply or to none.
LEMMA PromiseNext ==
  ASSUME DistinctIds, TypeOK, PublishInv, PendingInv, AnswerInv, FreshInv, StepInv,
         [Next]_vars
  PROVE  [Promise!Next]_Promise!vars
<1>1. ASSUME UNCHANGED <<pc, running, pos>> PROVE UNCHANGED Promise!vars
  BY <1>1, PromiseStutter DEF Unpublished, Runs
<1>2. ASSUME NEW t \in Topics, OnRequests(t) \/ OnResponses(t)
      PROVE  [Promise!Next]_Promise!vars
  BY <1>1, <1>2 DEF OnRequests, OnResponses, Register, callVars, actionVars
<1>3. CASE SetConsumer \/ SetProducer \/ SetProducerReturn
  BY <1>1, <1>3 DEF SetConsumer, SetProducer, SetProducerReturn, callVars, actionVars
<1>4. ASSUME NEW from \in Workers \cup {App}, NEW c \in Calls, Send(from, c)
      PROVE  [Promise!Next]_Promise!vars
  BY <1>4, PromiseSend
<1>5. ASSUME NEW w \in Workers, TakeTask(w) \/ Act(w)
      PROVE  [Promise!Next]_Promise!vars
  BY <1>5, PromiseWorker
<1>6. ASSUME NEW t \in Queued, DropTask(t) PROVE [Promise!Next]_Promise!vars
  BY <1>1, <1>6 DEF DropTask, callVars, actionVars
<1>7. CASE UNCHANGED vars
  BY <1>1, <1>7 DEF vars, callVars, actionVars
<1> QED
  BY <1>2, <1>3, <1>4, <1>5, <1>6, <1>7 DEF Next

\* Where the clock never gives an id twice, the RPC layer with its channels,
\* consumers, tasks, slots and brokers, and the end of its runtime, implements
\* what RequestReply promises of a call of send().
THEOREM RPCImplementsRequestReply == ASSUME DistinctIds PROVE Spec => Replies
<1>1. Init => Promise!Init
  BY PromiseInit
<1>2. TypeOK /\ PublishInv /\ PendingInv /\ AnswerInv /\ FreshInv /\ StepInv
        /\ [Next]_vars => [Promise!Next]_Promise!vars
  BY PromiseNext
<1> QED
  BY <1>1, <1>2, RPCTypeCorrect, PublishAlways, PendingAlways, AnswerAlways,
     FreshAlways, StepAlways, PTL DEF Spec, Replies, Promise!Spec
=============================================================================
