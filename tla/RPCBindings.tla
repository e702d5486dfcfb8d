------------------------------ MODULE RPCBindings ------------------------------
(***************************************************************************)
(* What lies between a C++ application and the RPC layer: the class RPC of *)
(* src/rpc/main.hpp with its maps by instance id, the rpc_* functions of   *)
(* native/src/lib.rs with theirs, the destructor that empties both while   *)
(* actions run, the handles to streams, and the brokers an application     *)
(* plugs in: a queue that all instances share, or one that calls the       *)
(* consumer from inside the producer. The layer itself is reduced to what  *)
(* module RPC says of it: a message runs the consumer it was published to, *)
(* and the first response gets the channel of its call.                    *)
(***************************************************************************)
EXTENDS Naturals, Sequences

CONSTANTS
  Instances, Topics, Calls,
  InstOf,       \* the instance that each call not made by an action goes to
  TopicOf,      \* the topic of each call
  Serves,       \* <<instance, topic>>: the topics that on() may be called with
  Program,      \* what the action does with each request: a sequence of Push,
                \* Hand and of calls it makes on its stream
  Push, Hand,   \* Hand: the stream goes to another thread, which pushes
  Plans,        \* the brokers that the instances may be given
  Mortal,       \* topics whose string, given to on(), may go before the instance
  ZeroBytes,    \* the calls whose response has a zero byte in it
  Queue,        \* the place of the messages in the shared queue
  Garbage, NoCall, NoInstance,
  MaxId         \* bound: the ids that the two counters can give

Nested == UNION {{Program[c][k] : k \in 1 .. Len(Program[c])} : c \in Calls}
            \ {Push, Hand}
Brokers == {"default", "queue", "direct"}
Kinds == {"req", "res"}

ASSUME BindingsAssumption ==
  /\ Serves \subseteq Instances \X Topics
  /\ InstOf \in [Calls -> Instances] /\ TopicOf \in [Calls -> Topics]
  /\ Program \in [Calls -> Seq(Calls \cup {Push, Hand})]
  /\ Push \notin Calls /\ Hand \notin Calls /\ Push # Hand
  /\ Plans \subseteq [Instances -> Brokers] /\ Mortal \subseteq Topics
  /\ Queue \notin Instances /\ NoInstance \notin Instances
  /\ Garbage \notin Topics /\ NoCall \notin Calls /\ MaxId \in Nat

VARIABLES
  plan,            \* per instance, the broker its application plugs in
  dtor,            \* how far ~RPC() is: 0 not begun .. 3 done
  cpp_actions,         \* C++: <<instance, topic>> that have an action
  cpp_producers,       \* C++: instances that have a producer
  RPC_MAP,         \* instances that the rpc_* functions find
  handler, producer,   \* per instance, cb_consumer and cb_producer
  registered,      \* <<broker, instance, topic>>: both consumers of on()
  stale,           \* <<instance, topic>> whose topic string is gone
  RPC_CONSUMERS, RPC_CONSUMER_ID,  \* the consumers given to the queue, by id
  RPC_STREAMS, RPC_STREAM_ID,      \* the call of each stream handle, by id
  pc, from,        \* per call, its state and the instance it is sent on
  MAP, chan,       \* calls whose channel is stored, and that got a response
  inbox,           \* <<kind, call, place>>: messages on their way
  run, runner, via, stream_id, step,  \* per call, its action
  late,            \* per call, the thread its stream was handed to
  aborted,         \* an exception reached a frame that cannot unwind
  dropped,         \* history: requests that action_adapter found no action for
  served,          \* history: per call, the topic whose action got the request
  lost             \* history: calls published where nobody consumes them

cppVars == <<plan, dtor, cpp_actions, cpp_producers>>
coreVars == <<handler, producer, registered, stale, RPC_CONSUMERS,
              RPC_CONSUMER_ID>>
callVars == <<pc, from, MAP, chan>>
streamVars == <<RPC_STREAMS, RPC_STREAM_ID>>
runVars == <<run, runner, via, stream_id, step, late>>
histVars == <<dropped, served, lost>>
vars == <<cppVars, RPC_MAP, coreVars, streamVars, callVars, inbox, runVars,
          aborted, histVars>>

NoConsumer == <<"none", NoInstance, Garbage>>

Init ==
  /\ plan \in Plans /\ dtor = [i \in Instances |-> 0]
  /\ cpp_actions = {} /\ cpp_producers = {} /\ RPC_MAP = Instances
  /\ handler = [i \in Instances |-> "default"]
  /\ producer = [i \in Instances |-> "default"]
  /\ registered = {} /\ stale = {}
  /\ RPC_CONSUMERS = [n \in 1 .. MaxId |-> NoConsumer] /\ RPC_CONSUMER_ID = 1
  /\ RPC_STREAMS = [n \in 1 .. MaxId |-> NoCall] /\ RPC_STREAM_ID = 1
  /\ pc = [c \in Calls |-> "idle"] /\ from = [c \in Calls |-> NoInstance]
  /\ MAP = {} /\ chan = {} /\ inbox = {}
  /\ run = [c \in Calls |-> "none"] /\ runner = [c \in Calls |-> NoInstance]
  /\ via = [c \in Calls |-> "default"] /\ stream_id = [c \in Calls |-> 0]
  /\ step = [c \in Calls |-> 1] /\ late = [c \in Calls |-> "none"]
  /\ aborted = FALSE
  /\ dropped = {} /\ served = [c \in Calls |-> Garbage] /\ lost = {}

-----------------------------------------------------------------------------
(* Setting an instance up: the C++ map first, then the core. Each instance *)
(* is set up and destroyed by one thread of the application.               *)

\* Only on() of the same thread reads the C++ map of set_consumer().
SetConsumer(i) ==
  /\ dtor[i] = 0 /\ handler[i] # plan[i]
  /\ handler' = [handler EXCEPT ![i] = plan[i]]
  /\ UNCHANGED <<cppVars, RPC_MAP, producer, registered, stale, RPC_CONSUMERS,
                 RPC_CONSUMER_ID, streamVars, callVars, inbox, runVars, aborted,
                 histVars>>

StoreProducer(i) ==
  /\ dtor[i] = 0 /\ producer[i] # plan[i] /\ i \notin cpp_producers
  /\ cpp_producers' = cpp_producers \cup {i}
  /\ UNCHANGED <<plan, dtor, cpp_actions, RPC_MAP, coreVars, streamVars, callVars,
                 inbox, runVars, aborted, histVars>>
SetProducer(i) ==
  /\ i \in cpp_producers /\ producer[i] # plan[i]
  /\ producer' = [producer EXCEPT ![i] = plan[i]]
  /\ UNCHANGED <<cppVars, RPC_MAP, handler, registered, stale, RPC_CONSUMERS,
                 RPC_CONSUMER_ID, streamVars, callVars, inbox, runVars, aborted,
                 histVars>>

On(i, t) == \E b \in Brokers : <<b, i, t>> \in registered

StoreAction(i, t) ==
  /\ <<i, t>> \in Serves \ cpp_actions
  /\ dtor[i] = 0 /\ handler[i] = plan[i]
  /\ cpp_actions' = cpp_actions \cup {<<i, t>>}
  /\ UNCHANGED <<plan, dtor, cpp_producers, RPC_MAP, coreVars, streamVars, callVars,
                 inbox, runVars, aborted, histVars>>

\* Mutant of Stored: the core is called before the map is written.
NotYetStored(i, t) ==
  <<i, t>> \in Serves /\ dtor[i] = 0 /\ handler[i] = plan[i]
Stored(i, t) == <<i, t>> \in cpp_actions

\* Mutant of NextConsumer: the counter is read and not advanced.
SameConsumer == RPC_CONSUMER_ID
NextConsumer == RPC_CONSUMER_ID + 1

\* rpc_on() and RPC::on(): the queue is given the ids of both consumers.
Register(i, t) ==
  /\ Stored(i, t) /\ ~ On(i, t)
  /\ handler[i] = "queue" => RPC_CONSUMER_ID < MaxId
  /\ registered' = registered \cup {<<handler[i], i, t>>}
  /\ IF handler[i] = "queue"
     THEN /\ RPC_CONSUMERS' =
               [RPC_CONSUMERS EXCEPT ![RPC_CONSUMER_ID] = <<"req", i, t>>,
                                     ![NextConsumer] = <<"res", i, t>>]
          /\ RPC_CONSUMER_ID' = NextConsumer + 1
     ELSE UNCHANGED <<RPC_CONSUMERS, RPC_CONSUMER_ID>>
  /\ UNCHANGED <<cppVars, RPC_MAP, handler, producer, stale, streamVars,
                 callVars, inbox, runVars, aborted, histVars>>

\* The closure of rpc_on() keeps a reference to bytes that the caller owns.
StringDies(i, t) ==
  /\ t \in Mortal /\ On(i, t)
  /\ stale' = stale \cup {<<i, t>>}
  /\ UNCHANGED <<cppVars, RPC_MAP, handler, producer, registered, RPC_CONSUMERS,
                 RPC_CONSUMER_ID, streamVars, callVars, inbox, runVars, aborted,
                 histVars>>

-----------------------------------------------------------------------------
(* ~RPC(): the maps one after the other, then rpc_destroy(). Nothing is    *)
(* taken out of the core or out of the queue.                              *)

\* What set_producer() or on() is in the middle of.
Busy(i) ==
  \/ i \in cpp_producers /\ producer[i] # plan[i]
  \/ \E t \in Topics : <<i, t>> \in cpp_actions /\ ~ On(i, t)

Destroy(i) ==
  /\ dtor[i] < 3 /\ (dtor[i] = 0 => ~ Busy(i))
  /\ dtor' = [dtor EXCEPT ![i] = @ + 1]
  /\ cpp_actions' = IF dtor[i] = 0 THEN {a \in cpp_actions : a[1] # i} ELSE cpp_actions
  /\ cpp_producers' = IF dtor[i] = 1 THEN cpp_producers \ {i} ELSE cpp_producers
  /\ RPC_MAP' = IF dtor[i] = 2 THEN RPC_MAP \ {i} ELSE RPC_MAP
  /\ UNCHANGED <<plan, coreVars, streamVars, callVars, inbox, runVars, aborted,
                 histVars>>

-----------------------------------------------------------------------------
(* Publishing: the default producer, or producer_adapter and the broker.   *)

\* Mutant of Places: a message is filed under its topic.
PlacesByTopic(b, i, t) == IF <<b, i, t>> \in registered THEN {t} ELSE {}
\* The places where a message of instance i that is given to broker b arrives.
Places(b, i, t) ==
  CASE b = "default" -> IF <<b, i, t>> \in registered THEN {i} ELSE {}
    [] b = "queue" -> IF i \in cpp_producers THEN {Queue} ELSE {}
    [] OTHER -> {}

Publish(kind, c, b, i) ==
  inbox' = inbox \cup {<<kind, c, p>> : p \in Places(b, i, TopicOf[c])}

-----------------------------------------------------------------------------
(* rpc_send() and the three like it.                                       *)

\* The action that makes call c, if one does: it is at that step.
Makers(c) ==
  {p \in Calls : run[p] = "running" /\ step[p] \in 1 .. Len(Program[p])
                 /\ Program[p][step[p]] = c}

\* After a call the action that made it goes on with its next step.
Resume(c) ==
  step' = [p \in Calls |-> IF p \in Makers(c) THEN step[p] + 1 ELSE step[p]]

\* A null pointer becomes an exception. In an action that does not catch it, it
\* meets the frames of rpc_on(), which cannot unwind.
Throw(c) ==
  /\ pc' = [pc EXCEPT ![c] = "thrown"]
  /\ aborted' \in BOOLEAN /\ (aborted' => c \in Nested)
  /\ Resume(c)

\* An application thread uses the object while it lives, an action its stream.
Senders(c) ==
  IF c \in Nested THEN {runner[p] : p \in Makers(c)}
  ELSE {i \in {InstOf[c]} : dtor[i] = 0}

SendBegin(c, i) ==
  /\ pc[c] = "idle" /\ i \in Senders(c)
  /\ from' = [from EXCEPT ![c] = i]
  /\ \/ /\ i \in RPC_MAP
        /\ pc' = [pc EXCEPT ![c] = "sending"] /\ MAP' = MAP \cup {c}
        /\ UNCHANGED <<step, aborted>>
     \/ i \notin RPC_MAP /\ Throw(c) /\ UNCHANGED MAP
  /\ UNCHANGED <<cppVars, RPC_MAP, coreVars, streamVars, chan, inbox, run, runner,
                 via, stream_id, late, histVars>>

\* A broker that calls the consumer itself calls it with cb_producer locked, and
\* the consumer of a request wants that lock.
Direct(c, i) ==
  /\ producer[i] = "direct" /\ i \in cpp_producers
  /\ <<"direct", i, TopicOf[c]>> \in registered
Locked(i) == \E c \in Calls : pc[c] = "stuck" /\ from[c] = i

SendPublish(c) ==
  LET i == from[c]
  IN  /\ pc[c] = "sending" /\ ~ Locked(i)
      /\ pc' = [pc EXCEPT ![c] = IF Direct(c, i) THEN "stuck" ELSE "waiting"]
      /\ Publish("req", c, producer[i], i)
      /\ lost' = IF Places(producer[i], i, TopicOf[c]) = {} /\ ~ Direct(c, i)
                 THEN lost \cup {c} ELSE lost
      /\ UNCHANGED <<cppVars, RPC_MAP, coreVars, streamVars, from, MAP, chan,
                     runVars, aborted, dropped, served>>

\* The response goes back as a C string, which has no zero byte in it.
SendReturn(c) ==
  /\ pc[c] = "waiting" /\ c \in chan
  /\ \/ c \in ZeroBytes /\ Throw(c)
     \/ c \notin ZeroBytes /\ pc' = [pc EXCEPT ![c] = "returned"]
        /\ Resume(c) /\ UNCHANGED aborted
  /\ UNCHANGED <<cppVars, RPC_MAP, coreVars, streamVars, from, MAP, chan, inbox,
                 run, runner, via, stream_id, late, histVars>>

-----------------------------------------------------------------------------
(* Consumers.                                                              *)

\* The <<kind, instance>> of the consumers that may get message m. The queue
\* gives it to one of those that were subscribed, by id, under m's topic.
Takers(m) ==
  IF m[3] \in Instances THEN {<<m[1], m[3]>>}
  ELSE {<<RPC_CONSUMERS[n][1], RPC_CONSUMERS[n][2]>> :
          n \in {k \in 1 .. MaxId : RPC_CONSUMERS[k][3] = TopicOf[m[2]]
                                    /\ RPC_CONSUMERS[k][1] = m[1]}}

\* Mutant of NextStream: the counter is read and not advanced.
SameStream == RPC_STREAM_ID
NextStream == RPC_STREAM_ID + 1

\* The consumer of a request clones the producer, and the closure of rpc_on()
\* files the stream under a new id.
TakeRequest(m, i) ==
  LET c == m[2]
  IN  /\ <<"req", i>> \in Takers(m) /\ ~ Locked(i)
      /\ RPC_STREAM_ID <= MaxId
      /\ inbox' = inbox \ {m}
      /\ run' = [run EXCEPT ![c] = "entered"]
      /\ runner' = [runner EXCEPT ![c] = i]
      /\ via' = [via EXCEPT ![c] = producer[i]]
      /\ stream_id' = [stream_id EXCEPT ![c] = RPC_STREAM_ID]
      /\ RPC_STREAM_ID' = NextStream
      /\ RPC_STREAMS' = [RPC_STREAMS EXCEPT ![RPC_STREAM_ID] = c]
      /\ UNCHANGED <<cppVars, RPC_MAP, coreVars, callVars, step, late, aborted,
                     histVars>>

TakeResponse(m) ==
  LET c == m[2]
  IN  /\ \E i \in Instances : <<"res", i>> \in Takers(m)
      /\ inbox' = inbox \ {m}
      /\ MAP' = MAP \ {c}
      /\ chan' = IF c \in MAP THEN chan \cup {c} ELSE chan
      /\ UNCHANGED <<cppVars, RPC_MAP, coreVars, streamVars, pc, from, runVars,
                     aborted, histVars>>

-----------------------------------------------------------------------------
(* action_adapter() and the action.                                        *)

\* What the closure of rpc_on() reads for its topic.
TopicsRead(i, t) == IF <<i, t>> \in stale THEN Topics \cup {Garbage} ELSE {t}

\* The actions of the instance are copied, and the topic is looked up in them.
FindAction(c, t) ==
  /\ run[c] = "entered" /\ t \in TopicsRead(runner[c], TopicOf[c])
  /\ \/ /\ <<runner[c], t>> \in cpp_actions
        /\ run' = [run EXCEPT ![c] = "running"]
        /\ served' = [served EXCEPT ![c] = t] /\ UNCHANGED dropped
     \/ /\ <<runner[c], t>> \notin cpp_actions
        /\ run' = [run EXCEPT ![c] = "leaving"]
        /\ dropped' = dropped \cup {c} /\ UNCHANGED served
  /\ UNCHANGED <<cppVars, RPC_MAP, coreVars, streamVars, callVars, inbox,
                 runner, via, stream_id, step, late, aborted, lost>>

At(c, what) ==
  /\ run[c] = "running" /\ step[c] <= Len(Program[c])
  /\ Program[c][step[c]] = what

\* rpc_push() finds the stream by its id, and the stream its own topic and id.
Owner(c) == RPC_STREAMS[stream_id[c]]

ActionPush(c) ==
  /\ At(c, Push)
  /\ IF Owner(c) = NoCall THEN UNCHANGED inbox
     ELSE Publish("res", Owner(c), via[Owner(c)], runner[Owner(c)])
  /\ step' = [step EXCEPT ![c] = @ + 1]
  /\ UNCHANGED <<cppVars, RPC_MAP, coreVars, streamVars, callVars, run, runner,
                 via, stream_id, late, aborted, histVars>>

ActionHand(c) ==
  /\ At(c, Hand)
  /\ late' = [late EXCEPT ![c] = "handed"]
  /\ step' = [step EXCEPT ![c] = @ + 1]
  /\ UNCHANGED <<cppVars, RPC_MAP, coreVars, streamVars, callVars, inbox, run,
                 runner, via, stream_id, aborted, histVars>>

\* The stream is held by a clone from the moment it is found.
LateLookup(c) ==
  /\ late[c] = "handed"
  /\ late' = [late EXCEPT ![c] = IF Owner(c) = NoCall THEN "missed" ELSE "found"]
  /\ UNCHANGED <<cppVars, RPC_MAP, coreVars, streamVars, callVars, inbox, run,
                 runner, via, stream_id, step, aborted, histVars>>
LatePush(c) ==
  /\ late[c] = "found"
  /\ late' = [late EXCEPT ![c] = "pushed"]
  /\ Publish("res", c, via[c], runner[c])
  /\ UNCHANGED <<cppVars, RPC_MAP, coreVars, streamVars, callVars, run, runner,
                 via, stream_id, step, aborted, histVars>>

ActionEnd(c) ==
  /\ run[c] = "leaving" \/ (run[c] = "running" /\ step[c] > Len(Program[c]))
  /\ run' = [run EXCEPT ![c] = "over"]
  /\ RPC_STREAMS' = [RPC_STREAMS EXCEPT ![stream_id[c]] = NoCall]
  /\ UNCHANGED <<cppVars, RPC_MAP, coreVars, RPC_STREAM_ID, callVars, inbox,
                 runner, via, stream_id, step, late, aborted, histVars>>

-----------------------------------------------------------------------------
Setup(i) ==
  \/ SetConsumer(i) \/ StoreProducer(i) \/ SetProducer(i) \/ Destroy(i)
  \/ \E t \in Topics : StoreAction(i, t) \/ Register(i, t) \/ StringDies(i, t)
Consume ==
  \E m \in inbox :
    TakeResponse(m) \/ \E i \in Instances : TakeRequest(m, i)
Act(c) ==
  \/ \E t \in Topics \cup {Garbage} : FindAction(c, t)
  \/ ActionPush(c) \/ ActionHand(c) \/ ActionEnd(c)
Late(c) == LateLookup(c) \/ LatePush(c)
Send(c) ==
  \/ \E i \in Instances : SendBegin(c, i)
  \/ SendPublish(c) \/ SendReturn(c)

Next ==
  /\ ~ aborted
  /\ \/ \E i \in Instances : Setup(i)
     \/ Consume
     \/ \E c \in Calls : Send(c) \/ Act(c) \/ Late(c)

Spec == Init /\ [][Next]_vars

\* The threads of the application and of the runtime that can run do run, and
\* the queue delivers. Nobody has to call send(), on() or the destructor.
Fairness ==
  \A c \in Calls :
    /\ WF_vars(~ aborted /\ (pc[c] # "idle" \/ c \in Nested) /\ Send(c))
    /\ WF_vars(~ aborted /\ Act(c)) /\ WF_vars(~ aborted /\ Late(c))
    /\ WF_vars(~ aborted /\ \E m \in inbox :
                 m[2] = c /\ (TakeResponse(m) \/ \E i \in Instances : TakeRequest(m, i)))

FairSpec == Spec /\ Fairness

-----------------------------------------------------------------------------
(* Properties.                                                             *)

CppTypes ==
  /\ plan \in Plans /\ dtor \in [Instances -> 0 .. 3]
  /\ cpp_actions \subseteq Instances \X Topics
  /\ cpp_producers \subseteq Instances /\ RPC_MAP \subseteq Instances

CoreTypes ==
  /\ handler \in [Instances -> Brokers] /\ producer \in [Instances -> Brokers]
  /\ registered \subseteq Brokers \X Instances \X Topics
  /\ stale \subseteq Instances \X Topics
  /\ RPC_CONSUMERS \in [1 .. MaxId -> (Kinds \X Instances \X Topics) \cup {NoConsumer}]
  /\ RPC_CONSUMER_ID \in Nat \ {0}

StreamTypes ==
  /\ RPC_STREAMS \in [1 .. MaxId -> Calls \cup {NoCall}]
  /\ RPC_STREAM_ID \in Nat \ {0}

CallTypes ==
  /\ pc \in [Calls -> {"idle", "sending", "waiting", "stuck", "returned", "thrown"}]
  /\ from \in [Calls -> Instances \cup {NoInstance}]
  /\ MAP \subseteq Calls /\ chan \subseteq Calls
  /\ inbox \subseteq Kinds \X Calls \X (Instances \cup {Queue})

RunTypes ==
  /\ run \in [Calls -> {"none", "entered", "running", "leaving", "over"}]
  /\ runner \in [Calls -> Instances \cup {NoInstance}]
  /\ via \in [Calls -> Brokers] /\ stream_id \in [Calls -> 0 .. MaxId]
  /\ step \in [Calls -> Nat] /\ aborted \in BOOLEAN
  /\ late \in [Calls -> {"none", "handed", "found", "missed", "pushed"}]

HistoryTypes ==
  /\ dropped \subseteq Calls /\ lost \subseteq Calls
  /\ served \in [Calls -> Topics \cup {Garbage}]

\* Every variable stays in the set its type stands for.
TypeOK ==
  CppTypes /\ CoreTypes /\ StreamTypes /\ CallTypes /\ RunTypes /\ HistoryTypes

\* RPC_STREAMS holds the stream of an action from before its callback until the
\* callback is back, under an id of its own, and nothing else: an action never
\* pushes to the caller of another one, and no stream outlives its action.
StreamsOfActions ==
  /\ \A c \in Calls :
       run[c] \in {"entered", "running", "leaving"} => Owner(c) = c
  /\ \A n \in 1 .. MaxId :
       LET c == RPC_STREAMS[n]
       IN  c # NoCall => /\ run[c] \in {"entered", "running", "leaving"}
                         /\ stream_id[c] = n

\* What an application that calls on() and then send() is promised: the request
\* is served by the action of its own topic, or dropped only when ~RPC() of the
\* instance it reached has begun.
ServedByItsTopic ==
  \A c \in Calls :
    /\ served[c] \in {TopicOf[c], Garbage}
    /\ c \in dropped => dtor[runner[c]] > 0

\* That holds, however on(), send(), the destructor and other instances
\* interleave, as long as the string that was given to on() lives.
ServedWhileTopicLives ==
  \A c \in Calls :
    runner[c] \in Instances /\ <<runner[c], TopicOf[c]>> \notin stale =>
      /\ served[c] \in {TopicOf[c], Garbage}
      /\ c \in dropped => dtor[runner[c]] > 0

\* Why call c may wait for ever: nobody consumes it, its topic was looked up in
\* memory that is gone, its broker calls consumers itself, the instance that took
\* its request was destroyed or had not yet been given the producer of that
\* broker, or its action pushed nothing in time.
Pushes(c) == \E k \in 1 .. Len(Program[c]) : Program[c][k] = Push
Abandoned(c) ==
  \/ c \in lost
  \/ c \in dropped /\ <<runner[c], TopicOf[c]>> \in stale
  \/ /\ \A i \in Instances : <<"queue", i, TopicOf[c]>> \notin registered
     /\ \E k \in Kinds : <<k, c, Queue>> \in inbox
  \/ from[c] \in Instances /\ Locked(from[c])
  \/ runner[c] \in Instances /\ (dtor[runner[c]] > 0 \/ via[c] # plan[runner[c]])
  \/ ~ Pushes(c) /\ late[c] # "pushed"
\* A call waits for ever only if it is abandoned or its action makes a call that
\* is: a response that was pushed in time is never lost in the handles, the
\* registries or the queue, and the destructor of the instance that a call was
\* sent on, or of any other that did not take its request, takes no answer away.
HangsOnlyIfAbandoned ==
  \A c \in Calls :
    <>[](pc[c] \in {"sending", "waiting", "stuck"}) =>
      <>[] \/ aborted \/ Abandoned(c)
           \/ \E d \in Nested : At(c, d) /\ Abandoned(d)
=============================================================================
