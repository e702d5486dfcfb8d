-------------------------- MODULE RPCBindings_proofs --------------------------
(***************************************************************************)
(* Theorems about RPCBindings, for every set of instances, topics, calls   *)
(* and brokers: its types, whose stream a handle leads to, and by which    *)
(* action a request is served.                                             *)
(***************************************************************************)
EXTENDS RPCBindings, TLAPS

\* The states in which an action has its stream.
Active == {"entered", "running", "leaving"}

\* A request is published once and taken once, by one consumer.
TakenOnce ==
  /\ \A m \in inbox : m[1] = "req" =>
        run[m[2]] = "none" /\ pc[m[2]] \notin {"idle", "sending"}
  /\ \A m, k \in inbox : m[1] = "req" /\ k[1] = "req" /\ m[2] = k[2] => m = k
  /\ \A c \in Calls : run[c] # "none" => pc[c] \notin {"idle", "sending"}

\* The ids of streams are handed out in order.
IdsGiven ==
  /\ \A c \in Calls : stream_id[c] < RPC_STREAM_ID
  /\ \A c \in Calls : run[c] \in Active => stream_id[c] \in 1 .. MaxId

StreamInv == TypeOK /\ TakenOnce /\ IdsGiven /\ StreamsOfActions

-----------------------------------------------------------------------------
(* Where messages go.                                                      *)

\* A broker has one place for a message, and the default one has a consumer there.
LEMMA PlaceOfMessage ==
  ASSUME CoreTypes, NEW b, NEW i, NEW t, NEW p \in Places(b, i, t)
  PROVE  /\ p \in Instances \cup {Queue}
         /\ \A q \in Places(b, i, t) : p = q
         /\ p \in Instances => <<"default", p, t>> \in registered
<1>1. CASE b = "default"
  <2>1. p = i /\ <<b, i, t>> \in registered /\ \A q \in Places(b, i, t) : q = i
    BY <1>1 DEF Places
  <2>2. i \in Instances
    BY <2>1 DEF CoreTypes
  <2> QED
    BY <1>1, <2>1, <2>2
<1>2. CASE b = "queue"
  <2>1. p = Queue /\ \A q \in Places(b, i, t) : q = Queue
    BY <1>2 DEF Places
  <2> QED
    BY <2>1, BindingsAssumption
<1>3. CASE b # "default" /\ b # "queue"
  BY <1>3 DEF Places
<1> QED
  BY <1>1, <1>2, <1>3

\* What a message is that is published.
LEMMA PublishedMessage ==
  ASSUME CoreTypes, NEW kind \in Kinds, NEW c \in Calls, NEW b, NEW i,
         Publish(kind, c, b, i)
  PROVE  /\ inbox \subseteq inbox'
         /\ \A m \in inbox' \ inbox :
              /\ m \in Kinds \X Calls \X (Instances \cup {Queue})
              /\ m[1] = kind /\ m[2] = c
              /\ m[3] \in Instances => <<"default", m[3], TopicOf[c]>> \in registered
         /\ \A m, k \in inbox' \ inbox : m = k
<1>1. \A m \in inbox' \ inbox :
        \E p \in Places(b, i, TopicOf[c]) : m = <<kind, c, p>>
  BY DEF Publish
<1>2. ASSUME NEW m \in inbox' \ inbox
      PROVE  /\ m \in Kinds \X Calls \X (Instances \cup {Queue})
             /\ m[1] = kind /\ m[2] = c
             /\ m[3] \in Instances => <<"default", m[3], TopicOf[c]>> \in registered
  <2>1. PICK p \in Places(b, i, TopicOf[c]) : m = <<kind, c, p>>
    BY <1>1
  <2>2. /\ p \in Instances \cup {Queue}
        /\ p \in Instances => <<"default", p, TopicOf[c]>> \in registered
    BY PlaceOfMessage
  <2> QED
    BY <2>1, <2>2
<1>3. \A m, k \in inbox' \ inbox : m = k
  <2>1. \A p, q \in Places(b, i, TopicOf[c]) : p = q
    BY PlaceOfMessage
  <2> QED
    BY <1>1, <2>1
<1> QED
  BY <1>2, <1>3 DEF Publish

\* A consumer of requests gets requests only, and was registered for the topic.
LEMMA TakerOfRequest ==
  ASSUME CoreTypes, NEW m \in inbox, NEW i, <<"req", i>> \in Takers(m)
  PROVE  /\ m[1] = "req"
         /\ \/ m[3] \in Instances /\ i = m[3]
            \/ \E n \in 1 .. MaxId : RPC_CONSUMERS[n] = <<"req", i, TopicOf[m[2]]>>
<1>1. CASE m[3] \in Instances
  BY <1>1 DEF Takers
<1>2. CASE m[3] \notin Instances
  <2>1. PICK n \in 1 .. MaxId :
           /\ RPC_CONSUMERS[n][3] = TopicOf[m[2]] /\ RPC_CONSUMERS[n][1] = m[1]
           /\ <<"req", i>> = <<RPC_CONSUMERS[n][1], RPC_CONSUMERS[n][2]>>
    BY <1>2 DEF Takers
  <2>2. m[1] = "req" /\ RPC_CONSUMERS[n][1] = "req" /\ RPC_CONSUMERS[n][2] = i
    BY <2>1
  <2>3. RPC_CONSUMERS[n] \in Kinds \X Instances \X Topics \/ RPC_CONSUMERS[n] = NoConsumer
    BY DEF CoreTypes
  <2>4. RPC_CONSUMERS[n] # NoConsumer
    BY <2>2 DEF NoConsumer
  <2>5. RPC_CONSUMERS[n] = <<"req", i, TopicOf[m[2]]>>
    BY <2>1, <2>2, <2>3, <2>4
  <2> QED
    BY <2>2, <2>5
<1> QED
  BY <1>1, <1>2

-----------------------------------------------------------------------------
(* Types.                                                                  *)

\* Each part of the type invariant depends on its own variables only.
LEMMA Frames ==
  /\ CppTypes /\ UNCHANGED <<cppVars, RPC_MAP>> => CppTypes'
  /\ CoreTypes /\ UNCHANGED coreVars => CoreTypes'
  /\ StreamTypes /\ UNCHANGED streamVars => StreamTypes'
  /\ CallTypes /\ UNCHANGED <<callVars, inbox>> => CallTypes'
  /\ RunTypes /\ UNCHANGED <<runVars, aborted>> => RunTypes'
  /\ HistoryTypes /\ UNCHANGED histVars => HistoryTypes'
<1>1. CppTypes /\ UNCHANGED <<cppVars, RPC_MAP>> => CppTypes'
  BY DEF CppTypes, cppVars
<1>2. CoreTypes /\ UNCHANGED coreVars => CoreTypes'
  BY DEF CoreTypes, coreVars
<1>3. StreamTypes /\ UNCHANGED streamVars => StreamTypes'
  BY DEF StreamTypes, streamVars
<1>4. CallTypes /\ UNCHANGED <<callVars, inbox>> => CallTypes'
  BY DEF CallTypes, callVars
<1>5. RunTypes /\ UNCHANGED <<runVars, aborted>> => RunTypes'
  BY DEF RunTypes, runVars
<1>6. HistoryTypes /\ UNCHANGED histVars => HistoryTypes'
  BY DEF HistoryTypes, histVars
<1> QED
  BY <1>1, <1>2, <1>3, <1>4, <1>5, <1>6

\* Publishing keeps the types of the calls and their messages.
LEMMA PublishTypes ==
  ASSUME CoreTypes, CallTypes, NEW kind \in Kinds, NEW c \in Calls, NEW b, NEW i,
         Publish(kind, c, b, i), UNCHANGED callVars
  PROVE  CallTypes'
<1>1. inbox' \subseteq Kinds \X Calls \X (Instances \cup {Queue})
  BY PublishedMessage DEF CallTypes
<1> QED
  BY <1>1 DEF CallTypes, callVars

\* Setting instances up and destroying them preserves the types.
LEMMA TypeSetup ==
  ASSUME TypeOK, NEW i \in Instances, Setup(i)
  PROVE  TypeOK'
<1> USE DEF TypeOK
<1>1. plan[i] \in Brokers /\ handler[i] \in Brokers
  BY BindingsAssumption DEF CppTypes, CoreTypes
<1>2. CASE SetConsumer(i) \/ SetProducer(i)
  <2>1. CoreTypes'
    BY <1>1, <1>2 DEF SetConsumer, SetProducer, CoreTypes
  <2> QED
    BY <1>2, <2>1, Frames DEF SetConsumer, SetProducer
<1>3. CASE StoreProducer(i)
  <2>1. CppTypes'
    BY <1>3 DEF StoreProducer, CppTypes
  <2> QED
    BY <1>3, <2>1, Frames DEF StoreProducer
<1>4. CASE Destroy(i)
  <2>1. dtor[i] + 1 \in 0 .. 3
    BY <1>4 DEF Destroy, CppTypes
  <2>2. CppTypes'
    BY <1>4, <2>1 DEF Destroy, CppTypes
  <2> QED
    BY <1>4, <2>2, Frames DEF Destroy
<1>5. ASSUME NEW t \in Topics, StoreAction(i, t) PROVE TypeOK'
  <2>1. CppTypes'
    BY <1>5 DEF StoreAction, CppTypes
  <2> QED
    BY <1>5, <2>1, Frames DEF StoreAction
<1>6. ASSUME NEW t \in Topics, StringDies(i, t) PROVE TypeOK'
  <2>1. CoreTypes'
    BY <1>6 DEF StringDies, CoreTypes
  <2> QED
    BY <1>6, <2>1, Frames DEF StringDies
<1>7. ASSUME NEW t \in Topics, Register(i, t) PROVE TypeOK'
  <2>1. registered' \subseteq Brokers \X Instances \X Topics
    BY <1>1, <1>7 DEF Register, CoreTypes
  <2>2. /\ RPC_CONSUMERS' \in [1 .. MaxId ->
                                 (Kinds \X Instances \X Topics) \cup {NoConsumer}]
        /\ RPC_CONSUMER_ID' \in Nat \ {0}
    BY <1>7 DEF Register, CoreTypes, NextConsumer, Kinds
  <2>3. CoreTypes'
    BY <1>7, <2>1, <2>2 DEF Register, CoreTypes
  <2> QED
    BY <1>7, <2>3, Frames DEF Register
<1> QED
  BY <1>2, <1>3, <1>4, <1>5, <1>6, <1>7 DEF Setup

\* The calls of rpc_send() preserve the types.
LEMMA TypeSend ==
  ASSUME TypeOK, NEW c \in Calls, Send(c)
  PROVE  TypeOK'
<1> USE DEF TypeOK
<1>1. ASSUME NEW i \in Instances, SendBegin(c, i) PROVE TypeOK'
  <2>1. aborted' \in BOOLEAN
    BY <1>1 DEF SendBegin, Throw, RunTypes
  <2>2. step' \in [Calls -> Nat]
    BY <1>1 DEF SendBegin, Throw, Resume, RunTypes
  <2>3. RunTypes'
    BY <1>1, <2>1, <2>2 DEF SendBegin, RunTypes
  <2>4. CallTypes'
    BY <1>1 DEF SendBegin, Throw, CallTypes
  <2> QED
    BY <1>1, <2>3, <2>4, Frames DEF SendBegin
<1>2. CASE SendPublish(c)
  <2>1. inbox' \subseteq Kinds \X Calls \X (Instances \cup {Queue})
    BY <1>2, PublishedMessage DEF SendPublish, CallTypes, Kinds
  <2>2. CallTypes'
    BY <1>2, <2>1 DEF SendPublish, CallTypes
  <2>3. HistoryTypes'
    BY <1>2 DEF SendPublish, HistoryTypes
  <2> QED
    BY <1>2, <2>2, <2>3, Frames DEF SendPublish
<1>3. CASE SendReturn(c)
  <2>1. aborted' \in BOOLEAN
    BY <1>3 DEF SendReturn, Throw, RunTypes
  <2>2. step' \in [Calls -> Nat]
    BY <1>3 DEF SendReturn, Throw, Resume, RunTypes
  <2>3. RunTypes'
    BY <1>3, <2>1, <2>2 DEF SendReturn, RunTypes
  <2>4. CallTypes'
    BY <1>3 DEF SendReturn, Throw, CallTypes
  <2> QED
    BY <1>3, <2>3, <2>4, Frames DEF SendReturn
<1> QED
  BY <1>1, <1>2, <1>3 DEF Send

\* Consumers preserve the types, and so do actions whose streams are theirs.
LEMMA TypeConsume ==
  ASSUME TypeOK, Consume
  PROVE  TypeOK'
<1> USE DEF TypeOK
<1>1. ASSUME NEW m \in inbox, TakeResponse(m) PROVE TypeOK'
  <2>1. m[2] \in Calls
    BY DEF CallTypes
  <2>2. CallTypes'
    BY <1>1, <2>1 DEF TakeResponse, CallTypes
  <2> QED
    BY <1>1, <2>2, Frames DEF TakeResponse
<1>2. ASSUME NEW m \in inbox, NEW i \in Instances, TakeRequest(m, i) PROVE TypeOK'
  <2>1. PICK c \in Calls : c = m[2]
    BY DEF CallTypes
  <2>2. producer[i] \in Brokers /\ RPC_STREAM_ID \in 0 .. MaxId
    BY <1>2, BindingsAssumption DEF TakeRequest, CoreTypes, StreamTypes
  <2>3. CallTypes'
    BY <1>2 DEF TakeRequest, CallTypes, callVars
  <2>4. StreamTypes'
    BY <1>2, <2>1 DEF TakeRequest, StreamTypes, NextStream
  <2>5. RunTypes'
    BY <1>2, <2>1, <2>2 DEF TakeRequest, RunTypes
  <2> QED
    BY <1>2, <2>3, <2>4, <2>5, Frames DEF TakeRequest
<1> QED
  BY <1>1, <1>2 DEF Consume

\* The steps of an action and of its late push preserve the types.
LEMMA TypeAct ==
  ASSUME StreamInv, NEW c \in Calls, Act(c) \/ Late(c)
  PROVE  TypeOK'
<1> USE DEF TypeOK
<1>1. TypeOK
  BY DEF StreamInv
<1>2. ASSUME NEW t \in Topics \cup {Garbage}, FindAction(c, t) PROVE TypeOK'
  <2>1. RunTypes'
    BY <1>1, <1>2 DEF FindAction, RunTypes
  <2>2. HistoryTypes'
    BY <1>1, <1>2 DEF FindAction, HistoryTypes
  <2> QED
    BY <1>1, <1>2, <2>1, <2>2, Frames DEF FindAction
<1>3. CASE ActionPush(c)
  <2>1. Owner(c) = c
    BY <1>3 DEF ActionPush, At, StreamInv, StreamsOfActions
  <2>2. CallTypes'
    BY <1>1, <1>3, <2>1, BindingsAssumption, PublishTypes DEF ActionPush, Kinds
  <2>3. RunTypes'
    BY <1>1, <1>3 DEF ActionPush, RunTypes
  <2> QED
    BY <1>1, <1>3, <2>2, <2>3, Frames DEF ActionPush
<1>4. CASE ActionHand(c)
  <2>1. RunTypes'
    BY <1>1, <1>4 DEF ActionHand, RunTypes
  <2> QED
    BY <1>1, <1>4, <2>1, Frames DEF ActionHand
<1>5. CASE ActionEnd(c)
  <2>1. RunTypes'
    BY <1>1, <1>5 DEF ActionEnd, RunTypes
  <2>2. StreamTypes'
    BY <1>1, <1>5 DEF ActionEnd, StreamTypes
  <2> QED
    BY <1>1, <1>5, <2>1, <2>2, Frames DEF ActionEnd
<1>6. CASE LateLookup(c)
  <2>1. RunTypes'
    BY <1>1, <1>6 DEF LateLookup, RunTypes
  <2> QED
    BY <1>1, <1>6, <2>1, Frames DEF LateLookup
<1>7. CASE LatePush(c)
  <2>1. RunTypes'
    BY <1>1, <1>7 DEF LatePush, RunTypes
  <2>2. CallTypes'
    BY <1>1, <1>7, PublishTypes DEF LatePush, Kinds
  <2> QED
    BY <1>1, <1>7, <2>1, <2>2, Frames DEF LatePush
<1> QED
  BY <1>2, <1>3, <1>4, <1>5, <1>6, <1>7 DEF Act, Late

-----------------------------------------------------------------------------
(* Streams.                                                                *)

\* Nobody has a stream at first.
LEMMA StreamInit == Init => StreamInv
<1> SUFFICES ASSUME Init PROVE StreamInv
  OBVIOUS
<1>1. CppTypes /\ CoreTypes
  BY BindingsAssumption DEF Init, CppTypes, CoreTypes, Brokers
<1>2. StreamTypes /\ CallTypes /\ HistoryTypes
  BY DEF Init, StreamTypes, CallTypes, HistoryTypes
<1>3. RunTypes
  <2>1. aborted \in BOOLEAN
    BY DEF Init
  <2>2. 0 \in 0 .. MaxId
    BY BindingsAssumption
  <2> QED
    BY <2>1, <2>2 DEF Init, RunTypes, Brokers
<1>4. TakenOnce /\ IdsGiven /\ StreamsOfActions
  BY DEF Init, TakenOnce, IdsGiven, StreamsOfActions, Active
<1> QED
  BY <1>1, <1>2, <1>3, <1>4 DEF StreamInv, TypeOK

\* A step that publishes and takes no request.
LEMMA TakenFrame ==
  ASSUME StreamInv,
         \A m \in inbox' : m[1] = "req" => m \in inbox,
         \A c \in Calls : /\ run'[c] = "none" <=> run[c] = "none"
                          /\ pc'[c] \in {"idle", "sending"}
                               => pc[c] \in {"idle", "sending"}
  PROVE  TakenOnce'
<1>1. \A m \in inbox' : m[1] = "req" => m[2] \in Calls
  BY DEF StreamInv, TypeOK, CallTypes
<1> QED
  BY <1>1 DEF StreamInv, TakenOnce

\* A step that begins and ends no action.
LEMMA StreamFrame ==
  ASSUME StreamInv, TypeOK', TakenOnce', UNCHANGED <<streamVars, stream_id>>,
         \A c \in Calls : run'[c] \in Active <=> run[c] \in Active
  PROVE  StreamInv'
<1>1. IdsGiven'
  BY DEF StreamInv, IdsGiven, streamVars
<1>2. \A c \in Calls : Owner(c)' = Owner(c)
  BY DEF Owner, streamVars
<1>3. \A n \in 1 .. MaxId : RPC_STREAMS[n] # NoCall => RPC_STREAMS[n] \in Calls
  BY DEF StreamInv, TypeOK, StreamTypes
<1>4. StreamsOfActions'
  BY <1>2, <1>3 DEF StreamInv, StreamsOfActions, streamVars, Active
<1> QED
  BY <1>1, <1>4 DEF StreamInv

\* Setting up, the destructor, and what the calls of rpc_send() do.
LEMMA StreamSend ==
  ASSUME StreamInv, TypeOK',
         \/ \E i \in Instances : Setup(i)
         \/ \E c \in Calls : Send(c)
  PROVE  StreamInv'
<1>1. UNCHANGED <<streamVars, stream_id, run>>
  BY DEF Setup, SetConsumer, StoreProducer, SetProducer, Destroy, StoreAction,
         Register, StringDies, Send, SendBegin, SendPublish, SendReturn, runVars
<1>2. CASE \E i \in Instances : Setup(i)
  <2>1. UNCHANGED <<inbox, pc>>
    BY <1>2 DEF Setup, SetConsumer, StoreProducer, SetProducer, Destroy,
                StoreAction, Register, StringDies, callVars
  <2> QED
    BY <1>1, <2>1, TakenFrame, StreamFrame
<1>3. ASSUME NEW c \in Calls, NEW i \in Instances, SendBegin(c, i) PROVE TakenOnce'
  BY <1>1, <1>3, TakenFrame DEF SendBegin, Throw, StreamInv, TypeOK, CallTypes
<1>4. ASSUME NEW c \in Calls, SendReturn(c) PROVE TakenOnce'
  BY <1>1, <1>4, TakenFrame DEF SendReturn, Throw, StreamInv, TypeOK, CallTypes
<1>5. ASSUME NEW c \in Calls, SendPublish(c) PROVE TakenOnce'
  <2>1. /\ pc[c] = "sending" /\ pc'[c] \notin {"idle", "sending"}
        /\ \A d \in Calls \ {c} : pc'[d] = pc[d]
    BY <1>5 DEF SendPublish, StreamInv, TypeOK, CallTypes
  <2>2. run[c] = "none" /\ \A m \in inbox : m[1] = "req" => m[2] # c
    BY <2>1 DEF StreamInv, TakenOnce
  <2>3. /\ \A m \in inbox' \ inbox : m[2] = c
        /\ \A m, k \in inbox' \ inbox : m = k
    BY <1>5, PublishedMessage DEF SendPublish, Kinds, StreamInv, TypeOK
  <2>4. \A m \in inbox : m[2] \in Calls
    BY DEF StreamInv, TypeOK, CallTypes
  <2>5. \A m \in inbox' : m[1] = "req" =>
          run'[m[2]] = "none" /\ pc'[m[2]] \notin {"idle", "sending"}
    BY <1>1, <2>1, <2>2, <2>3, <2>4 DEF StreamInv, TakenOnce
  <2>6. \A m, k \in inbox' : m[1] = "req" /\ k[1] = "req" /\ m[2] = k[2] => m = k
    BY <2>2, <2>3 DEF StreamInv, TakenOnce
  <2>7. \A d \in Calls : run'[d] # "none" => pc'[d] \notin {"idle", "sending"}
    BY <1>1, <2>1 DEF StreamInv, TakenOnce
  <2> QED
    BY <2>5, <2>6, <2>7 DEF TakenOnce
<1>6. ASSUME NEW c \in Calls, Send(c) PROVE StreamInv'
  BY <1>1, <1>3, <1>4, <1>5, <1>6, StreamFrame DEF Send
<1> QED
  BY <1>2, <1>6

\* A consumer of requests files a stream under an id nobody else has.
LEMMA StreamConsume ==
  ASSUME StreamInv, TypeOK', Consume
  PROVE  StreamInv'
<1>1. ASSUME NEW m \in inbox, TakeResponse(m) PROVE StreamInv'
  <2>1. UNCHANGED <<streamVars, stream_id, run, pc>> /\ inbox' \subseteq inbox
    BY <1>1 DEF TakeResponse, runVars
  <2> QED
    BY <2>1, TakenFrame, StreamFrame
<1>2. ASSUME NEW m \in inbox, NEW i \in Instances, TakeRequest(m, i) PROVE StreamInv'
  <2>1. PICK c \in Calls : c = m[2]
    BY DEF StreamInv, TypeOK, CallTypes
  <2>2. PICK id \in 1 .. MaxId : id = RPC_STREAM_ID
    BY <1>2 DEF TakeRequest, StreamInv, TypeOK, StreamTypes
  <2>3. m[1] = "req" /\ run[c] = "none" /\ pc[c] \notin {"idle", "sending"}
    BY <1>2, <2>1, TakerOfRequest DEF TakeRequest, StreamInv, TypeOK, TakenOnce
  <2>4. /\ inbox' = inbox \ {m} /\ pc' = pc /\ RPC_STREAM_ID' = id + 1
        /\ run' = [run EXCEPT ![c] = "entered"]
        /\ stream_id' = [stream_id EXCEPT ![c] = id]
        /\ RPC_STREAMS' = [RPC_STREAMS EXCEPT ![id] = c]
    BY <1>2, <2>1, <2>2 DEF TakeRequest, NextStream, callVars
  <2>5. /\ run'[c] = "entered" /\ stream_id'[c] = id /\ RPC_STREAMS'[id] = c
        /\ \A d \in Calls \ {c} : run'[d] = run[d] /\ stream_id'[d] = stream_id[d]
        /\ \A n \in 1 .. MaxId : n # id => RPC_STREAMS'[n] = RPC_STREAMS[n]
    BY <2>4 DEF StreamInv, TypeOK, RunTypes, StreamTypes
  <2>6. \A d \in Calls : stream_id[d] < id /\ stream_id[d] \in Nat
    BY <2>2 DEF StreamInv, IdsGiven, TypeOK, RunTypes
  <2>7. TakenOnce'
    <3>1. \A k \in inbox' : k \in inbox /\ k[2] \in Calls
                            /\ (k[1] = "req" => k[2] # c)
      BY <2>1, <2>3, <2>4 DEF StreamInv, TakenOnce, TypeOK, CallTypes
    <3> QED
      BY <2>3, <2>4, <2>5, <3>1 DEF StreamInv, TakenOnce
  <2>8. IdsGiven'
    <3>1. \A d \in Calls : stream_id'[d] < RPC_STREAM_ID'
      BY <2>4, <2>5, <2>6
    <3>2. \A d \in Calls : run'[d] \in Active => stream_id'[d] \in 1 .. MaxId
      BY <2>5 DEF StreamInv, IdsGiven
    <3> QED
      BY <3>1, <3>2 DEF IdsGiven
  <2>9. ASSUME NEW d \in Calls, run'[d] \in Active PROVE RPC_STREAMS'[stream_id'[d]] = d
    <3>1. CASE d = c
      BY <2>5, <3>1
    <3>2. CASE d # c
      <4>1. run[d] \in Active /\ stream_id'[d] = stream_id[d]
        BY <2>5, <2>9, <3>2
      <4>2. stream_id[d] \in 1 .. MaxId /\ stream_id[d] # id
        BY <2>6, <4>1 DEF StreamInv, IdsGiven
      <4>3. RPC_STREAMS[stream_id[d]] = d
        BY <4>1 DEF StreamInv, StreamsOfActions, Owner, Active
      <4> QED
        BY <2>5, <4>1, <4>2, <4>3
    <3> QED
      BY <3>1, <3>2
  <2>10. ASSUME NEW n \in 1 .. MaxId, RPC_STREAMS'[n] # NoCall
         PROVE  /\ run'[RPC_STREAMS'[n]] \in Active
                /\ stream_id'[RPC_STREAMS'[n]] = n
    <3>1. CASE n = id
      BY <2>5, <3>1 DEF Active
    <3>2. CASE n # id
      <4>1. PICK d \in Calls : d = RPC_STREAMS[n] /\ d = RPC_STREAMS'[n]
        BY <2>5, <2>10, <3>2 DEF StreamInv, TypeOK, StreamTypes
      <4>2. run[d] \in Active /\ stream_id[d] = n
        BY <2>5, <2>10, <3>2, <4>1 DEF StreamInv, StreamsOfActions, Active
      <4>3. d # c
        BY <2>3, <4>2 DEF Active
      <4> QED
        BY <2>5, <4>1, <4>2, <4>3
    <3> QED
      BY <3>1, <3>2
  <2>11. StreamsOfActions'
    BY <2>9, <2>10 DEF StreamsOfActions, Owner, Active
  <2> QED
    BY <2>7, <2>8, <2>11 DEF StreamInv
<1> QED
  BY <1>1, <1>2 DEF Consume

\* An action takes its own stream away, when its callback is back.
LEMMA StreamAct ==
  ASSUME StreamInv, TypeOK', NEW c \in Calls, Act(c) \/ Late(c)
  PROVE  StreamInv'
<1>1. UNCHANGED <<stream_id, pc>>
  BY DEF Act, Late, FindAction, ActionPush, ActionHand, ActionEnd, LateLookup,
         LatePush, callVars
<1>2. \A m \in inbox' : m[1] = "req" => m \in inbox
  <2>1. CASE ActionPush(c)
    <3>1. Owner(c) = c
      BY <2>1 DEF ActionPush, At, StreamInv, StreamsOfActions
    <3> QED
      BY <2>1, <3>1, BindingsAssumption, PublishedMessage
         DEF ActionPush, Kinds, StreamInv, TypeOK
  <2>2. CASE LatePush(c)
    BY <2>2, PublishedMessage DEF LatePush, Kinds, StreamInv, TypeOK
  <2>3. CASE ~ (ActionPush(c) \/ LatePush(c))
    BY <2>3 DEF Act, Late, FindAction, ActionHand, ActionEnd, LateLookup
  <2> QED
    BY <2>1, <2>2, <2>3
<1>3. CASE ~ ActionEnd(c)
  <2>1. UNCHANGED streamVars
    BY <1>3 DEF Act, Late, FindAction, ActionPush, ActionHand, LateLookup, LatePush
  <2>2. CASE \E t \in Topics \cup {Garbage} : FindAction(c, t)
    <3>1. /\ run[c] = "entered" /\ run'[c] \in {"running", "leaving"}
          /\ \A d \in Calls \ {c} : run'[d] = run[d]
      BY <2>2 DEF FindAction, StreamInv, TypeOK, RunTypes
    <3> QED
      BY <1>1, <1>2, <2>1, <3>1, TakenFrame, StreamFrame DEF Active
  <2>3. CASE ~ \E t \in Topics \cup {Garbage} : FindAction(c, t)
    <3>1. run' = run
      BY <1>3, <2>3 DEF Act, Late, ActionPush, ActionHand, LateLookup, LatePush
    <3> QED
      BY <1>1, <1>2, <2>1, <3>1, TakenFrame, StreamFrame
  <2> QED
    BY <2>2, <2>3
<1>4. CASE ActionEnd(c)
  <2>1. PICK id \in 1 .. MaxId : id = stream_id[c]
    BY <1>4 DEF ActionEnd, StreamInv, IdsGiven, Active
  <2>2. /\ run[c] \in Active /\ RPC_STREAMS[id] = c /\ run[c] # "none"
        /\ run' = [run EXCEPT ![c] = "over"] /\ RPC_STREAM_ID' = RPC_STREAM_ID
        /\ RPC_STREAMS' = [RPC_STREAMS EXCEPT ![id] = NoCall]
    BY <1>4, <2>1 DEF ActionEnd, StreamInv, StreamsOfActions, Owner, Active
  <2>3. /\ run'[c] = "over" /\ RPC_STREAMS'[id] = NoCall
        /\ \A d \in Calls \ {c} : run'[d] = run[d]
        /\ \A n \in 1 .. MaxId : n # id => RPC_STREAMS'[n] = RPC_STREAMS[n]
    BY <2>2 DEF StreamInv, TypeOK, RunTypes, StreamTypes
  <2>4. TakenOnce'
    BY <1>1, <1>2, <2>2, <2>3, TakenFrame
  <2>5. IdsGiven'
    BY <1>1, <2>2, <2>3 DEF StreamInv, IdsGiven, Active
  <2>6. ASSUME NEW d \in Calls, run'[d] \in Active PROVE RPC_STREAMS'[stream_id[d]] = d
    <3>1. d # c /\ run[d] \in Active
      BY <2>3, <2>6 DEF Active
    <3>2. RPC_STREAMS[stream_id[d]] = d /\ stream_id[d] \in 1 .. MaxId
      BY <3>1 DEF StreamInv, IdsGiven, StreamsOfActions, Owner, Active
    <3> QED
      BY <2>2, <2>3, <3>1, <3>2
  <2>7. ASSUME NEW n \in 1 .. MaxId, RPC_STREAMS'[n] # NoCall
        PROVE  run'[RPC_STREAMS'[n]] \in Active /\ stream_id[RPC_STREAMS'[n]] = n
    <3>1. n # id /\ RPC_STREAMS'[n] = RPC_STREAMS[n]
      BY <2>3, <2>7
    <3>2. PICK d \in Calls : d = RPC_STREAMS[n]
      BY <2>7, <3>1 DEF StreamInv, TypeOK, StreamTypes
    <3>3. run[d] \in Active /\ stream_id[d] = n /\ d # c
      BY <2>1, <2>7, <3>1, <3>2 DEF StreamInv, StreamsOfActions, Active
    <3> QED
      BY <2>3, <3>1, <3>2, <3>3
  <2>8. StreamsOfActions'
    BY <1>1, <2>6, <2>7 DEF StreamsOfActions, Owner, Active
  <2> QED
    BY <2>4, <2>5, <2>8 DEF StreamInv
<1> QED
  BY <1>3, <1>4

\* Every step keeps the types and the streams.
LEMMA StreamNext == StreamInv /\ [Next]_vars => StreamInv'
<1> SUFFICES ASSUME StreamInv, [Next]_vars PROVE StreamInv'
  OBVIOUS
<1>1. TypeOK
  BY DEF StreamInv
<1>2. CASE \E i \in Instances : Setup(i)
  BY <1>1, <1>2, TypeSetup, StreamSend
<1>3. CASE Consume
  BY <1>1, <1>3, TypeConsume, StreamConsume
<1>4. ASSUME NEW c \in Calls, Send(c) PROVE StreamInv'
  BY <1>1, <1>4, TypeSend, StreamSend
<1>5. ASSUME NEW c \in Calls, Act(c) \/ Late(c) PROVE StreamInv'
  BY <1>5, TypeAct, StreamAct
<1>6. CASE UNCHANGED vars
  <2>1. TypeOK'
    BY <1>1, <1>6, Frames DEF vars, TypeOK
  <2>2. UNCHANGED <<streamVars, stream_id, run, inbox, pc>>
    BY <1>6 DEF vars, runVars, callVars
  <2> QED
    BY <2>1, <2>2, TakenFrame, StreamFrame
<1> QED
  BY <1>2, <1>3, <1>4, <1>5, <1>6 DEF Next

\* The types and the streams are as they should be throughout.
LEMMA StreamInvariant == Spec => []StreamInv
BY StreamInit, StreamNext, PTL DEF Spec

\* RPCBindings stays in its types: in particular the counters hand out ids that
\* the registries have, and what they hold under them are calls and consumers.
THEOREM BindingsTypeCorrect == Spec => []TypeOK
<1>1. StreamInv => TypeOK
  BY DEF StreamInv
<1> QED
  BY <1>1, StreamInvariant, PTL

\* The handle that rpc_on() gives to an action leads to the stream of its own
\* request as long as the action has it, and to none when its callback is back,
\* whatever other actions run in between.
THEOREM StreamsBelongToActions == Spec => []StreamsOfActions
<1>1. StreamInv => StreamsOfActions
  BY DEF StreamInv
<1> QED
  BY <1>1, StreamInvariant, PTL

-----------------------------------------------------------------------------
(* By which action a request is served.                                    *)

\* Messages and the consumers of the queue are for topics that on() registered.
MessagesRegistered ==
  \A m \in inbox :
    m[3] \in Instances => <<"default", m[3], TopicOf[m[2]]>> \in registered
QueueRegistered ==
  \A n \in 1 .. MaxId :
    RPC_CONSUMERS[n] # NoConsumer =>
      <<"queue", RPC_CONSUMERS[n][2], RPC_CONSUMERS[n][3]>> \in registered

\* on() stores the action before it registers the consumers, and only the
\* destructor takes it out of the C++ map.
OnStored ==
  \A i \in Instances, t \in Topics :
    On(i, t) => <<i, t>> \in cpp_actions \/ dtor[i] > 0

\* A request is taken by an instance that registered its topic, and is served or
\* dropped when its action is looked up, not before.
RunnerOn ==
  \A c \in Calls : run[c] # "none" => runner[c] \in Instances /\ On(runner[c], TopicOf[c])
UnservedYet ==
  \A c \in Calls : run[c] \in {"none", "entered"} => served[c] = Garbage /\ c \notin dropped

ServedInv ==
  /\ MessagesRegistered /\ QueueRegistered /\ OnStored
  /\ RunnerOn /\ UnservedYet /\ ServedWhileTopicLives

\* Nothing is registered or served at first.
LEMMA ServedInit == Init => ServedInv
BY DEF Init, ServedInv, MessagesRegistered, QueueRegistered, OnStored, RunnerOn,
       UnservedYet, ServedWhileTopicLives, On

\* A step that takes no request and looks no action up.
LEMMA ServedFrame ==
  ASSUME ServedInv, MessagesRegistered', QueueRegistered', OnStored',
         registered \subseteq registered', stale \subseteq stale',
         \A i \in Instances : dtor[i] > 0 => dtor'[i] > 0,
         UNCHANGED <<runner, served, dropped>>,
         \A c \in Calls : /\ run'[c] # "none" => run[c] # "none"
                          /\ run'[c] \in {"none", "entered"} => run[c] = run'[c]
  PROVE  ServedInv'
<1>1. \A i, t : On(i, t) => On(i, t)'
  BY DEF On
<1>2. RunnerOn'
  BY <1>1 DEF ServedInv, RunnerOn
<1>3. UnservedYet'
  BY DEF ServedInv, UnservedYet
<1>4. ServedWhileTopicLives'
  BY DEF ServedInv, ServedWhileTopicLives
<1> QED
  BY <1>2, <1>3, <1>4 DEF ServedInv

\* Where nothing is set up, what on() did stays.
LEMMA SetupFrame ==
  ASSUME ServedInv, UNCHANGED <<cppVars, coreVars>>,
         \A m \in inbox' \ inbox :
           m[3] \in Instances => <<"default", m[3], TopicOf[m[2]]>> \in registered
  PROVE  /\ MessagesRegistered' /\ QueueRegistered' /\ OnStored'
         /\ registered' = registered /\ stale' = stale /\ dtor' = dtor
<1>1. MessagesRegistered'
  BY DEF ServedInv, MessagesRegistered, coreVars
<1>2. QueueRegistered'
  BY DEF ServedInv, QueueRegistered, coreVars
<1>3. OnStored'
  BY DEF ServedInv, OnStored, On, cppVars, coreVars
<1> QED
  BY <1>1, <1>2, <1>3 DEF cppVars, coreVars

\* Setting up and the destructor.
LEMMA ServedSetup ==
  ASSUME StreamInv, TypeOK', ServedInv, NEW i \in Instances, Setup(i)
  PROVE  ServedInv'
<1>1. UNCHANGED <<inbox, run, runner, served, dropped>>
  BY DEF Setup, SetConsumer, StoreProducer, SetProducer, Destroy, StoreAction,
         Register, StringDies, runVars, histVars
<1>2. \A m \in inbox : m[2] \in Calls
  BY DEF StreamInv, TypeOK, CallTypes
<1>3. ASSUME NEW t \in Topics, Register(i, t) PROVE ServedInv'
  <2>1. /\ <<i, t>> \in cpp_actions /\ UNCHANGED <<cpp_actions, dtor, stale>>
        /\ registered' = registered \cup {<<handler[i], i, t>>}
    BY <1>3 DEF Register, Stored, cppVars
  <2>2. MessagesRegistered'
    BY <1>1, <2>1 DEF ServedInv, MessagesRegistered
  <2>3. QueueRegistered'
    <3> SUFFICES ASSUME NEW n \in 1 .. MaxId, RPC_CONSUMERS'[n] # NoConsumer
                 PROVE  <<"queue", RPC_CONSUMERS'[n][2], RPC_CONSUMERS'[n][3]>>
                          \in registered'
      BY DEF QueueRegistered
    <3>1. CASE RPC_CONSUMERS'[n] = RPC_CONSUMERS[n]
      BY <2>1, <3>1 DEF ServedInv, QueueRegistered
    <3>2. CASE RPC_CONSUMERS'[n] # RPC_CONSUMERS[n]
      <4>1. /\ handler[i] = "queue"
            /\ RPC_CONSUMERS'[n] \in {<<"req", i, t>>, <<"res", i, t>>}
        BY <1>3, <3>2 DEF Register, StreamInv, TypeOK, CoreTypes
      <4> QED
        BY <2>1, <4>1
    <3> QED
      BY <3>1, <3>2
  <2>4. OnStored'
    <3> SUFFICES ASSUME NEW k \in Instances, NEW s \in Topics, On(k, s)'
                 PROVE  <<k, s>> \in cpp_actions' \/ dtor'[k] > 0
      BY DEF OnStored
    <3>1. On(k, s) \/ (k = i /\ s = t)
      BY <2>1 DEF On
    <3> QED
      BY <2>1, <3>1 DEF ServedInv, OnStored
  <2> QED
    BY <1>1, <2>1, <2>2, <2>3, <2>4, ServedFrame
<1>4. CASE Destroy(i)
  <2>1. /\ UNCHANGED <<registered, stale, RPC_CONSUMERS>>
        /\ dtor' = [dtor EXCEPT ![i] = dtor[i] + 1]
        /\ \A a \in cpp_actions : a \in cpp_actions' \/ a[1] = i
    BY <1>4 DEF Destroy, coreVars
  <2>2. /\ dtor'[i] > 0
        /\ \A k \in Instances : dtor[k] > 0 => dtor'[k] > 0
    BY <2>1 DEF StreamInv, TypeOK, CppTypes
  <2>3. MessagesRegistered' /\ QueueRegistered'
    BY <1>1, <2>1 DEF ServedInv, MessagesRegistered, QueueRegistered
  <2>4. OnStored'
    BY <2>1, <2>2 DEF ServedInv, OnStored, On
  <2> QED
    BY <1>1, <2>1, <2>2, <2>3, <2>4, ServedFrame
<1>5. CASE ~ (Destroy(i) \/ \E t \in Topics : Register(i, t))
  <2>1. /\ UNCHANGED <<registered, dtor, RPC_CONSUMERS>>
        /\ stale \subseteq stale' /\ cpp_actions \subseteq cpp_actions'
    BY <1>5 DEF Setup, SetConsumer, StoreProducer, SetProducer, StoreAction,
                StringDies, cppVars, coreVars
  <2>2. MessagesRegistered' /\ QueueRegistered'
    BY <1>1, <2>1 DEF ServedInv, MessagesRegistered, QueueRegistered
  <2>3. OnStored'
    BY <2>1 DEF ServedInv, OnStored, On
  <2> QED
    BY <1>1, <2>1, <2>2, <2>3, ServedFrame
<1> QED
  BY <1>3, <1>4, <1>5

\* The calls of rpc_send() publish to consumers that are registered.
LEMMA ServedSend ==
  ASSUME StreamInv, ServedInv, NEW c \in Calls, Send(c)
  PROVE  ServedInv'
<1>1. UNCHANGED <<cppVars, coreVars, run, runner, served, dropped>>
  BY DEF Send, SendBegin, SendPublish, SendReturn, runVars, histVars
<1>2. \A m \in inbox' \ inbox :
        m[3] \in Instances => <<"default", m[3], TopicOf[m[2]]>> \in registered
  <2>1. CASE SendPublish(c)
    BY <2>1, PublishedMessage DEF SendPublish, Kinds, StreamInv, TypeOK
  <2>2. CASE ~ SendPublish(c)
    BY <2>2 DEF Send, SendBegin, SendReturn
  <2> QED
    BY <2>1, <2>2
<1> QED
  BY <1>1, <1>2, SetupFrame, ServedFrame

\* A request is taken by an instance that registered its topic.
LEMMA ServedConsume ==
  ASSUME StreamInv, ServedInv, Consume
  PROVE  ServedInv'
<1>1. ASSUME NEW m \in inbox, TakeResponse(m) PROVE ServedInv'
  <2>1. /\ UNCHANGED <<cppVars, coreVars, run, runner, served, dropped>>
        /\ inbox' \subseteq inbox
    BY <1>1 DEF TakeResponse, runVars, histVars
  <2> QED
    BY <2>1, SetupFrame, ServedFrame
<1>2. ASSUME NEW m \in inbox, NEW i \in Instances, TakeRequest(m, i) PROVE ServedInv'
  <2>1. PICK c \in Calls : c = m[2]
    BY DEF StreamInv, TypeOK, CallTypes
  <2>2. m[1] = "req" /\ run[c] = "none"
    BY <1>2, <2>1, TakerOfRequest DEF TakeRequest, StreamInv, TypeOK, TakenOnce
  <2>3. On(i, TopicOf[c])
    <3>1. CASE m[3] \in Instances /\ i = m[3]
      BY <2>1, <3>1 DEF ServedInv, MessagesRegistered, On, Brokers
    <3>2. CASE \E n \in 1 .. MaxId : RPC_CONSUMERS[n] = <<"req", i, TopicOf[c]>>
      <4>1. PICK n \in 1 .. MaxId : RPC_CONSUMERS[n] = <<"req", i, TopicOf[c]>>
        BY <3>2
      <4>2. RPC_CONSUMERS[n] # NoConsumer
        BY <4>1 DEF NoConsumer
      <4>3. /\ RPC_CONSUMERS[n][2] = i /\ RPC_CONSUMERS[n][3] = TopicOf[c]
        BY <4>1
      <4> QED
        BY <4>2, <4>3 DEF ServedInv, QueueRegistered, On, Brokers
    <3> QED
      BY <1>2, <2>1, <3>1, <3>2, TakerOfRequest DEF TakeRequest, StreamInv, TypeOK
  <2>4. /\ UNCHANGED <<cppVars, coreVars, served, dropped>> /\ inbox' \subseteq inbox
        /\ run'[c] = "entered" /\ runner'[c] = i
        /\ \A d \in Calls \ {c} : run'[d] = run[d] /\ runner'[d] = runner[d]
    BY <1>2, <2>1 DEF TakeRequest, histVars, StreamInv, TypeOK, RunTypes
  <2>5. /\ MessagesRegistered' /\ QueueRegistered' /\ OnStored'
        /\ UNCHANGED <<registered, stale, dtor>>
    BY <2>4, SetupFrame
  <2>6. \A k, t : On(k, t)' <=> On(k, t)
    BY <2>5 DEF On
  <2>7. RunnerOn'
    BY <2>3, <2>4, <2>6 DEF ServedInv, RunnerOn
  <2>8. UnservedYet'
    BY <2>2, <2>4 DEF ServedInv, UnservedYet
  <2>9. ServedWhileTopicLives'
    BY <2>2, <2>4, <2>5 DEF ServedInv, ServedWhileTopicLives, UnservedYet
  <2> QED
    BY <2>5, <2>7, <2>8, <2>9 DEF ServedInv
<1> QED
  BY <1>1, <1>2 DEF Consume

\* The action is looked up under the topic of the request, and is there.
LEMMA ServedAct ==
  ASSUME StreamInv, ServedInv, NEW c \in Calls, Act(c) \/ Late(c)
  PROVE  ServedInv'
<1>1. UNCHANGED <<cppVars, coreVars, runner>>
  BY DEF Act, Late, FindAction, ActionPush, ActionHand, ActionEnd, LateLookup, LatePush
<1>2. \A m \in inbox' \ inbox :
        m[3] \in Instances => <<"default", m[3], TopicOf[m[2]]>> \in registered
  <2>1. CASE ActionPush(c)
    <3>1. Owner(c) = c
      BY <2>1 DEF ActionPush, At, StreamInv, StreamsOfActions
    <3> QED
      BY <2>1, <3>1, BindingsAssumption, PublishedMessage
         DEF ActionPush, Kinds, StreamInv, TypeOK
  <2>2. CASE LatePush(c)
    BY <2>2, PublishedMessage DEF LatePush, Kinds, StreamInv, TypeOK
  <2>3. CASE ~ (ActionPush(c) \/ LatePush(c))
    BY <2>3 DEF Act, Late, FindAction, ActionHand, ActionEnd, LateLookup
  <2> QED
    BY <2>1, <2>2, <2>3
<1>3. /\ MessagesRegistered' /\ QueueRegistered' /\ OnStored'
      /\ UNCHANGED <<registered, stale, dtor>>
  BY <1>1, <1>2, SetupFrame
<1>4. CASE ~ \E t \in Topics \cup {Garbage} : FindAction(c, t)
  <2>1. UNCHANGED <<served, dropped>>
    BY <1>4 DEF Act, Late, ActionPush, ActionHand, ActionEnd, LateLookup, LatePush,
                histVars
  <2>2. run' = run \/ (run[c] # "none" /\ run' = [run EXCEPT ![c] = "over"])
    BY <1>4 DEF Act, Late, ActionPush, ActionHand, ActionEnd, LateLookup, LatePush
  <2>3. \A d \in Calls : /\ run'[d] # "none" => run[d] # "none"
                         /\ run'[d] \in {"none", "entered"} => run[d] = run'[d]
    BY <2>2 DEF StreamInv, TypeOK, RunTypes
  <2> QED
    BY <1>1, <1>3, <2>1, <2>3, ServedFrame
<1>5. ASSUME NEW t \in Topics \cup {Garbage}, FindAction(c, t) PROVE ServedInv'
  <2>1. /\ run[c] = "entered" /\ run'[c] \in {"running", "leaving"}
        /\ \A d \in Calls \ {c} : run'[d] = run[d]
    BY <1>5 DEF FindAction, StreamInv, TypeOK, RunTypes
  <2>2. /\ dropped \subseteq dropped' /\ \A d \in dropped' : d \in dropped \/ d = c
        /\ \A d \in Calls \ {c} : served'[d] = served[d]
    BY <1>5 DEF FindAction, StreamInv, TypeOK, HistoryTypes
  <2>3. runner[c] \in Instances /\ On(runner[c], TopicOf[c]) /\ TopicOf[c] \in Topics
    BY <2>1, BindingsAssumption DEF ServedInv, RunnerOn
  <2>4. \A k, s : On(k, s)' <=> On(k, s)
    BY <1>3 DEF On
  <2>5. RunnerOn'
    BY <1>1, <2>1, <2>3, <2>4 DEF ServedInv, RunnerOn
  <2>6. UnservedYet'
    BY <2>1, <2>2 DEF ServedInv, UnservedYet
  <2>7. ASSUME <<runner[c], TopicOf[c]>> \notin stale
        PROVE  served'[c] \in {TopicOf[c], Garbage} /\ (c \in dropped' => dtor[runner[c]] > 0)
    <3>1. t = TopicOf[c]
      BY <1>5, <2>7 DEF FindAction, TopicsRead
    <3>2. served[c] = Garbage /\ c \notin dropped
      BY <2>1 DEF ServedInv, UnservedYet
    <3>3. CASE <<runner[c], t>> \in cpp_actions
      BY <1>5, <3>1, <3>2, <3>3 DEF FindAction, StreamInv, TypeOK, HistoryTypes
    <3>4. CASE <<runner[c], t>> \notin cpp_actions
      <4>1. dtor[runner[c]] > 0
        BY <2>3, <3>1, <3>4 DEF ServedInv, OnStored
      <4> QED
        BY <1>5, <3>2, <3>4, <4>1 DEF FindAction
    <3> QED
      BY <3>3, <3>4
  <2>8. ServedWhileTopicLives'
    BY <1>1, <1>3, <2>2, <2>7 DEF ServedInv, ServedWhileTopicLives
  <2> QED
    BY <1>3, <2>5, <2>6, <2>8 DEF ServedInv
<1> QED
  BY <1>4, <1>5

\* Every step keeps it, where the types and the streams are as they should be.
LEMMA ServedNext ==
  StreamInv /\ StreamInv' /\ ServedInv /\ [Next]_vars => ServedInv'
<1> SUFFICES ASSUME StreamInv, StreamInv', ServedInv, [Next]_vars PROVE ServedInv'
  OBVIOUS
<1>1. CASE \E i \in Instances : Setup(i)
  BY <1>1, ServedSetup DEF StreamInv
<1>2. CASE Consume
  BY <1>2, ServedConsume
<1>3. CASE \E c \in Calls : Send(c) \/ Act(c) \/ Late(c)
  BY <1>3, ServedSend, ServedAct
<1>4. CASE UNCHANGED vars
  <2>1. UNCHANGED <<cppVars, coreVars, inbox, run, runner, served, dropped>>
    BY <1>4 DEF vars, runVars, histVars
  <2> QED
    BY <2>1, SetupFrame, ServedFrame
<1> QED
  BY <1>1, <1>2, <1>3, <1>4 DEF Next

\* As long as the topic string that was given to on() lives, action_adapter()
\* serves a request by the action of its own topic; it finds none only when
\* ~RPC() of the instance that took the request has begun.
THEOREM ServedByOwnAction == Spec => []ServedWhileTopicLives
<1>1. ServedInv => ServedWhileTopicLives
  BY DEF ServedInv
<1> QED
  BY <1>1, StreamInvariant, ServedInit, ServedNext, PTL DEF Spec
=============================================================================
