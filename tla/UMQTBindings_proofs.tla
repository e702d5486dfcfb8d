-------------------------- MODULE UMQTBindings_proofs --------------------------
(***************************************************************************)
(* Theorems about UMQTBindings, for every set of instances, topics, jobs.  *)
(***************************************************************************)
EXTENDS UMQTBindings, TLAPS

\* The types of the variables that the properties depend on.
Types ==
  /\ dtor \in [Instances -> 0 .. 2]
  /\ cpp_consumers \subseteq Instances \X Topics
  /\ consumers \subseteq Instances \X Topics
  /\ acceptor \in [Instances -> Jobs \cup {NoJob}]
  /\ pc \in [Jobs -> {"idle", "sending", "returned"}]
  /\ confirmed \subseteq Jobs

\* What the core calls the adapter for, the C++ map has until the destructor.
CoreInMap ==
  \A i \in Instances, t \in Topics :
    <<i, t>> \in consumers => <<i, t>> \in cpp_consumers \/ dtor[i] > 0

\* The acceptor runs a consumer of the core, and on the receiver of the job.
AtReceiver ==
  \A i \in Instances : \A j \in Jobs :
    acceptor[i] = j => Receiver[j] = i /\ <<i, TopicOf[j]>> \in consumers

\* Where a confirmed job is, or why nobody got it.
Accounted(j) ==
  LET i == Receiver[j]
  IN  \/ <<j, TopicOf[j]>> \in handled \/ acceptor[i] = j
      \/ j \in unserved
      \/ j \in dropped /\ dtor[i] > 0
      \/ <<i, TopicOf[j]>> \in stale
ConfirmedAccounted == \A j \in confirmed : Accounted(j)

ReturnedConfirmed == \A j \in Jobs : pc[j] = "returned" => j \in confirmed

BindingsInv ==
  /\ Types /\ CoreInMap /\ AtReceiver /\ ConfirmedAccounted
  /\ ReturnedConfirmed

LEMMA BindingsInit == Init => BindingsInv
BY JobAssumption
   DEF Init, BindingsInv, Types, CoreInMap, AtReceiver, ConfirmedAccounted,
       ReturnedConfirmed

\* on(), and the string of its topic.
LEMMA BindingsSetup ==
  ASSUME BindingsInv, NEW i \in Instances, NEW t \in Topics,
         StoreConsumer(i, t) \/ Register(i, t) \/ StringDies(i, t)
  PROVE  BindingsInv'
<1>1. UNCHANGED <<dtor, serving, jobVars>> /\ cpp_consumers \subseteq cpp_consumers'
      /\ consumers \subseteq consumers' /\ stale \subseteq stale'
  BY DEF StoreConsumer, Register, StringDies
<1>2. Types'
  BY DEF BindingsInv, Types, StoreConsumer, Register, StringDies, jobVars
<1>3. CoreInMap'
  BY <1>1 DEF BindingsInv, CoreInMap, StoreConsumer, Register, StringDies, Stored
<1>4. AtReceiver'
  BY <1>1 DEF BindingsInv, AtReceiver, jobVars
<1>5. ConfirmedAccounted'
  BY <1>1 DEF BindingsInv, ConfirmedAccounted, Accounted, jobVars
<1>6. ReturnedConfirmed'
  BY <1>1 DEF BindingsInv, ReturnedConfirmed, jobVars
<1> QED
  BY <1>2, <1>3, <1>4, <1>5, <1>6 DEF BindingsInv

\* start(), stop() and the destructor: none of them gives a job to anyone.
LEMMA BindingsLife ==
  ASSUME BindingsInv, NEW i \in Instances, Start(i) \/ Stop(i) \/ Destroy(i)
  PROVE  BindingsInv'
<1>1. UNCHANGED <<consumers, stale, jobVars>>
  BY DEF Start, Stop, Destroy, setupVars
<1>2. \A k \in Instances : dtor[k] > 0 => dtor'[k] > 0
  BY DEF BindingsInv, Types, Start, Stop, Destroy, setupVars
<1>3. Types'
  BY <1>1 DEF BindingsInv, Types, Start, Stop, Destroy, setupVars, jobVars
<1>4. CoreInMap'
  <2>1. ASSUME NEW k \in Instances, NEW t \in Topics, <<k, t>> \in consumers
        PROVE  <<k, t>> \in cpp_consumers' \/ dtor'[k] > 0
    <3>1. <<k, t>> \in cpp_consumers \/ dtor[k] > 0
      BY <2>1 DEF BindingsInv, CoreInMap
    <3>2. CASE <<k, t>> \in cpp_consumers /\ <<k, t>> \notin cpp_consumers'
      <4>1. Destroy(i) /\ dtor[i] = 0 /\ k = i
        BY <3>2 DEF Start, Stop, Destroy, setupVars
      <4> QED
        BY <4>1 DEF BindingsInv, Types, Destroy
    <3> QED
      BY <3>1, <3>2, <1>2
  <2> QED
    BY <2>1, <1>1 DEF CoreInMap
<1>5. AtReceiver'
  BY <1>1 DEF BindingsInv, AtReceiver, jobVars
<1>6. ConfirmedAccounted'
  <2>1. confirmed \subseteq Jobs
    BY DEF BindingsInv, Types
  <2> QED
    BY <1>1, <1>2, <2>1, JobAssumption
       DEF BindingsInv, ConfirmedAccounted, Accounted, jobVars
<1>7. ReturnedConfirmed'
  BY <1>1 DEF BindingsInv, ReturnedConfirmed, jobVars
<1> QED
  BY <1>3, <1>4, <1>5, <1>6, <1>7 DEF BindingsInv

\* send() begins and ends.
LEMMA BindingsSend ==
  ASSUME BindingsInv, NEW j \in Jobs, SendBegin(j) \/ SendReturn(j)
  PROVE  BindingsInv'
<1>1. UNCHANGED <<setupVars, acceptor, confirmed, handled, unserved, dropped>>
  BY DEF SendBegin, SendReturn
<1>2. ReturnedConfirmed'
  BY <1>1 DEF BindingsInv, Types, ReturnedConfirmed, SendBegin, SendReturn
<1>3. Types'
  BY <1>1 DEF BindingsInv, Types, SendBegin, SendReturn, setupVars
<1>4. CoreInMap' /\ AtReceiver'
  BY <1>1 DEF BindingsInv, CoreInMap, AtReceiver, setupVars
<1>5. ConfirmedAccounted'
  BY <1>1 DEF BindingsInv, ConfirmedAccounted, Accounted, setupVars
<1> QED
  BY <1>2, <1>3, <1>4, <1>5 DEF BindingsInv

\* A job arrives: the acceptor is free, so it loses none that it had.
LEMMA BindingsReceive ==
  ASSUME BindingsInv, NEW j \in Jobs, Receive(j)
  PROVE  BindingsInv'
<1> DEFINE i == Receiver[j]
<1>1. i \in Instances /\ TopicOf[j] \in Topics /\ acceptor[i] = NoJob
  BY JobAssumption DEF Receive
<1>2. /\ UNCHANGED <<setupVars, pc, handled, dropped>>
      /\ confirmed' = confirmed \cup {j} /\ unserved \subseteq unserved'
  BY DEF Receive
<1>3. \/ /\ <<i, TopicOf[j]>> \in consumers
         /\ acceptor' = [acceptor EXCEPT ![i] = j]
      \/ j \in unserved' /\ acceptor' = acceptor
  BY DEF Receive
<1>4. Types'
  BY <1>1, <1>2, <1>3 DEF BindingsInv, Types, setupVars
<1>5. AtReceiver'
  BY <1>1, <1>2, <1>3 DEF BindingsInv, Types, AtReceiver, setupVars
<1>6. ConfirmedAccounted'
  <2>1. Accounted(j)'
    BY <1>1, <1>2, <1>3 DEF BindingsInv, Types, Accounted
  <2>2. ASSUME NEW k \in confirmed, k # j PROVE Accounted(k)'
    <3>1. Accounted(k) /\ k \in Jobs /\ Receiver[k] \in Instances
      BY JobAssumption DEF BindingsInv, Types, ConfirmedAccounted
    <3>2. acceptor[Receiver[k]] = k => acceptor'[Receiver[k]] = k
      BY <1>1, <1>3, <3>1, JobAssumption DEF BindingsInv, Types
    <3> QED
      BY <1>2, <3>1, <3>2 DEF Accounted, setupVars
  <2> QED
    BY <1>2, <2>1, <2>2 DEF ConfirmedAccounted
<1>7. CoreInMap' /\ ReturnedConfirmed'
  BY <1>2 DEF BindingsInv, CoreInMap, ReturnedConfirmed,
              setupVars
<1> QED
  BY <1>4, <1>5, <1>6, <1>7 DEF BindingsInv

\* The adapter reads the topic of the job unless its string is gone, and finds
\* its consumer unless the destructor has begun.
LEMMA BindingsConsume ==
  ASSUME BindingsInv, NEW i \in Instances, NEW t \in Topics \cup {Garbage},
         Consume(i, t)
  PROVE  BindingsInv'
<1> PICK j \in Jobs : acceptor[i] = j
  BY DEF BindingsInv, Types, Consume
<1>1. Receiver[j] = i /\ <<i, TopicOf[j]>> \in consumers
  BY DEF BindingsInv, Types, AtReceiver, Consume
<1>2. TopicOf[j] \in Topics
  BY <1>1, JobAssumption
<1>3. /\ UNCHANGED <<setupVars, pc, confirmed, unserved>>
      /\ acceptor' = [acceptor EXCEPT ![i] = NoJob]
      /\ handled \subseteq handled' /\ dropped \subseteq dropped'
  BY DEF Consume
<1>4. <<i, TopicOf[j]>> \in stale \/ t = TopicOf[j]
  BY DEF Consume, TopicsRead
<1>5. \A e \in handled' : e \in handled \/ e = <<j, t>>
  BY DEF Consume, Found
<1>6. Types' /\ AtReceiver'
  BY <1>3, JobAssumption DEF BindingsInv, Types, AtReceiver, setupVars
<1>7. ConfirmedAccounted'
  <2>1. Accounted(j)'
    <3>1. CASE <<i, TopicOf[j]>> \in stale
      BY <1>1, <1>3, <3>1 DEF Accounted, setupVars
    <3>2. CASE <<i, TopicOf[j]>> \in cpp_consumers /\ t = TopicOf[j]
      <4>1. Found(i, t) = {<<i, t>>}
        BY <3>2 DEF Found
      <4>2. \E k \in Found(i, t) : handled' = handled \cup {<<j, k[2]>>}
        BY <4>1 DEF Consume
      <4>3. <<j, t>> \in handled'
        BY <4>1, <4>2
      <4> QED
        BY <4>3, <3>2, <1>1 DEF Accounted
    <3>3. CASE <<i, TopicOf[j]>> \notin cpp_consumers /\ t = TopicOf[j]
      <4>1. Found(i, t) = {}
        BY <3>3 DEF Found
      <4>2. j \in dropped' /\ dtor'[i] > 0
        BY <4>1, <3>3, <1>1, <1>2, <1>3
           DEF BindingsInv, CoreInMap, Consume, setupVars
      <4> QED
        BY <4>2, <1>1 DEF Accounted
    <3> QED
      BY <1>4, <3>1, <3>2, <3>3
  <2>2. ASSUME NEW k \in confirmed, k # j PROVE Accounted(k)'
    <3>1. Accounted(k) /\ k \in Jobs /\ Receiver[k] \in Instances
      BY JobAssumption DEF BindingsInv, Types, ConfirmedAccounted
    <3>2. acceptor[Receiver[k]] = k => acceptor'[Receiver[k]] = k
      BY <1>3, <2>2, <3>1 DEF BindingsInv, Types
    <3> QED
      BY <1>3, <3>1, <3>2 DEF Accounted, setupVars
  <2> QED
    BY <1>3, <2>1, <2>2 DEF ConfirmedAccounted
<1>8. CoreInMap' /\ ReturnedConfirmed'
  BY <1>3 DEF BindingsInv, CoreInMap, ReturnedConfirmed, setupVars
<1> QED
  BY <1>6, <1>7, <1>8 DEF BindingsInv

\* BindingsInv is inductive.
LEMMA BindingsNext == BindingsInv /\ [Next]_vars => BindingsInv'
<1> SUFFICES ASSUME BindingsInv, [Next]_vars PROVE BindingsInv'
  OBVIOUS
<1>1. ASSUME NEW i \in Instances, Start(i) \/ Stop(i) \/ Destroy(i)
      PROVE  BindingsInv'
  BY <1>1, BindingsLife
<1>2. ASSUME NEW i \in Instances, NEW t \in Topics,
             StoreConsumer(i, t) \/ Register(i, t) \/ StringDies(i, t)
      PROVE  BindingsInv'
  BY <1>2, BindingsSetup
<1>3. ASSUME NEW i \in Instances, NEW t \in Topics \cup {Garbage}, Consume(i, t)
      PROVE  BindingsInv'
  BY <1>3, BindingsConsume
<1>4. ASSUME NEW j \in Jobs, SendBegin(j) \/ SendReturn(j) PROVE BindingsInv'
  BY <1>4, BindingsSend
<1>5. ASSUME NEW j \in Jobs, Receive(j) PROVE BindingsInv'
  BY <1>5, BindingsReceive
<1>6. CASE UNCHANGED vars
  BY <1>6
     DEF vars, setupVars, jobVars, BindingsInv, Types, CoreInMap, AtReceiver,
         ConfirmedAccounted, Accounted, ReturnedConfirmed
<1> QED
  BY <1>1, <1>2, <1>3, <1>4, <1>5, <1>6 DEF Next

LEMMA BindingsInvariant == Spec => []BindingsInv
BY BindingsInit, BindingsNext, PTL DEF Spec

\* A reliable send() that has returned was heard, or one of the three reasons
\* why its receiver had no consumer for the job holds.
THEOREM SendIsHeard == Spec => []ReturnedIsHandled
<1>1. BindingsInv => ReturnedIsHandled
  BY DEF BindingsInv, ReturnedConfirmed, ConfirmedAccounted, Accounted,
         ReturnedIsHandled
<1> QED
  BY <1>1, BindingsInvariant, PTL
=============================================================================
