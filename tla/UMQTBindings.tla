------------------------------ MODULE UMQTBindings ------------------------------
(***************************************************************************)
(* The class UMQT of src/transport/umqt.hpp over the umqt_* functions of   *)
(* native/src/lib.rs: its consumers by instance id, the core's consumers   *)
(* by topic, the thread inside start(), and the destructor, which empties  *)
(* the maps but does not end start(). The transport is reduced to what     *)
(* module UMQT says of a reliable job: it is repeated until it arrives,    *)
(* the receiver confirms before it runs the consumer, and send() returns   *)
(* after that.                                                             *)
(***************************************************************************)
EXTENDS Naturals

CONSTANTS
  Instances, Topics, Jobs,
  Sender, Receiver,  \* the instances of each job
  TopicOf,
  Mortal,            \* topics whose string, given to on(), may go
  Garbage, NoJob

ASSUME JobAssumption ==
  /\ Sender \in [Jobs -> Instances] /\ Receiver \in [Jobs -> Instances]
  /\ TopicOf \in [Jobs -> Topics] /\ Mortal \subseteq Topics
  /\ Garbage \notin Topics /\ NoJob \notin Jobs

VARIABLES
  dtor,          \* how far ~UMQT() is: 0 not begun .. 2 done
  cpp_consumers, \* C++: <<instance, topic>> that have a consumer
  UMQT_MAP,      \* the instances that the umqt_* functions find
  consumers,     \* core: <<instance, topic>> that have a consumer
  stale,         \* <<instance, topic>> whose topic string is gone
  serving,       \* the instances with a thread inside start()
  acceptor,      \* per instance, the job whose consumer it is about to run
  pc,            \* per job, its send()
  confirmed,     \* jobs whose confirmation was sent
  handled,       \* history: <<job, topic>>: the consumer of topic got the job
  unserved,      \* history: jobs confirmed with no consumer in the core
  dropped        \* history: jobs that consumer_adapter found no consumer for

setupVars == <<dtor, cpp_consumers, UMQT_MAP, consumers, stale>>
jobVars == <<acceptor, pc, confirmed, handled, unserved, dropped>>
vars == <<setupVars, serving, jobVars>>

Init ==
  /\ dtor = [i \in Instances |-> 0] /\ cpp_consumers = {}
  /\ UMQT_MAP = Instances /\ consumers = {} /\ stale = {} /\ serving = {}
  /\ acceptor = [i \in Instances |-> NoJob]
  /\ pc = [j \in Jobs |-> "idle"]
  /\ confirmed = {} /\ handled = {} /\ unserved = {} /\ dropped = {}

-----------------------------------------------------------------------------
StoreConsumer(i, t) ==
  /\ dtor[i] = 0 /\ <<i, t>> \notin cpp_consumers
  /\ cpp_consumers' = cpp_consumers \cup {<<i, t>>}
  /\ UNCHANGED <<dtor, UMQT_MAP, consumers, stale, serving, jobVars>>

\* Mutant of Stored: the core is called before the map is written.
NotYetStored(i, t) == dtor[i] = 0
Stored(i, t) == <<i, t>> \in cpp_consumers

\* umqt_on(), under a reference to the caller's bytes.
Register(i, t) ==
  /\ Stored(i, t) /\ <<i, t>> \notin consumers
  /\ consumers' = consumers \cup {<<i, t>>}
  /\ UNCHANGED <<dtor, cpp_consumers, UMQT_MAP, stale, serving, jobVars>>

StringDies(i, t) ==
  /\ t \in Mortal /\ <<i, t>> \in consumers
  /\ stale' = stale \cup {<<i, t>>}
  /\ UNCHANGED <<dtor, cpp_consumers, UMQT_MAP, consumers, serving, jobVars>>

\* start() runs in a thread of its own; stop() is called on a living object.
Start(i) ==
  /\ dtor[i] = 0 /\ i \in UMQT_MAP \ serving
  /\ serving' = serving \cup {i}
  /\ UNCHANGED <<setupVars, jobVars>>
Stop(i) ==
  /\ dtor[i] = 0 /\ i \in UMQT_MAP \cap serving /\ acceptor[i] = NoJob
  /\ serving' = serving \ {i}
  /\ UNCHANGED <<setupVars, jobVars>>

\* ~UMQT(), when no on() of the instance is under way.
Destroy(i) ==
  /\ dtor[i] < 2
  /\ dtor[i] = 0 => \A t \in Topics : Stored(i, t) => <<i, t>> \in consumers
  /\ dtor' = [dtor EXCEPT ![i] = @ + 1]
  /\ cpp_consumers' = IF dtor[i] = 0 THEN {k \in cpp_consumers : k[1] # i}
                      ELSE cpp_consumers
  /\ UMQT_MAP' = IF dtor[i] = 1 THEN UMQT_MAP \ {i} ELSE UMQT_MAP
  /\ UNCHANGED <<consumers, stale, serving, jobVars>>

-----------------------------------------------------------------------------
\* umqt_send(): the instance is found once, and kept until send() is over.
SendBegin(j) ==
  /\ pc[j] = "idle" /\ dtor[Sender[j]] = 0
  /\ Sender[j] \in UMQT_MAP \cap serving
  /\ pc' = [pc EXCEPT ![j] = "sending"]
  /\ UNCHANGED <<setupVars, serving, acceptor, confirmed, handled, unserved,
                 dropped>>

\* A copy of the job arrives, perhaps after send() returned: it is confirmed,
\* whoever consumes it, and the consumer is looked up. That is one step: only on()
\* can come between, and it does not see the confirmation.
Receive(j) ==
  LET i == Receiver[j]
  IN  /\ pc[j] # "idle" /\ i \in serving /\ acceptor[i] = NoJob
      /\ confirmed' = confirmed \cup {j}
      /\ \/ /\ <<i, TopicOf[j]>> \in consumers
            /\ acceptor' = [acceptor EXCEPT ![i] = j] /\ UNCHANGED unserved
         \/ /\ <<i, TopicOf[j]>> \notin consumers
            /\ unserved' = unserved \cup {j} /\ UNCHANGED acceptor
      /\ UNCHANGED <<setupVars, serving, pc, handled, dropped>>

\* What consumer_adapter reads for the topic of the consumer.
TopicsRead(i, t) == IF <<i, t>> \in stale THEN Topics \cup {Garbage} ELSE {t}

Found(i, t) == cpp_consumers \cap {<<i, t>>}

\* consumer_adapter(): the consumer of the instance and of the topic it reads.
Consume(i, t) ==
  LET j == acceptor[i]
  IN  /\ j # NoJob /\ t \in TopicsRead(i, TopicOf[j])
      /\ \/ \E k \in Found(i, t) :
              handled' = handled \cup {<<j, k[2]>>} /\ UNCHANGED dropped
         \/ /\ Found(i, t) = {}
            /\ dropped' = dropped \cup {j} /\ UNCHANGED handled
      /\ acceptor' = [acceptor EXCEPT ![i] = NoJob]
      /\ UNCHANGED <<setupVars, serving, pc, confirmed, unserved>>

SendReturn(j) ==
  /\ pc[j] = "sending" /\ j \in confirmed /\ Sender[j] \in serving
  /\ pc' = [pc EXCEPT ![j] = "returned"]
  /\ UNCHANGED <<setupVars, serving, acceptor, confirmed, handled, unserved,
                 dropped>>

Next ==
  \/ \E i \in Instances :
       \/ Start(i) \/ Stop(i) \/ Destroy(i)
       \/ \E t \in Topics :
            StoreConsumer(i, t) \/ Register(i, t) \/ StringDies(i, t)
       \/ \E t \in Topics \cup {Garbage} : Consume(i, t)
  \/ \E j \in Jobs : SendBegin(j) \/ Receive(j) \/ SendReturn(j)

Spec == Init /\ [][Next]_vars

-----------------------------------------------------------------------------
(* Properties.                                                             *)

\* A reliable send() that has returned was heard: the consumer of its own topic
\* got the job or is about to. Else the receiver confirmed a job that nobody
\* got: it had no consumer yet, its destructor had begun while start() went on,
\* or the string of the topic was gone.
ReturnedIsHandled ==
  \A j \in Jobs :
    LET i == Receiver[j]
    IN  pc[j] = "returned" =>
          \/ <<j, TopicOf[j]>> \in handled \/ acceptor[i] = j
          \/ j \in unserved
          \/ j \in dropped /\ dtor[i] > 0
          \/ <<i, TopicOf[j]>> \in stale
=============================================================================
