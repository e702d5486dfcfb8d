# Verification of Arnelify Broker

TLA+ models of the broker in this repository: its UDP transport UMQT, its RPC
layer, the frames both exchange, and the C++ classes over both. TLC checks the
models on small instances; TLAPS proves the main safety properties for every
value of the constants. Source paths are relative to the repository's root.

## The system

| component | source | state | operations |
| - | - | - | - |
| UMQT transport | `native/src/transport/umqt.rs` | `topic_servers`, `consumers`, the socket, `jobs`, `notify_discovery`, `notify_sent`, `notify_finish` by request id, retransmission tasks | `add_server`, `on`, `send`, `start`, `stop`, the acceptor |
| RPC layer | `native/src/rpc/main.rs` | the global `MAP` of reply channels by request id, consumers by topic, `cb_consumer`, `cb_producer`, a runtime with four workers that the default producer owns | `on`, three forms of `send`, the same three on a stream, three of `push`, `set_consumer`, `set_producer` |
| frame codec | `RPCReq`, `UMQTReq` in the same files | a buffer, the lengths, the fields | `add`, `read_block`, `reset` |
| FFI | `native/src/lib.rs` | maps of instances, consumers and streams by integer handle, and the counters that give the handles | `rpc_*`, `umqt_*` |
| C++ wrappers | `src/rpc/main.hpp`, `src/transport/umqt.hpp` | maps of actions, producers and consumers by instance and topic | forwarding to the FFI, adapters for its callbacks, destructors |

How they interact: a `send()` of UMQT runs on an application thread (`block_on`)
and shares the four maps with the acceptor, which runs in the thread inside
`start()`; they meet through `Notify`s, each of which stores one permit. The
RPC layer publishes frames through a producer and gets them through consumers.
By default both ends are a map of consumers and a tokio runtime of its own;
`set_producer` and `set_consumer` put a broker of the application there. Through
the FFI every callback is a C function pointer, and the wrapper's adapter finds
the C++ callback in a map again, by instance id and topic.

What is hard, and what makes each component correct:

* **UMQT.** Queries are repeated every 300 ms to all servers of the topic, and
  several answer. One of them must get the job, and only one. The maps are
  changed in separate critical sections, some of them while `select!` may drop
  the acceptor. A reliable job is repeated until it is confirmed; a caller must
  not return before, must not wait for ever, and must leave nothing behind.
* **RPC.** Each caller must get the answer to its own request, though responses
  run concurrently, actions answer several times, and the id is the clock. An
  action that calls `send()` blocks a worker. The brokers can be replaced while
  `on()`, `send()` and actions are at work, which may end the runtime.
* **Codec.** One reader state machine for whole, cut and malformed datagrams.
  Nothing but a complete frame may be acted on.
* **FFI and wrappers.** Two maps, one on each side, that are filled and emptied
  in an order, while callbacks on other threads look things up in both: a
  request must find its own action, a stream its own caller, and the end of one
  instance must not take anything from another.

`PROJECT.json` lists the hazards line by line, with the properties that cover
them and the reasons where none does.

## Modules

| module | what it is |
| - | - |
| `Delivery` | what UMQT promises about a call of `send()`: the abstract specification |
| `UMQT` | the transport, and UDP between nodes; implements `Delivery` |
| `MCUMQT` | its small instances, one `.cfg` per question |
| `UMQT_proofs` | proofs of its types, `OneServer` and `ReturnedWasReceived` |
| `UMQT_refinement_proofs` | proofs of `UnreliableOnce`, and that it implements `Delivery` |
| `UMQT_waiting_proofs` | proofs of `NeverStranded` and `NothingLeftBehind` |
| `RequestReply` | what RPC promises about a call of `send()` and the action it meets: the abstract specification |
| `RPC` | the RPC layer over its default broker, and the change to another one; implements `RequestReply` |
| `MCRPC` | its small instances |
| `RPC_proofs` | proofs of what needs nothing of ids: its types, `TopicIsWhole`, `PendingIffInMap`, `WaitingIsAccountedFor`, `CollisionsAreContained` |
| `RPC_answer_proofs` | proofs of what needs distinct ids: `AnswersOwnRequest`, `SelfWaitIsForever`, `CoveredIsAnswered`, and that it implements `RequestReply` |
| `RPCBindings` | class `RPC` over the FFI over the layer, with brokers of the application |
| `MCRPCBindings` | its small instances |
| `RPCBindings_proofs` | proofs of its types, `StreamsOfActions`, `ServedWhileTopicLives` |
| `UMQTBindings` | class `UMQT` over the FFI over the transport |
| `MCUMQTBindings` | its small instance |
| `UMQTBindings_proofs` | proof of its property |
| `FrameReader` | the reader of frames, on every frame and cut within bounds |
| `FrameReader_proofs` | proofs of its two properties, without the bounds |

The layers are composed by what the lower one promises. `UMQTBindings` uses
of the transport what `UMQT` shows of a reliable job; `RPCBindings` uses of the
layer what `RPC` shows of a request and its response; `UMQT` takes a cut
datagram for nothing because `FrameReader` shows that it is.

### UMQT and the code

A node is one `UMQT` instance in one process, and its socket address. A call of
`send()` is a member of `Calls`; `NodeOf`, `TopicOf` and `Reliable` are its
arguments. The call's name stands for its payload in `jobs` and in datagrams,
and for its three `Notify`s. `permits` holds the ones with a permit. `Oversized`
says which job does not fit the block of which node.

`pc[c]` walks through `send()` one critical section per step: `SendLookup`,
`SendSocket` or `SendExit`, the insertions in the order of the code, and then
the loop `SendTick`/`SendDiscovered`, and `SendFinished` for a reliable call. A
topic no server was ever added for ends it as `"unrouted"`. `acc[n]` is where
the thread in `start()` is: `"recv"` at `recv_from`; `"v_job"`, `"v_sent"`,
`"x_sent"` and `"handler"` between the critical sections of one iteration; and
`"closing"` after the loop. `"v_sent"` and `"x_sent"` are await points, at which
`select!` may take the shutdown branch (`Break`) and drop what was to follow;
the others run to the end of their poll. `Stop` wakes the `Notified` of the
present turn only (`Woken`), as `notify_waiters` does. `StartBind` needs the
port (`PortFree`): calls and tasks hold clones of the old socket.

`net` is the set of datagrams under way. Reception may leave a datagram in it
(`Duplicating`), and `Lose` drops one; no order is kept. The set cannot hold the
same datagram twice. Two copies that are the same are told apart from one only
by being delivered twice, which duplication allows and repeated sending brings
about. A lost datagram is dropped when its receiver would have read it: earlier
makes no difference to any process.

Ids are any members of `Ids`; with `DistinctIds` no node repeats one. Otherwise
any id may come again.

`Delivery` has five variables: the servers a call asks, the one that was chosen,
where the job arrived, how often it was handled, and which calls returned. In
`UMQT` these are `targets`, the history `winner`, `received`, `handled`, and the
calls with `pc` at `"returned"`. The abstract `Handle` allows repetition for a
reliable job, which the receiver does not recognise as one it has handled, and
for the others only where the network duplicates.

### RPC and the code

`consumers` is the map of consumers, of the default broker and of another one.
`on()` is `OnRequests`, then `OnResponses`; in between, the broker has the topic
by `Half`. It may come again for a topic: with the same broker and the same
action that changes nothing, after `set_consumer` it registers the topic with the
other broker too. `Switches` says which of `set_consumer` and `set_producer` an
instance calls.
`ready`, `slot` and `running` are the runtime: a task spawned on a worker goes
to that worker's own slot, which no other worker can steal from, or to the
shared queue. `Program[c]` is what the application's action does with the
request of call `c`: pushes and nested calls. `SendInsert`, `SendPublish`,
`SendReceive` and `SendPanic` are the steps of `send()`. `TakeRequest` and
`StartAction` are the consumer of requests, before and after it takes the lock
of the producer to clone it for the stream (`via`); `RunResponse` is the
consumer of responses, which finds the channel by the id in the frame (`IdOf`),
and `ActionPush` is `push()`. The stream ends with its action. `lost`, `covered`,
`responded`, `answer` and `abroad` are history. Three forms of `send` and three
of `push` differ in the payload only.

`SetConsumer` waits for the lock that `on()` holds for both its consumers
(`Registering`). `SetProducer` drops the default producer, and with it the
runtime unless the stream of some action has a clone (`Holders`); then the last
of these actions drops it (`Leave`). A caller of `set_producer` that drops the
runtime holds the producer's lock meanwhile (`setting`) and waits for the
workers to finish what they run (`SetProducerReturn`); what is queued is dropped
(`DropTask`). A message that goes to the other broker is `abroad`, and this
module says no more about it.

`RequestReply` has five sets of calls: those sent, those returned, those whose
action has begun, is over, or has pushed. In `RPC` the first two are in `pc`;
the others are in `running` and `pos`: an action has begun when a worker runs it
or it has come to a step, is over when it has come to a step and no worker runs
it, and has pushed when it is past a push. Ids, channels, consumers, queues,
slots, brokers and the end of the runtime are not in it. It promises no answer:
what a caller may wait for in vain is in `WaitingIsAccountedFor`,
`CoveredIsAnswered` and `HangsOnlyByNesting`.

### RPCBindings and the code

`cpp_actions` and `cpp_producers` are the maps of class `RPC`; `RPC_MAP`,
`RPC_CONSUMERS`, `RPC_STREAMS` and the two counters are those of the FFI;
`handler`, `producer` and `registered` are what the core keeps. `plan` is the
broker that the application plugs into each instance: the default one; a
`"queue"` that all instances share, which calls a consumer by its id in
`RPC_CONSUMERS`; or a `"direct"` one that calls the consumer from inside the
producer, and is stuck on its lock (`Locked`).

`on()` is `StoreAction`, then `Register`; `set_producer()` is `StoreProducer`,
then `SetProducer`. `~RPC()` is three `Destroy` steps: the actions, the
producers, `rpc_destroy()`. It leaves the core and the queue as they are.
`SendBegin` finds the instance by id, or gets a null pointer, which becomes an
exception (`Throw`); an action may catch it and go on (`Resume`), and if it does
not, the exception meets the frames of `rpc_on()`, which cannot unwind, and the
process ends (`aborted`).
`SendReturn` may throw as well, for a response with a zero byte (`ZeroBytes`).

The closure of `rpc_on()` is `TakeRequest`, which files the stream;
`FindAction`, where `action_adapter` looks the topic up in a copy of the
instance's actions; and `ActionEnd`, which takes the stream out. The closure
keeps a reference to the caller's topic string; when that is gone (`StringDies`)
the lookup may read any topic, or none (`TopicsRead`). `ActionHand` passes the
handle to another thread, whose `LateLookup` and `LatePush` are one `rpc_push`.

The core is reduced to messages in `inbox` and to `MAP` and `chan`; there is a
worker for every request, as what happens without is in `RPC`.

### UMQTBindings and the code

`cpp_consumers` is the map of class `UMQT`, `UMQT_MAP` the map of instances of
the FFI, `consumers` those of the core. `on()` is `StoreConsumer`, then
`Register`; `~UMQT()` is two `Destroy` steps and does not end `start()`.
`Receive` is a copy of a reliable job that arrives at a serving instance, before
or after its `send()` returned: it is confirmed, and the acceptor goes on to the
consumer of its topic, if the core has one. That is one step: of what can come in
between, only `on()` matters to the lookup, and it does not see the confirmation.
`Consume` is `consumer_adapter`. `umqt_send` and `umqt_on` pass to the
core the same kind of reference to the topic as `rpc_on` does.

### FrameReader and the code

A frame is two lengths and a fault, or none; a byte is its part and its place. A
datagram is the first `size` bytes of it. The lengths in a frame bounded by four
put a cut before, inside and at the end of each part, with the json longer than,
as long as and shorter than the binary, which is what the guards tell apart.

`OnlyWholeIsActedOn` is what lets `UMQT` treat a cut datagram as nothing
(`RecvTruncated`): the reader does take json bytes for the binary when a cut
leaves enough of them, but with default fields, so as an unreliable job of the
topic with no name. A node that registers a handler for `""` would get it; the
models have no such topic.

## Runs

Each takes about a minute and a half or less with two workers.

| run | instance | shows |
| - | - | - |
| `umqt_one_send` | one reliable call, two servers with handlers (one its own node), one stop of the sender, duplication; 220 000 states | `OneServer`, `NeverStranded`, `NothingLeftBehind`, `Delivers` |
| `umqt_two_sends` | a reliable and an unreliable call, one remote server, one stop of the sender, duplication | `TypeOK`, `ReturnedWasReceived`, `NeverStranded` |
| `umqt_unreliable` | one unreliable call, two servers with handlers, no duplication, a stop of each node, fairness; 72 000 states | `UnreliableOnce`, `SendReturns`, `Delivers` |
| `umqt_live_reliable` | one reliable call, two servers, one with a block too small for the job, one that is stopped and may start again, fairness; 45 000 states | `ReturnedWasReceived`, `SendReturns`, `RetransmissionEnds` |
| `rpc_nested` | three calls, two topics, two workers, an action that calls `send()` and then answers twice, `set_consumer` at any time; 524 000 states | `TypeOK`, `AnswersOwnRequest`, `PendingIffInMap`, `CoveredIsAnswered`, `SelfWaitIsForever` |
| `rpc_switching` | the same calls on one topic, with two ids for the three, `set_consumer` and `set_producer` at any time; 609 000 states | `WaitingIsAccountedFor`, `TopicIsWhole`, `CollisionsAreContained` |
| `rpc_live` | four calls, actions that call `send()` in a chain, two workers, `set_producer` at any time, fairness; 82 000 states | `HangsOnlyByNesting`, `SetProducerReturns`, `Replies` |
| `rpc_ids` | ids that repeat | `NoRecvPanic` is violated: see Findings |
| `rpc_bindings` | two instances, both on a shared queue, or one of them on its default broker or on a direct one; a nested call, which the action may have to catch an exception from, a push of another thread, a zero byte, a topic string that dies, both destructors, fairness; 167 000 states | `TypeOK`, `StreamsOfActions`, `ServedWhileTopicLives`, `HangsOnlyIfAbandoned` |
| `rpc_bindings_topic` | one instance, two topics, one call | `ServedByItsTopic` is violated: see Findings |
| `umqt_bindings` | two instances, a job to the other one and one to itself, a topic string that dies, stops, restarts, both destructors; 376 000 states | `ReturnedIsHandled` |
| `frame_reader` | every frame and cut, lengths up to four, all faults | `WholeIsRead`, `OnlyWholeIsActedOn` |

Bounds: `MaxStops` is how often each node is stopped, `HandledCap` is where the
history counter `handled` saturates, `MaxId` is how many ids the counters of
`RPCBindings` give (`Register` and `TakeRequest` stop there), lengths of frames
go up to four. Why they are enough: two servers are what it takes to
have two answers, and two calls of one node what it takes to mix up entries; the
repetitions of a call are not bounded, because the network is a set. Every kind
of datagram can be late with respect to every step of the call. Three RPC calls
allow two on one topic next to a nested one on another; a chain of two nested
calls makes two workers wait, as one of four does with the four workers of the
code. Two instances of a class are what it takes for one to take what the other
could serve; a producer or a consumer that was replaced once is replaced by one
that does not own a runtime, so a second replacement would add nothing.
Liveness of two UMQT calls at once is beyond the time a run may take.

Deadlock is not checked in these runs: when all calls have returned or hang and
nobody calls the library any more, the system does stop. That a thread waits for
ever is what the liveness properties are about.

### Fairness

Application threads inside a call, and tokio tasks and workers, are scheduled
(weak fairness of `SendStep`, `SendTick`, `AcceptorStep`, the tasks and the
workers; in `RPC` also of the end of the runtime, `DropTask` and
`SetProducerReturn`; in `RPCBindings` of every step of a call, its action and
its late push, and of the broker's delivery). A node that is to run calls
`start()` again after a stop (`StartStep`). Nobody has to call `send`,
`add_server`, `on`, `stop`, `set_producer` or a destructor. UDP is fair-lossy:
of the datagrams of one kind for one call, repeated without end, one is received
at last (strong fairness of `ReceiveFor`); without that no retransmission scheme
delivers. After `stop()` a waiting `send()` of that node may never return:
`GivenUp` in the liveness properties of UMQT names that, the exit of a process,
and a server without room for the job, and nothing else.

What may hang in RPC is stated with its causes. `HangsOnlyByNesting` excuses a
call that is `Hopeless`: it is in a set of calls each of which is lost or with
another broker, or waits for one of the set (`Awaits`: for the calls its own
action makes, and for those of the worker whose slot it sits in). Besides that
there are only all workers waiting, and `Cornered`. In `HangsOnlyIfAbandoned` the
causes are those of `Abandoned`, of the call or of a call that its action makes,
and the end of the process. Both were checked with each cause, and each part of
`Awaits`, left out in turn: in these instances each property then fails, so every
cause does occur and is needed. That the instance a call was sent on is destroyed
is not among them: it takes no answer away.

## Proofs

Every invariant and action property of the passing runs, and both refinements,
are theorems. The assumptions on constants are the `ASSUME`s of the modules, that is,
their types, and two more where they are named:

* `DistinctIds`: the clock never gives a node, or a process of RPC, the same id
  twice. The code takes its ids from the nanoseconds of the wall clock and checks
  nothing, so it relies on this; the theorems without it hold of colliding ids
  too, and `rpc_ids` shows what happens to the others.
* `"producer" \notin Switches`: nobody calls `set_producer`. Only
  `CoveredIsAnswered` needs it: replacing the producer does lose requests.

None of the invariants below is in the module it is about: they are in the
proofs, a conjunct for each fact, and most properties need the ones before.

**`UMQT`**

* `TypeCorrect`: `Spec => []TypeOK`, one lemma per group of actions.
* `JobReachesOneServer`: `Spec => []OneServer`. `OneServer` speaks of what was
  received, so it is not inductive. `OneServerInv` follows the copies of a job:
  what is in `jobs` belongs to the call that put it there (`JobsOwned`); a copy
  in the network, in a task or in the acceptor's hands belongs to a call whose
  job is gone from `jobs` (`CopiesOwned`); all copies of a job go to one server
  (`CopiesAgree`), the one that received it (`ReceivedAgree`). Only `VJob` makes
  a first copy, and it takes the job out of `jobs` in the same step. Nothing is
  assumed of ids: when they collide, a job can be overwritten, not doubled.
* `ReliableSendDelivers`: `DistinctIds => (Spec => []ReturnedWasReceived)`.
  `ConfirmInv` adds that a confirmation under way, the permit it turns into and
  the return of the call each imply that the job was received. An `"x"` names
  an id only, so this needs that ids of one node differ and that an entry of
  `notify_finish` is under the id of its call.
* `UMQTImplementsDelivery`: `DistinctIds => (Spec => Delivers)`, with the
  refinement mapping given above. `AskInv` is about the time before a server is
  chosen: queries and answers are between a call and a server it asks, a call is
  in `notify_discovery` as long as it has no `winner`, and returns only with one.
  `GoInv` is about the time after: the copies of a job, what the acceptor takes it
  for, and where it was received and handled are all the winner. Then the answer
  that is taken first is `Choose`, the first reception of a job is `Arrive`, the
  handler is `Handle`, the end of `send()` is `Return`, and every other step a
  stutter.
* `UnreliableJobOnce`: `DistinctIds => (Spec => []UnreliableOnce)`. `OnceInv`:
  only reliable jobs are in tasks (`RepeatedReliable`); an unreliable one is in
  one datagram, or was received, never both (`SingleCopy`); while the handler is
  about to run it, it was not handled (`HandlingOnce`).
* `NoCallIsStranded` and `ReturnedLeavesNothing`, from one invariant, `WaitInv`.
  `Kept` says of every call what the maps have of it: `notify_discovery` and
  `jobs` until its server is chosen, `notify_finish` until it is confirmed,
  `notify_sent` as long as `notify_finish`; and that a Notify taken out of its
  map has a permit. `TasksOwned` says of a task that it can be ended and that it
  is the only one for its job. `Consistent` says what the acceptor's own copies
  of message and Notify still mean in the critical sections that come after it
  looked. All that holds even of a node that was stopped. `Carried` does not: as
  long as nobody stops the node, a job that is chosen is being taken, sent, or
  repeated, and a confirmed one is being forgotten. A stop in between breaks
  exactly that.

**`RPC`**

* `RPCTypeCorrect`: `Spec => []TypeOK`.
* `TopicsAreWhole`: `TopicIsWhole` is inductive, because nobody passes the lock
  while a topic is in between (`Registering`).
* `MapHoldsThePending`: the property does not say under which id; `PendingInv`
  does, and that the other entries hold no call that is over.
* `NoCallIsForgotten`: as long as an action has published no response
  (`responded`), its request is queued or the action runs; from then on a
  response is queued, or the call has it (`AccountedInv`). Without that
  distinction, `RunResponse` and `ActionEnd` would each need what only the other
  preserves. It rests on `PublishInv` (nothing happens for a call before it is
  published) and on `PendingInv`.
* `CollisionsStayWithTheirId`: a channel is closed only by an insertion under the
  same id, by a call that has a channel of its own from then on (`CollisionInv`,
  with `PendingInv` for what `MAP` has under an id). These five theorems assume
  nothing of ids.
* `AnswersAreOnesOwn`, with `DistinctIds`: a channel has the response to its own
  call or nothing, and is never closed (`AnswerInv`).
* `OwnSlotIsForever`, with `DistinctIds`: `Spec => SelfWaitIsForever`. A request
  that is queued is in one place and nothing came of it (`FreshInv`); one that is
  in a worker's slot was put there by the action that waits for it, whose stream
  has a clone of the default producer, so that the runtime is not shut down
  (`SlotInv`). So no step gives the worker its answer or takes the slot away.
* `CoveredRequestsKeepTheirAnswer`, with `DistinctIds` and `"producer" \notin
  Switches`: once the response consumer of its topic is there, every push of the action is published
  (`CoveredCall`), so the call is not given up when the action ends.
* `RPCImplementsRequestReply`, with `DistinctIds`: `Spec => Replies`. Three
  invariants (`StepInv`) say what the mapping needs: an action runs on one worker
  (`RunsOnce`), which `FreshInv` gives when its request is taken; a response that
  is queued or received means that the action is past a push (`PushedFirst`);
  and an action is past a call it makes only when that call has returned
  (`CallsReturned`). Then `SendPublish` is `Send`, `TakeRequest` is `Serve`,
  `ActionPush` is `Respond`, `ActionEnd` is `Finish`, `SendReceive` is `Return`,
  where `AnswerInv` makes the response in the channel that of its own request,
  and every other step is a stutter. With ids that repeat it is not so: a
  channel may then have the response to another request.

**`RPCBindings`** (nothing assumed)

* `BindingsTypeCorrect`: `Spec => []TypeOK`.
* `StreamsBelongToActions`: a request is published once and taken once
  (`TakenOnce`), and the ids of streams are handed out in order (`IdsGiven`), so
  that a stream that is filed takes the place of no other one.
* `ServedByOwnAction`: what the core, the queue and the messages under way refer
  to was registered (`MessagesRegistered`, `QueueRegistered`, `RunnerOn`), and
  what was registered is in the C++ map until the destructor begins (`OnStored`,
  which needs the order of `StoreAction` and `Register`).

**`UMQTBindings`** (nothing assumed)

* `SendIsHeard`: `Spec => []ReturnedIsHandled`. `BindingsInv` says that what the core calls the adapter for is in the C++ map until the destructor
  begins (`CoreInMap`, which needs the order of `StoreConsumer` and `Register`),
  that the acceptor holds a job only where it was received and has a consumer
  (`AtReceiver`), and that every confirmed job is handled, held, or given up for
  one of the reasons that the property names (`ConfirmedAccounted`).

**`FrameReader`** (nothing assumed)

* `WholeFramesAreRead` and `NothingElseIsActedOn`, for every length of json and
  binary. `EncodeType` says which byte is where in a frame, and that the first
  colon is in the second place. `MetaIsFirst` and `BodyIsSound` go through
  `read_block()` with the first `size` bytes of it: either there is no verdict
  to act on, or the buffer has exactly the bytes of the json and the binary.

Only model-checked: the liveness properties `SendReturns`, `RetransmissionEnds`,
`HangsOnlyByNesting`, `SetProducerReturns` and `HangsOnlyIfAbandoned`, which are
about fairness and out of the prover's reach; and the two violations.

## Findings

`rpc_ids`: two calls of `send()` in the same tick of the clock get the same id.
The second `MAP.insert` drops the sender of the first, whose `recv().unwrap()`
panics (`native/src/rpc/main.rs:628`), and the second call can return with the
response to the first. Only the calls that share the id are harmed, and of those
one never panics (`CollisionsAreContained`); with distinct ids no `recv()` ever
fails, as nothing then closes a channel.

`rpc_bindings_topic`: `rpc_on()` keeps a reference to the topic the caller passes
(`native/src/lib.rs:344`) and reads it on every request (line 374). In the
README's example that is a temporary string (`README.md:50`). Once its memory is
used again, the action of the topic is not found, or another one is, and the
`send()` of line 57 does not get the answer the example expects.

Also shown by the models, without a line in the repository that says otherwise:

* a reliable job too large for the receiver's block makes its `send()` wait for
  ever, if that receiver was chosen;
* a repeated reliable job is handled again;
* after `stop()` calls of the node may wait for ever and keep its port;
* a nested `send()` of an action can cost a worker for good;
* `set_producer()` and a worker can wait for each other: one for the runtime to
  end, the other for the producer's lock (`Cornered`);
* an instance that gets requests before its `set_producer()` is over answers
  them into its default producer, where nobody listens;
* a destroyed `RPC` instance goes on taking requests from a shared queue and
  drops them, though another instance could serve them;
* a destroyed `UMQT` instance whose `start()` runs on confirms jobs that it then
  drops;
* a response with a zero byte becomes an exception, and in an action the end of
  the process.

## Not modelled

* RPC with a UMQT transport as its broker: the repository has no code that
  connects them (payload format, topics, errors would be invented). The broker
  that calls consumers from inside the producer, and the queue that delivers
  later, are in `RPCBindings`; what UMQT promises such a broker is `Delivery`.
* A panic inside a handler or an action, and a poisoned lock after it. Two panics
  of the code itself are of this kind: when the last clone of the default producer
  goes with an action, tokio panics in the worker that drops the runtime, whose
  task is over by then (`Leave`); and when `rpc_on()` reads a zero byte where its
  topic string was (`lib.rs:374`), `CString::new` fails, the action does not run
  and its stream stays in `RPC_STREAMS`. The model of that read goes on with a
  topic that nobody has.
* An `on()` that replaces the action of a topic by a different one. Repeated
  `on()` with the same action is in `RPC`, where it matters after `set_consumer`;
  in `RPCBindings` and `UMQTBindings` it comes once for each topic.
* An action of the Rust API that keeps its stream and pushes after it is over: in
  `RPC` the stream, and the producer it has, end with the action, and the call
  counts as lost. A push of a thread that outlives its action is in `RPCBindings`.
* A `send()` of UMQT inside one of its handlers: `block_on` in `block_on` panics.
* TLS and compression: the code has the options and a TODO. Loggers.
* `umqt_add_server`, which forwards (and keeps 16 bits of the port), and the
  refusal of arguments that are not UTF-8 or JSON, which the wrappers never pass.
* Growth: `RPC_CONSUMERS` and the buffers that `rpc_send` returns are never freed.
* Crash of a node: only `exit(1)` of `send()` before `start()`; nothing is
  persisted.

## Plan

The modules of the plan are there, and every safety property of the passing
runs is proved, with both refinements. What is worth stating next is what the bindings
promise an application in terms of the same `RequestReply`: class `RPC` through
the FFI serves a request at most once, by the action of its topic, and returns
only after that action has pushed. `RPCBindings` should implement it as long as
the topic strings live and no response has a zero byte; pushes of a thread that
outlives its action are what `RequestReply` does not allow and would have to.
