----------------------------- MODULE WorkerPool -----------------------------
(***************************************************************************)
(* One consumer process: the WorkerPool, its workerGroup and the consumer  *)
(* half of AMQPBroker.  The consumer goroutine reads deliveries and hands  *)
(* each to a worker over that worker's unbuffered JobChannel, round robin; *)
(* it comes back after every error, until Stop has cleared `started'.      *)
(* Stop runs in the goroutine of Start, after a signal, and in any other   *)
(* that calls it.  What a worker does with a task is TaskRegistrar's; here *)
(* it takes any time, or for ever.                                         *)
(***************************************************************************)
EXTENDS Integers, FiniteSets

CONSTANTS
  Concurrency,    \* workers of the group
  Message,        \* the messages in the task queue
  Empty,          \* those with an empty body
  Stopper,        \* the goroutines that may call Stop
  Registered,     \* whether any task is registered
  PrefetchCount,  \* SetChannelQoS
  MaxLosses,      \* bound of the model: channels lost by RabbitMQ or the network
  None            \* no message

ASSUME SizesAssumption ==
  /\ Concurrency \in Nat /\ Concurrency >= 1
  /\ PrefetchCount \in Nat /\ PrefetchCount >= 1 /\ MaxLosses \in Nat
ASSUME MessagesAssumption == Empty \subseteq Message /\ None \notin Message
ASSUME RegisteredAssumption == Registered \in BOOLEAN

Worker == 0..(Concurrency - 1)
Consumer == Concurrency          \* the consumer goroutine, as a holder of a message

VARIABLES
  started,   \* wp.started, which no lock protects
  process,   \* "running", "exited" by os.Exit, "panicked"
  stop,      \* stop[s]: how far s is in Stop
  next,      \* next[s]: the next JobChannel s closes in Stop
  closed,    \* the workers whose JobChannel is closed
  consumer,  \* where the consumer goroutine is
  last,      \* wg.lastAssignedWorkerIndex
  job,       \* job[h]: the message that the worker or the consumer h works on
  live,      \* the holders whose message came over the channel in use
  up,        \* whether the consumer's channel is open
  queue,     \* RabbitMQ: messages ready
  unacked,   \* RabbitMQ: delivered over the channel in use, and unsettled
  settled,   \* RabbitMQ: acked, or nacked for good
  losses     \* channels lost

pool == <<started, stop, next, closed>>
group == <<last, job, live>>
broker == <<up, queue, unacked, settled>>
vars == <<process, pool, consumer, group, broker, losses>>

Dropped == Message \ (queue \cup unacked \cup settled)

(* A channel is closed: RabbitMQ requeues what was delivered over it.      *)
CloseChannel ==
  /\ up' = FALSE
  /\ queue' = queue \cup unacked
  /\ unacked' = {}
  /\ live' = {}

-----------------------------------------------------------------------------
(* The pool is started.  A second Start returns at once and is left out.   *)

Start ==
  /\ ~started /\ consumer = "none"
  /\ started' = TRUE
  /\ consumer' = "connecting"
  /\ UNCHANGED <<process, stop, next, closed, group, broker, losses>>

-----------------------------------------------------------------------------
(* StartConsumer.                                                          *)

(* A connection, a channel, QoS and the consumer on it. *)
Connect ==
  /\ consumer = "connecting"
  /\ consumer' = "selecting"
  /\ up' = TRUE
  /\ UNCHANGED <<process, pool, group, queue, unacked, settled, losses>>

ConnectFails ==
  /\ consumer = "connecting"
  /\ consumer' = "returned"
  /\ UNCHANGED <<process, pool, group, broker, losses>>

Delivered(m) ==
  /\ consumer = "selecting" /\ up
  /\ m \in queue /\ Cardinality(unacked) < PrefetchCount
  /\ queue' = queue \ {m}

(* A mutant: the index runs on past the last worker. *)
ReceiveJobWithoutModulo(m) ==
  /\ Delivered(m) /\ m \notin Empty
  /\ last' = last + 1
  /\ job' = [job EXCEPT ![Consumer] = m]
  /\ live' = live \cup {Consumer}
  /\ unacked' = unacked \cup {m}
  /\ consumer' = "assigning"
  /\ UNCHANGED <<process, pool, up, settled, losses>>

(* A mutant: the consumer of RabbitMQ is declared with auto-ack. *)
ReceiveJobAutoAck(m) ==
  /\ Delivered(m) /\ m \notin Empty
  /\ last' = (last + 1) % Concurrency
  /\ job' = [job EXCEPT ![Consumer] = m]
  /\ settled' = settled \cup {m}
  /\ consumer' = "assigning"
  /\ UNCHANGED <<process, pool, live, up, unacked, losses>>

(* processDelivery, to the point where AssignJob sends to the channel of   *)
(* the worker it has chosen.                                               *)
ReceiveJob(m) ==
  /\ Delivered(m) /\ m \notin Empty
  /\ last' = (last + 1) % Concurrency
  /\ job' = [job EXCEPT ![Consumer] = m]
  /\ live' = live \cup {Consumer}
  /\ unacked' = unacked \cup {m}
  /\ consumer' = "assigning"
  /\ UNCHANGED <<process, pool, up, settled, losses>>

(* An empty message is nacked for good, unless its channel is lost before  *)
(* that.  It ends the consumer, whose deferred call closes the channel.    *)
ReceiveEmpty(m) ==
  /\ Delivered(m) /\ m \in Empty
  /\ up' = FALSE /\ unacked' = {} /\ live' = {}
  /\ queue' = (queue \cup unacked) \ {m}
  /\ consumer' = "returned"
  /\ UNCHANGED <<process, pool, last, job, settled, losses>>

(* A mutant: the message is dropped when the worker is busy (a select with *)
(* a default).                                                             *)
AssignJobOrDrop ==
  /\ consumer = "assigning" /\ last \notin closed
  /\ job' = IF job[last] = None
            THEN [job EXCEPT ![last] = job[Consumer], ![Consumer] = None]
            ELSE [job EXCEPT ![Consumer] = None]
  /\ live' = (live \ {Consumer}) \cup
               (IF Consumer \in live /\ job[last] = None THEN {last}
                ELSE live \cap {last})
  /\ consumer' = "selecting"
  /\ UNCHANGED <<process, pool, last, broker, losses>>

(* AssignJob ends when the chosen worker takes the message. *)
AssignJob ==
  /\ consumer = "assigning"
  /\ job[last] = None /\ last \notin closed
  /\ job' = [job EXCEPT ![last] = job[Consumer], ![Consumer] = None]
  /\ live' = (live \ {Consumer}) \cup (IF Consumer \in live THEN {last} ELSE {})
  /\ consumer' = "selecting"
  /\ UNCHANGED <<process, pool, last, broker, losses>>

(* Sending on a closed channel panics, also when the close comes second.   *)
AssignJobPanics ==
  /\ consumer = "assigning" /\ last \in closed
  /\ process' = "panicked"
  /\ UNCHANGED <<pool, consumer, group, broker, losses>>

(* The channel or the connection closed, or the consumer was cancelled. *)
SeeChannelClosed ==
  /\ consumer = "selecting" /\ ~up
  /\ consumer' = "returned"
  /\ UNCHANGED <<process, pool, group, broker, losses>>

(* The two channels of the stop request are unbuffered: each step is taken *)
(* by the consumer and by StopConsumer.  processingWG counts the calls of  *)
(* processDelivery, which are made by this goroutine, so that its Wait     *)
(* passes.                                                                 *)
TakeStopRequest(s) ==
  /\ consumer = "selecting" /\ stop[s] = "requesting"
  /\ consumer' = "confirming"
  /\ stop' = [stop EXCEPT ![s] = "waiting"]
  /\ UNCHANGED <<process, started, next, closed, group, broker, losses>>

ConfirmStop(s) ==
  /\ consumer = "confirming" /\ stop[s] = "waiting"
  /\ consumer' = "returned"
  /\ stop' = [stop EXCEPT ![s] = "ended"]
  /\ CloseChannel
  /\ UNCHANGED <<process, started, next, closed, last, job, settled, losses>>

-----------------------------------------------------------------------------
(* The loop in the goroutine of Start, after StartConsumer has returned.   *)

(* Mutants of Sleep and Exit: the goroutine ends with the first error; the *)
(* process exits without a look at `started'.                              *)
SleepForEver ==
  /\ consumer = "returned" /\ started
  /\ consumer' = "gone"
  /\ UNCHANGED <<process, pool, group, broker, losses>>

ExitAnyway ==
  /\ consumer = "returned"
  /\ process' = "exited"
  /\ UNCHANGED <<pool, consumer, group, broker, losses>>

Sleep ==
  /\ consumer = "returned" /\ started
  /\ consumer' = "sleeping"
  /\ UNCHANGED <<process, pool, group, broker, losses>>

(* os.Exit, with whatever the workers are doing. *)
Exit ==
  /\ consumer = "returned" /\ ~started
  /\ process' = "exited"
  /\ UNCHANGED <<pool, consumer, group, broker, losses>>

Wake ==
  /\ consumer = "sleeping"
  /\ consumer' = "connecting"
  /\ UNCHANGED <<process, pool, group, broker, losses>>

-----------------------------------------------------------------------------
(* A worker has processed its job, and acks it or nacks it for good.  That *)
(* fails when the channel that the message came over is closed.            *)
Work(w) ==
  /\ job[w] # None
  /\ job' = [job EXCEPT ![w] = None]
  /\ live' = live \ {w}
  /\ IF w \in live
     THEN unacked' = unacked \ {job[w]} /\ settled' = settled \cup {job[w]}
     ELSE UNCHANGED <<unacked, settled>>
  /\ UNCHANGED <<process, pool, consumer, last, up, queue, losses>>

(* The retry could not be published: the job is nacked with requeue.       *)
WorkRequeues(w) ==
  /\ job[w] # None
  /\ job' = [job EXCEPT ![w] = None]
  /\ live' = live \ {w}
  /\ IF w \in live
     THEN unacked' = unacked \ {job[w]} /\ queue' = queue \cup {job[w]}
     ELSE UNCHANGED <<unacked, queue>>
  /\ UNCHANGED <<process, pool, consumer, last, up, settled, losses>>

-----------------------------------------------------------------------------
(* Stop.  The check of `started' and its reset are two steps.              *)

CallStop(s) ==
  /\ stop[s] = "uncalled"
  /\ stop' = [stop EXCEPT ![s] = IF started /\ Registered THEN "checked" ELSE "ended"]
  /\ UNCHANGED <<process, started, next, closed, consumer, group, broker, losses>>

(* A mutant: the consumer is stopped before the workers. *)
RequestBeforeClosing(s) ==
  /\ stop[s] = "checked"
  /\ started' = FALSE
  /\ stop' = [stop EXCEPT ![s] = "requesting"]
  /\ UNCHANGED <<process, next, closed, consumer, group, broker, losses>>

ClearStarted(s) ==
  /\ stop[s] = "checked"
  /\ started' = FALSE
  /\ stop' = [stop EXCEPT ![s] = "closing"]
  /\ UNCHANGED <<process, next, closed, consumer, group, broker, losses>>

CloseJobChannel(s) ==
  /\ stop[s] = "closing" /\ next[s] \notin closed
  /\ closed' = closed \cup {next[s]}
  /\ next' = [next EXCEPT ![s] = @ + 1]
  /\ stop' = [stop EXCEPT ![s] = IF next[s] + 1 = Concurrency THEN "requesting" ELSE @]
  /\ UNCHANGED <<process, started, consumer, group, broker, losses>>

(* Closing a closed channel panics. *)
CloseTwice(s) ==
  /\ stop[s] = "closing" /\ next[s] \in closed
  /\ process' = "panicked"
  /\ UNCHANGED <<pool, consumer, group, broker, losses>>

-----------------------------------------------------------------------------
LoseChannel ==
  /\ up /\ losses < MaxLosses
  /\ losses' = losses + 1
  /\ CloseChannel
  /\ UNCHANGED <<process, pool, consumer, last, job, settled>>

-----------------------------------------------------------------------------
Init ==
  /\ started = FALSE /\ process = "running"
  /\ stop = [s \in Stopper |-> "uncalled"] /\ next = [s \in Stopper |-> 0] /\ closed = {}
  /\ consumer = "none"
  /\ last = 0 /\ job = [h \in Worker \cup {Consumer} |-> None] /\ live = {}
  /\ up = FALSE /\ queue = Message /\ unacked = {} /\ settled = {}
  /\ losses = 0

ConsumerStep ==
  \/ Connect \/ ConnectFails
  \/ \E m \in Message : ReceiveJob(m) \/ ReceiveEmpty(m)
  \/ AssignJob \/ AssignJobPanics \/ SeeChannelClosed
  \/ \E s \in Stopper : TakeStopRequest(s) \/ ConfirmStop(s)
  \/ Sleep \/ Exit \/ Wake

StopStep(s) == ClearStarted(s) \/ CloseJobChannel(s) \/ CloseTwice(s)

Next ==
  /\ process = "running"
  /\ \/ Start \/ ConsumerStep \/ LoseChannel
     \/ \E w \in Worker : Work(w) \/ WorkRequeues(w)
     \/ \E s \in Stopper : CallStop(s) \/ StopStep(s)

Spec == Init /\ [][Next]_vars

(* Every goroutine that can go on does; a task may run for ever. *)
Running(A) == process = "running" /\ A
Fairness ==
  /\ WF_vars(Running(ConsumerStep))
  /\ \A s \in Stopper : WF_vars(Running(StopStep(s)))

(* What the handling of messages assumes besides: RabbitMQ can be reached  *)
(* again and again, also to publish a retry, and tasks end.                *)
Recovery ==
  /\ SF_vars(Running(Connect))
  /\ \A w \in Worker : SF_vars(Running(Work(w)))

FairSpec == Spec /\ Fairness

-----------------------------------------------------------------------------
(* Every variable has its type. *)
TypeOK ==
  /\ started \in BOOLEAN /\ process \in {"running", "exited", "panicked"}
  /\ stop \in [Stopper -> {"uncalled", "checked", "closing", "requesting", "waiting", "ended"}]
  /\ next \in [Stopper -> 0..Concurrency] /\ closed \subseteq Worker
  /\ consumer \in {"none", "connecting", "selecting", "assigning", "confirming",
                   "returned", "sleeping"}
  /\ last \in Worker /\ job \in [Worker \cup {Consumer} -> Message \cup {None}]
  /\ live \subseteq Worker \cup {Consumer} /\ up \in BOOLEAN
  /\ queue \subseteq Message /\ unacked \subseteq Message /\ settled \subseteq Message
  /\ losses \in 0..MaxLosses

(* No message falls between the broker and the workers: what RabbitMQ      *)
(* waits to see acked is in exactly one pair of hands that can ack it, and *)
(* only empty messages are dropped.  A message in nobody's hands would     *)
(* stay unacked, and take a place of the prefetch window, for as long as   *)
(* the channel lives.                                                      *)
EveryMessageAccounted ==
  /\ \A m \in unacked : \E h \in live : job[h] = m
  /\ \A g, h \in live : job[g] = job[h] => g = h
  /\ \A h \in live : job[h] \in unacked
  /\ queue \cap unacked = {} /\ (queue \cup unacked) \cap settled = {}
  /\ Dropped \subseteq Empty

(* A message is settled by a worker that has processed it, and by no other *)
(* than the one whose delivery it is; what a channel takes with it when it *)
(* closes is ready again and not settled by who still works on it.         *)
(* WorkerPool implements Consumption.                                      *)
hand == [h \in Worker \cup {Consumer} |-> IF h \in live THEN job[h] ELSE None]
CO == INSTANCE Consumption WITH Window <- PrefetchCount, ready <- queue, done <- settled
ImplementsConsumption == CO!Spec

(* Lost channels, failed dials and empty messages neither end the process  *)
(* nor panic it: both take a call of Stop.                                 *)
SurvivesFaults == process # "running" => \E s \in Stopper : stop[s] # "uncalled"

(* A call of Stop ends, with the process or without (a panic too), also    *)
(* when no task ever ends, the consumer is blocked on a busy worker or     *)
(* RabbitMQ cannot be reached; that a request to RabbitMQ returns or fails *)
(* is assumed.                                                             *)
StopEnds ==
  \A s \in Stopper : stop[s] # "uncalled" ~> stop[s] = "ended" \/ process # "running"

(* The pool goes on after an empty message and after every loss of the     *)
(* channel: what is in the queue gets handled unless the pool is stopped.  *)
EveryMessageHandled ==
  Recovery => \A m \in Message : started /\ m \in queue ~> m \in settled \cup Dropped \/ ~started

-----------------------------------------------------------------------------
(* What the comments say. *)

(* "Stop stops the workers and associated processes" (workerpool.go:208),  *)
(* "by closing their job channels" (workergroup.go:56): it is not a panic  *)
(* that ends them.                                                         *)
StopIsClean == process # "panicked"
=============================================================================
