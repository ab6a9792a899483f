--------------------------- MODULE TaskRegistrar ---------------------------
(***************************************************************************)
(* The life of a task: SendTask publishes it, the workers of a consumer    *)
(* run it (DefaultTaskRegistrar.Processor), and it is acknowledged,        *)
(* retried through the delayed queue, or moved to the failed or timeout    *)
(* queue.  RabbitMQ is external: it stores and routes messages, delivers   *)
(* them, lets them expire, and hands every unacknowledged message out      *)
(* again when the consumer's channel closes.                               *)
(*                                                                         *)
(* A delivery is held by one worker at a time and every handler step that  *)
(* another process can interleave with is an action: the decision on a     *)
(* delivery, the end of the task function, the publish, the ack or nack.   *)
(***************************************************************************)
EXTENDS Integers, Combinatorics, Topology

CONSTANTS
  Task,             \* the tasks that clients submit
  Worker,           \* the workers of the consumer's worker group
  MsgId,            \* names for the messages RabbitMQ stores at one time
  Configs,          \* the configurations considered, see Topology
  Submissions,      \* the signatures clients submit, without the task field
  RegisteredTasks,  \* the names with a func(*schema.Signature) error
  DelayOverflow,    \* the first retry with an interval <= 0: 50, see RetryDelay
  MaxFaults,        \* bound of the model: faults in one behaviour
  None              \* no signature, no delivery

(* Every queue has a name of its own, or shares it with none but the other *)
(* parking queue (the defaults of FAILED_QUEUE and TIMEOUT_QUEUE are       *)
(* equal), and the exchange is a direct one with a binding key.            *)
ConfigOK(c) ==
  LET core == {c.TaskQueueName, c.DelayedQueue, c.BindingKey}
      parking == {c.FailedQueue, c.TimeoutQueue}
  IN /\ isDirectExchange(c)
     /\ c.DelayedQueue \notin {c.TaskQueueName, c.BindingKey}
     /\ core \cap parking = {} /\ "" \notin core
     /\ {"free", "unacked"} \cap (core \cup parking) = {}

ASSUME ConfigsAssumption == Configs \subseteq Config /\ \A c \in Configs : ConfigOK(c)
ASSUME BoundsAssumption == DelayOverflow \in Nat /\ MaxFaults \in Nat

VARIABLES
  cfg,        \* the configuration, fixed
  request,    \* request[t]: the signature the client submits for t, fixed
  client,     \* client[t]: what SendTaskWithContext told the client
  place,      \* place[m]: the queue m is in, "unacked", or "free" (no message)
  sig,        \* sig[m]: the signature in the body and headers of m
  ttl,        \* ttl[m]: the expiration property of m
  pc,         \* pc[w]: where worker w is in amqpProcessSignature
  job,        \* job[w]: the delivery w holds, None once its channel closed
  wsig,       \* wsig[w]: the decoded signature, mutated as the code does
  late,       \* the tasks whose TaskTimeOut has elapsed since CreatedAt
  completed,  \* the tasks a worker saw return nil
  discarded,  \* the tasks the code decided to drop
  execs,      \* execs[t]: how often the task function of t was started
  faults      \* how many faults have happened

broker == <<place, sig, ttl>>
worker == <<pc, job, wsig>>
fixed == <<cfg, request>>
ghosts == <<completed, discarded, execs>>
vars == <<fixed, client, broker, worker, late, ghosts, faults>>

ETAs == {"nil", "past", "future"}
TTLs == {"none", "5ms", "eta"}
Queues == {cfg.TaskQueueName, cfg.DelayedQueue, cfg.FailedQueue, cfg.TimeoutQueue} \ {""}

(* A signature as far as the code reads it.  urgent is Priority > 1,       *)
(* TaskTimeOut is TaskTimeOut # 0, raw says that RawArgs are set (so that  *)
(* the rest travels in the headers); CreatedAt is set by every SendTask.   *)
(* Only what another program put on the exchange is not decodable.         *)
Signature ==
  [task : Task, Name : STRING, decodable : BOOLEAN, raw : BOOLEAN,
   urgent : BOOLEAN, RetryCount : Nat, RetriesDone : Nat,
   TaskTimeOut : BOOLEAN, ETA : ETAs, RoutingKey : STRING]

ASSUME SubmissionsAssumption ==
  Submissions \subseteq
    [Name : STRING, decodable : BOOLEAN, raw : BOOLEAN, urgent : BOOLEAN, RetryCount : Nat,
     TaskTimeOut : BOOLEAN, ETA : ETAs, RoutingKey : STRING]
ASSUME EmptyKeyAssumption == "" \in STRING
ASSUME NoneAssumption == None \notin MsgId /\ None \notin Signature

AsSent(t) ==
  [task |-> t, Name |-> request[t].Name, decodable |-> request[t].decodable,
   raw |-> request[t].raw, urgent |-> request[t].urgent,
   RetryCount |-> request[t].RetryCount, RetriesDone |-> 0,
   TaskTimeOut |-> request[t].TaskTimeOut, ETA |-> request[t].ETA,
   RoutingKey |-> request[t].RoutingKey]

-----------------------------------------------------------------------------
(* Publishing.                                                             *)

(* The bug of the mutant: the ETA of a signature is not turned into a TTL. *)
TTLWithoutETA(s) == IF s.ETA # "nil" /\ s.urgent /\ s.TaskTimeOut THEN "5ms" ELSE "none"

getTaskTTL(s) ==
  CASE s.ETA = "nil"              -> "none"
    [] s.ETA # "nil" /\ s.urgent /\ s.TaskTimeOut -> "5ms"
    [] s.ETA = "future" /\ ~(s.urgent /\ s.TaskTimeOut) -> "eta"
    [] s.ETA = "past" /\ ~(s.urgent /\ s.TaskTimeOut)   -> "none"

(* The key AMQPBroker.Publish publishes with: an empty one is replaced by  *)
(* the default only when the message is not delayed.                       *)
PublishKey(s) ==
  IF getTaskTTL(s) = "none" /\ s.RoutingKey = "" THEN getRoutingKey(cfg) ELSE s.RoutingKey

(* Where the exchange puts a message: nowhere if no queue is bound to the  *)
(* key, because Publish does not set the mandatory flag.                   *)
Destination(key) ==
  IF Routed(cfg, key) = {} THEN "free" ELSE CHOOSE q \in Routed(cfg, key) : TRUE

FreeId == CHOOSE m \in MsgId : place[m] = "free"

Store(s) ==
  LET q == Destination(PublishKey(s))
  IN /\ \E m \in MsgId : place[m] = "free"
     /\ IF q = "free"
        THEN UNCHANGED broker
        ELSE /\ place' = [place EXCEPT ![FreeId] = q]
             /\ sig' = [sig EXCEPT ![FreeId] = s]
             /\ ttl' = [ttl EXCEPT ![FreeId] = getTaskTTL(s)]

Remove(m) ==
  /\ place' = [place EXCEPT ![m] = "free"]
  /\ sig' = [sig EXCEPT ![m] = None]
  /\ ttl' = [ttl EXCEPT ![m] = "none"]

Fault == faults < MaxFaults /\ faults' = faults + 1

(* AmqpPublishWithConfirm returns nil only after RabbitMQ's ack.  It       *)
(* returns an error when nothing was stored (no connection, no channel, a  *)
(* nack) and also when the confirm was late or lost after the message had  *)
(* been stored.                                                            *)
PublishOk(s) == Store(s) /\ UNCHANGED faults
PublishFails(s) == (Store(s) \/ UNCHANGED broker) /\ Fault

SendTask(t) ==
  /\ client[t] = "unsent"
  /\ \/ PublishOk(AsSent(t)) /\ client' = [client EXCEPT ![t] = "confirmed"]
     \/ PublishFails(AsSent(t)) /\ client' = [client EXCEPT ![t] = "error"]
  /\ UNCHANGED <<fixed, worker, late, ghosts>>

-----------------------------------------------------------------------------
(* Receiving and deciding.                                                 *)

(* The bug of the mutant: the headers carry the priority, the rest of      *)
(* signature handling knows nothing of it.                                 *)
DecodedWithPriority(s) == IF s.raw THEN [s EXCEPT !.RoutingKey = ""] ELSE s

(* A raw message carries its signature in headers, which hold neither the  *)
(* priority nor the routing key.                                           *)
Decoded(s) == IF s.raw THEN [s EXCEPT !.urgent = FALSE, !.RoutingKey = ""] ELSE s

(* Time goes on: an ETA that was in the future may now be in the past. *)
Aged(eta) == IF eta = "future" THEN {"future", "past"} ELSE {eta}

Deliver(w, m) ==
  /\ pc[w] = "idle" /\ place[m] = cfg.TaskQueueName
  /\ place' = [place EXCEPT ![m] = "unacked"]
  /\ pc' = [pc EXCEPT ![w] = "received"]
  /\ job' = [job EXCEPT ![w] = m]
  /\ \E eta \in Aged(sig[m].ETA) :
       wsig' = [wsig EXCEPT ![w] = [Decoded(sig[m]) EXCEPT !.ETA = eta]]
  /\ UNCHANGED <<fixed, client, sig, ttl, late, ghosts, faults>>

checkTaskTimeout(s) == s.TaskTimeOut /\ s.task \in late

(* A message that does not decode, or whose task is unknown or no task     *)
(* function, is nacked without requeue.                                    *)
RejectDelivery(w) ==
  /\ pc[w] = "received"
  /\ \/ ~wsig[w].decodable
     \/ ~checkTaskTimeout(wsig[w]) /\ wsig[w].Name \notin RegisteredTasks
  /\ pc' = [pc EXCEPT ![w] = "drop"]
  /\ discarded' = discarded \cup {wsig[w].task}
  /\ UNCHANGED <<fixed, client, broker, job, wsig, late, completed, execs, faults>>

(* The start deadline has passed: on to the timeout queue, or nowhere when *)
(* there is none.                                                          *)
pushToTimeoutAmqpQueue(w) ==
  /\ pc[w] = "received" /\ wsig[w].decodable /\ checkTaskTimeout(wsig[w])
  /\ IF cfg.TimeoutQueue = ""
     THEN /\ pc' = [pc EXCEPT ![w] = "ack"]
          /\ discarded' = discarded \cup {wsig[w].task}
          /\ UNCHANGED wsig
     ELSE /\ pc' = [pc EXCEPT ![w] = "publish"]
          /\ wsig' = [wsig EXCEPT ![w] =
                        [@ EXCEPT !.TaskTimeOut = FALSE, !.RoutingKey = cfg.TimeoutQueue]]
          /\ UNCHANGED discarded
  /\ UNCHANGED <<fixed, client, broker, job, late, completed, execs, faults>>

ExecuteTask(w) ==
  /\ pc[w] = "received" /\ wsig[w].decodable /\ ~checkTaskTimeout(wsig[w])
  /\ wsig[w].Name \in RegisteredTasks
  /\ pc' = [pc EXCEPT ![w] = "running"]
  /\ execs' = [execs EXCEPT ![wsig[w].task] = @ + 1]
  /\ UNCHANGED <<fixed, client, broker, job, wsig, late, completed, discarded, faults>>

-----------------------------------------------------------------------------
(* The end of the task function, and retrying.                             *)

(* The bug of the mutant: one retry too many. *)
exhaustedLate(s) == s.RetryCount < 1 \/ s.RetriesDone > s.RetryCount

exhausted(s) == s.RetryCount < 1 \/ s.RetriesDone > s.RetryCount - 1

(* getRetryInterval(n) > 0, for the n that retryTask reaches. *)
retryIntervalPositive(n) == n >= 1 /\ n < DelayOverflow

(* The bugs of the mutants: no delayed queue, no delay. *)
RetriedAtOnce(s) == [s EXCEPT !.RetriesDone = @ + 1, !.ETA = "future"]
RetriedWithoutETA(s) == [s EXCEPT !.RetriesDone = @ + 1, !.RoutingKey = cfg.DelayedQueue]

Retried(s) ==
  [s EXCEPT !.RetriesDone = @ + 1, !.RoutingKey = cfg.DelayedQueue, !.ETA = "future"]

retryTask(w) ==
  LET s == wsig[w]
  IN \/ /\ exhausted(s) /\ cfg.FailedQueue = ""
        /\ pc' = [pc EXCEPT ![w] = "ack"]
        /\ discarded' = discarded \cup {s.task}
        /\ UNCHANGED wsig
     \/ /\ exhausted(s) /\ cfg.FailedQueue # ""
        /\ pc' = [pc EXCEPT ![w] = "publish"]
        /\ wsig' = [wsig EXCEPT ![w].RoutingKey = cfg.FailedQueue]
        /\ UNCHANGED discarded
     \/ /\ ~exhausted(s)
        /\ pc' = [pc EXCEPT ![w] = "publish"]
        /\ IF retryIntervalPositive(s.RetriesDone + 1)
           THEN wsig' = [wsig EXCEPT ![w] = Retried(s)]
           ELSE UNCHANGED wsig
        /\ UNCHANGED discarded

TaskSucceeds(w) ==
  /\ pc[w] = "running"
  /\ pc' = [pc EXCEPT ![w] = "ack"]
  /\ completed' = completed \cup {wsig[w].task}
  /\ UNCHANGED <<fixed, client, broker, job, wsig, late, discarded, execs, faults>>

(* The bug of the mutant: a failed task is acknowledged, not retried. *)
TaskFailsForGood(w) ==
  /\ pc[w] = "running"
  /\ pc' = [pc EXCEPT ![w] = "ack"]
  /\ UNCHANGED <<fixed, client, broker, job, wsig, late, ghosts, faults>>

(* The task function returned an error or panicked. *)
TaskFails(w) ==
  /\ pc[w] = "running"
  /\ retryTask(w)
  /\ UNCHANGED <<fixed, client, broker, job, late, completed, execs, faults>>

(* MaxTaskExecutionDuration passed first.  The function is left running,   *)
(* for ever if it likes: its result goes into the buffer of a done channel *)
(* that nobody reads, and changes nothing here.                            *)
ExecutionTimesOut(w) ==
  /\ pc[w] = "running"
  /\ retryTask(w)
  /\ UNCHANGED <<fixed, client, broker, job, late, completed, execs, faults>>

(* The bug of the mutant: the delivery is acknowledged whether or not the  *)
(* retry was published.                                                    *)
PublishAgainAndAck(w) ==
  /\ pc[w] = "publish"
  /\ PublishOk(wsig[w]) \/ PublishFails(wsig[w])
  /\ pc' = [pc EXCEPT ![w] = "ack"]
  /\ UNCHANGED <<fixed, client, job, wsig, late, ghosts>>

PublishAgain(w) ==
  /\ pc[w] = "publish"
  /\ \/ PublishOk(wsig[w]) /\ pc' = [pc EXCEPT ![w] = "ack"]
     \/ PublishFails(wsig[w]) /\ pc' = [pc EXCEPT ![w] = "requeue"]
  /\ UNCHANGED <<fixed, client, job, wsig, late, ghosts>>

(* The bug of the mutant: the worker carries its signature into the next   *)
(* delivery.                                                               *)
FinishWithoutReset(w) ==
  /\ pc' = [pc EXCEPT ![w] = "idle"]
  /\ job' = [job EXCEPT ![w] = None]
  /\ UNCHANGED wsig

Finish(w) ==
  /\ pc' = [pc EXCEPT ![w] = "idle"]
  /\ job' = [job EXCEPT ![w] = None]
  /\ wsig' = [wsig EXCEPT ![w] = None]

(* Ack, Nack(false, true) or Nack(false, false).  On a closed channel it   *)
(* is an error, which the code ignores: the message is RabbitMQ's again.   *)
Settle(w) ==
  /\ pc[w] \in {"ack", "requeue", "drop"}
  /\ \/ job[w] = None /\ UNCHANGED broker
     \/ /\ job[w] # None /\ pc[w] = "requeue"
        /\ place' = [place EXCEPT ![job[w]] = cfg.TaskQueueName]
        /\ UNCHANGED <<sig, ttl>>
     \/ job[w] # None /\ pc[w] # "requeue" /\ Remove(job[w])
  /\ Finish(w)
  /\ UNCHANGED <<fixed, client, late, ghosts, faults>>

-----------------------------------------------------------------------------
(* RabbitMQ, time, and failures.                                           *)

(* An expired message leaves its queue.  The delayed queue dead-letters it *)
(* to the exchange with the default routing key; the other queues are      *)
(* declared without a dead letter exchange and lose it.                    *)
Expire(m) ==
  /\ place[m] \in Queues /\ ttl[m] # "none"
  /\ LET q == Destination(getRoutingKey(cfg))
     IN IF place[m] = cfg.DelayedQueue /\ q # "free"
        THEN /\ place' = [place EXCEPT ![m] = q]
             /\ ttl' = [ttl EXCEPT ![m] = "none"]
             /\ sig' = [sig EXCEPT ![m].ETA = IF ttl[m] = "eta" THEN "past" ELSE @]
        ELSE Remove(m)
  /\ UNCHANGED <<fixed, client, worker, late, ghosts, faults>>

StartDeadlinePasses(t) ==
  /\ t \notin late /\ client[t] # "unsent" /\ request[t].TaskTimeOut
  /\ late' = late \cup {t}
  /\ UNCHANGED <<fixed, client, broker, worker, ghosts, faults>>

RequeueUnacked ==
  place' = [m \in MsgId |-> IF place[m] = "unacked" THEN cfg.TaskQueueName ELSE place[m]]

(* The channel or the connection of the consumer closes: its deliveries go *)
(* back to the task queue while the workers carry on with their copies.    *)
ChannelCloses ==
  /\ \E w \in Worker : job[w] # None
  /\ Fault
  /\ RequeueUnacked
  /\ job' = [w \in Worker |-> None]
  /\ UNCHANGED <<fixed, client, sig, ttl, pc, wsig, late, ghosts>>

(* The consumer process dies and is started again. *)
Crash ==
  /\ \E w \in Worker : pc[w] # "idle"
  /\ Fault
  /\ RequeueUnacked
  /\ pc' = [w \in Worker |-> "idle"]
  /\ job' = [w \in Worker |-> None]
  /\ wsig' = [w \in Worker |-> None]
  /\ UNCHANGED <<fixed, client, sig, ttl, late, ghosts>>

-----------------------------------------------------------------------------
Init ==
  /\ cfg \in Configs
  /\ request \in [Task -> Submissions]
  /\ client = [t \in Task |-> "unsent"]
  /\ place = [m \in MsgId |-> "free"]
  /\ sig = [m \in MsgId |-> None]
  /\ ttl = [m \in MsgId |-> "none"]
  /\ pc = [w \in Worker |-> "idle"]
  /\ job = [w \in Worker |-> None]
  /\ wsig = [w \in Worker |-> None]
  /\ late = {} /\ completed = {} /\ discarded = {}
  /\ execs = [t \in Task |-> 0]
  /\ faults = 0

TaskEnds(w) == TaskSucceeds(w) \/ TaskFails(w) \/ ExecutionTimesOut(w)
Decide(w) == RejectDelivery(w) \/ pushToTimeoutAmqpQueue(w) \/ ExecuteTask(w)

Next ==
  \/ \E t \in Task : SendTask(t) \/ StartDeadlinePasses(t)
  \/ \E w \in Worker, m \in MsgId : Deliver(w, m)
  \/ \E w \in Worker : Decide(w) \/ TaskEnds(w) \/ PublishAgain(w) \/ Settle(w)
  \/ \E m \in MsgId : Expire(m)
  \/ ChannelCloses \/ Crash

Spec == Init /\ [][Next]_vars

(* RabbitMQ delivers and expires what it can; a worker's goroutine is      *)
(* scheduled; a running task ends at the latest with its deadline.  Task   *)
(* functions need not return, and clients, start deadlines and faults need *)
(* not happen.                                                             *)
Fairness ==
  /\ \A m \in MsgId : WF_vars(\E w \in Worker : Deliver(w, m)) /\ WF_vars(Expire(m))
  /\ \A w \in Worker : /\ WF_vars(Decide(w)) /\ WF_vars(TaskEnds(w))
                       /\ WF_vars(PublishAgain(w)) /\ WF_vars(Settle(w))

FairSpec == Spec /\ Fairness

-----------------------------------------------------------------------------
(* Properties.                                                             *)

(* Every variable has its type: a worker has a signature exactly while it  *)
(* is busy, a message name has one exactly while it names a message, and   *)
(* the two fixed variables hold what the constants allow.                  *)
TypeOK ==
  /\ cfg \in Configs
  /\ request \in [Task -> Submissions]
  /\ client \in [Task -> {"unsent", "confirmed", "error"}]
  /\ place \in [MsgId -> Queues \cup {"free", "unacked"}]
  /\ sig \in [MsgId -> Signature \cup {None}]
  /\ \A m \in MsgId : sig[m] = None <=> place[m] = "free"
  /\ ttl \in [MsgId -> TTLs]
  /\ pc \in [Worker -> {"idle", "received", "running", "publish", "ack", "requeue", "drop"}]
  /\ job \in [Worker -> MsgId \cup {None}]
  /\ wsig \in [Worker -> Signature \cup {None}]
  /\ \A w \in Worker : wsig[w] = None <=> pc[w] = "idle"
  /\ late \subseteq Task /\ completed \subseteq Task /\ discarded \subseteq Task
  /\ execs \in [Task -> Nat]
  /\ faults \in 0..MaxFaults

(* The submissions for which the code keeps its promises: a bound routing  *)
(* key, an ETA in the future only together with the delayed queue's key,   *)
(* no 5 ms expiration on the way to a parking queue, and few enough        *)
(* retries for every retry interval to be positive.  What happens to the   *)
(* others is the subject of the runs that expect a violation.              *)
SafeSubmission(c, s) ==
  /\ s.RoutingKey \in {""} \cup {b[2] : b \in setupExchangeQueueBinding(c)}
  /\ s.ETA = "future" => s.RoutingKey = c.DelayedQueue
  /\ s.urgent /\ s.TaskTimeOut => s.raw /\ s.ETA = "nil"
  /\ s.RetryCount < DelayOverflow
SafeSubmissions == \A c \in Configs, s \in Submissions : SafeSubmission(c, s)

Pending(t) == \E m \in MsgId : place[m] # "free" /\ sig[m].task = t
Resolved(t) == t \in completed \cup discarded

(* A task whose publish was confirmed to the client is never lost: until a *)
(* worker saw it succeed, or the code decided to drop it, some message     *)
(* still carries it, whatever deliveries, publishes, closing channels and  *)
(* crashes come in between.                                                *)
NoTaskLost == \A t \in Task : client[t] = "confirmed" => Pending(t) \/ Resolved(t)

(* Why no task is lost: the inductive invariant.  A delivery is held by    *)
(* one worker, which works on a copy of it...                              *)
Parking == {cfg.FailedQueue, cfg.TimeoutQueue} \ {""}

HeldOnce ==
  /\ \A w \in Worker : job[w] # None =>
       pc[w] # "idle" /\ place[job[w]] = "unacked" /\ sig[job[w]].task = wsig[w].task
  /\ \A v, w \in Worker : job[v] = job[w] /\ job[v] # None => v = w

(* ... a message can expire only in the delayed queue ...                  *)
ExpiryIsDelay ==
  \A m \in MsgId : place[m] # "free" =>
    /\ sig[m].urgent /\ sig[m].TaskTimeOut => sig[m].raw
    /\ sig[m].RetryCount < DelayOverflow
    /\ place[m] # cfg.DelayedQueue => ttl[m] = "none" /\ sig[m].ETA # "future"
    /\ place[m] = cfg.DelayedQueue => ttl[m] = IF sig[m].ETA = "future" THEN "eta" ELSE "none"

(* ... a busy worker publishes to the delayed queue with one more retry,   *)
(* or to a parking queue without an expiration ...                         *)
PublishesOnward ==
  \A w \in Worker : pc[w] # "idle" =>
    /\ ~(wsig[w].urgent /\ wsig[w].TaskTimeOut)
    /\ wsig[w].RetryCount < DelayOverflow
    /\ pc[w] \in {"received", "running"} =>
         /\ wsig[w].ETA # "future"
         /\ job[w] # None => wsig[w].RetriesDone = sig[job[w]].RetriesDone
    /\ pc[w] = "publish" =>
         \/ wsig[w].RoutingKey \in Parking /\ wsig[w].ETA # "future"
         \/ /\ wsig[w].RoutingKey = cfg.DelayedQueue /\ wsig[w].ETA = "future"
            /\ job[w] # None => wsig[w].RetriesDone > sig[job[w]].RetriesDone

(* ... so that the message it acknowledges is not the last one: its task   *)
(* is resolved, or a message parked for good or with more retries done     *)
(* carries it.  "More" keeps two messages from vouching for each other.    *)
Supersedes(n, m) ==
  /\ place[n] # "free" /\ sig[n].task = sig[m].task
  /\ place[n] \in Parking \/ sig[n].RetriesDone > sig[m].RetriesDone

AckIsSafe ==
  \A w \in Worker :
    /\ pc[w] = "ack" /\ job[w] # None =>
         Resolved(wsig[w].task) \/ \E n \in MsgId : Supersedes(n, job[w])
    /\ pc[w] = "drop" => Resolved(wsig[w].task)

IndInv ==
  TypeOK /\ HeldOnce /\ ExpiryIsDelay /\ PublishesOnward /\ AckIsSafe /\ NoTaskLost

(* Without a fault the task function is started at most RetryCount + 1     *)
(* times, and f faults add no more than what they have to.  A fault can    *)
(* revive every message of the task whose retry is already out and which   *)
(* is not acknowledged yet, so H(r, f), one more than the starts that a    *)
(* message with r starts left may cause, obeys H(r, f) = H(r - 1, f) +     *)
(* H(r, f - 1): a binomial coefficient.                                    *)
AttemptsBounded ==
  \A t \in Task : execs[t] < choose(request[t].RetryCount + faults + 2, faults + 1)

(* A retry is never published to the task queue itself: a stored message   *)
(* that counts a retry comes from the delayed queue or is a requeued one.  *)
RetriesAreDelayed ==
  [][\A m \in MsgId : place[m] = "free" /\ place'[m] = cfg.TaskQueueName
                         => sig'[m].RetriesDone = 0]_vars

Parked(t) ==
  \E m \in MsgId : place[m] \in {cfg.FailedQueue, cfg.TimeoutQueue} /\ sig[m].task = t

(* Every confirmed task is some day completed or dropped, or waits in the  *)
(* failed or the timeout queue for somebody to look at it.                 *)
EveryTaskSettles ==
  \A t \in Task : client[t] = "confirmed" ~> Resolved(t) \/ Parked(t)

(* The system comes to rest: some day only parked messages are left, and   *)
(* no worker is busy.  Retries, requeues and redeliveries all end.         *)
Quiesces ==
  <>[](/\ \A m \in MsgId : place[m] \in {"free", cfg.FailedQueue, cfg.TimeoutQueue}
       /\ \A w \in Worker : pc[w] = "idle")

(* The tasks a client had confirmed are the accepted ones of TaskQueue,    *)
(* those that some message carries the pending ones, and those a worker    *)
(* completed or the code dropped the resolved ones: TaskRegistrar          *)
(* implements TaskQueue.                                                   *)
TQ == INSTANCE TaskQueue WITH
        accepted <- {t \in Task : client[t] = "confirmed"},
        pending <- {t \in Task : Pending(t)},
        resolved <- completed \cup discarded
ImplementsTaskQueue == TQ!Spec

-----------------------------------------------------------------------------
(* What the documentation says, and the code does not do for every         *)
(* submission (README.md:169, the log line of retryTask, README.md:171 for *)
(* which RetriesAreDelayed is the property).                               *)

(* A task submitted with an empty routing key gets the default one, so     *)
(* that once confirmed it is on a queue until it is resolved.              *)
EmptyKeyIsDefaulted ==
  \A t \in Task : client[t] = "confirmed" /\ request[t].RoutingKey = ""
                   => Pending(t) \/ Resolved(t)

(* A task whose retries are exhausted is pushed to the failed queue, which *)
(* no worker consumes: it stays there.                                     *)
FailedTasksAreKept ==
  [][\A m \in MsgId : place[m] = cfg.FailedQueue => place'[m] = cfg.FailedQueue]_vars
=============================================================================
