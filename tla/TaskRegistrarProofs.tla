------------------------ MODULE TaskRegistrarProofs ------------------------
(* Proofs about TaskRegistrar, for any number of tasks, workers, messages  *)
(* and faults: its inductive invariant, and the refinement of TaskQueue.   *)
EXTENDS TaskRegistrar, TLAPS

-----------------------------------------------------------------------------
(* Routing: a direct exchange puts a message where its key says.           *)

(* The names of a configuration that differ. *)
LEMMA Names ==
  ASSUME cfg \in Configs
  PROVE  /\ cfg \in Config
         /\ cfg.ExchangeType = "direct"
         /\ cfg.DelayedQueue # cfg.TaskQueueName /\ cfg.DelayedQueue # cfg.BindingKey
         /\ \A n \in {cfg.TaskQueueName, cfg.DelayedQueue, cfg.BindingKey} :
              n \notin {"", "free", "unacked"} /\ n \notin Parking
         /\ "free" \notin Parking /\ "unacked" \notin Parking /\ "" \notin Parking
BY ConfigsAssumption DEF ConfigOK, isDirectExchange, Parking

(* A direct exchange puts a message where its key says, queue by queue. *)
LEMMA Bound ==
  ASSUME cfg \in Configs, NEW q, NEW k
  PROVE  q \in Routed(cfg, k) <=>
           \/ q = cfg.TaskQueueName /\ k = cfg.BindingKey
           \/ q = cfg.DelayedQueue /\ k = cfg.DelayedQueue
           \/ q \in Parking /\ k = q
<1> DEFINE B == setupExchangeQueueBinding(cfg)
<1>1. ~IgnoresKey(cfg.ExchangeType)
  BY ConfigsAssumption DEF ConfigOK, isDirectExchange, IgnoresKey
<1>2. q \in Routed(cfg, k) <=> \E c \in B : c[2] = k /\ c[1] = q
  BY <1>1 DEF Routed
<1>3. \A c : c \in B <=> \/ c = <<cfg.TaskQueueName, cfg.BindingKey>>
                        \/ c = <<cfg.DelayedQueue, cfg.DelayedQueue>>
                        \/ \E p \in Parking : c = <<p, p>>
  BY DEF setupExchangeQueueBinding, Parking
<1> HIDE DEF B
<1>4. ASSUME NEW c \in B, c[2] = k, c[1] = q
      PROVE  \/ q = cfg.TaskQueueName /\ k = cfg.BindingKey
             \/ q = cfg.DelayedQueue /\ k = cfg.DelayedQueue
             \/ q \in Parking /\ k = q
  <2>1. CASE c = <<cfg.TaskQueueName, cfg.BindingKey>>
    BY <1>4, <2>1
  <2>2. CASE c = <<cfg.DelayedQueue, cfg.DelayedQueue>>
    BY <1>4, <2>2
  <2>3. CASE \E p \in Parking : c = <<p, p>>
    BY <1>4, <2>3
  <2> QED
    BY <1>3, <1>4, <2>1, <2>2, <2>3
<1>5. q = cfg.TaskQueueName /\ k = cfg.BindingKey => <<q, k>> \in B
  BY <1>3
<1>6. q = cfg.DelayedQueue /\ k = cfg.DelayedQueue => <<q, k>> \in B
  BY <1>3
<1>7. q \in Parking /\ k = q => <<q, k>> \in B
  BY <1>3
<1>8. <<q, k>>[1] = q /\ <<q, k>>[2] = k
  OBVIOUS
<1> QED
  BY <1>2, <1>4, <1>5, <1>6, <1>7, <1>8

(* Destination, for each key the code publishes with. *)
LEMMA Routing ==
  ASSUME cfg \in Configs
  PROVE  /\ getRoutingKey(cfg) = cfg.BindingKey
         /\ Destination(cfg.BindingKey) = cfg.TaskQueueName
         /\ Destination(cfg.DelayedQueue) = cfg.DelayedQueue
         /\ \A k \in Parking : Destination(k) = k
<1>1. getRoutingKey(cfg) = cfg.BindingKey
  BY Names DEF isDirectExchange, getRoutingKey
<1>2. ASSUME NEW k, NEW q, q \in Routed(cfg, k)
      PROVE  /\ k = cfg.BindingKey => q = cfg.TaskQueueName
             /\ k = cfg.DelayedQueue => q = k
             /\ k \in Parking => q = k
  <2>1. \/ q = cfg.TaskQueueName /\ k = cfg.BindingKey
        \/ q = cfg.DelayedQueue /\ k = cfg.DelayedQueue
        \/ q \in Parking /\ k = q
    BY <1>2, Bound
  <2> QED
    BY <2>1, Names
<1>3. cfg.TaskQueueName \in Routed(cfg, cfg.BindingKey)
  BY Bound
<1>4. cfg.DelayedQueue \in Routed(cfg, cfg.DelayedQueue)
  BY Bound
<1>5. \A k \in Parking : k \in Routed(cfg, k)
  BY Bound
<1> QED
  BY <1>1, <1>2, <1>3, <1>4, <1>5 DEF Destination

(* The exchange puts a message into a queue, or nowhere. *)
LEMMA DestinationType ==
  ASSUME cfg \in Configs, NEW k
  PROVE  Destination(k) \in Queues \cup {"free"}
<1>1. \A q \in Routed(cfg, k) : q \in Queues
  BY ConfigsAssumption, Bound DEF Queues, Parking, ConfigOK
<1> QED
  BY <1>1 DEF Destination

-----------------------------------------------------------------------------
(* Signatures: what decoding, retrying and redirecting leave alone.        *)

(* A submission is a signature. *)
LEMMA SentSignature ==
  ASSUME TypeOK, NEW t \in Task
  PROVE  /\ AsSent(t) \in Signature
         /\ AsSent(t).task = t
         /\ AsSent(t).RetryCount = request[t].RetryCount
         /\ AsSent(t).ETA = request[t].ETA
         /\ AsSent(t).RoutingKey = request[t].RoutingKey
         /\ AsSent(t).urgent = request[t].urgent
         /\ AsSent(t).TaskTimeOut = request[t].TaskTimeOut
         /\ AsSent(t).raw = request[t].raw
<1>1. request[t] \in Submissions
  BY DEF TypeOK
<1> QED
  BY <1>1, SubmissionsAssumption DEF AsSent, Signature

(* A signature with another routing key is a signature. *)
LEMMA RedirectedSignature ==
  ASSUME NEW s \in Signature, NEW k \in STRING
  PROVE  /\ [s EXCEPT !.RoutingKey = k] \in Signature
         /\ [s EXCEPT !.TaskTimeOut = FALSE, !.RoutingKey = k] \in Signature
<1> DEFINE u == [s EXCEPT !.TaskTimeOut = FALSE]
<1>1. u \in Signature
  BY DEF Signature
<1>2. [u EXCEPT !.RoutingKey = k] \in Signature
  BY <1>1 DEF Signature
<1>3. [s EXCEPT !.TaskTimeOut = FALSE, !.RoutingKey = k] = [u EXCEPT !.RoutingKey = k]
  BY DEF Signature
<1> QED
  BY <1>2, <1>3 DEF Signature

(* Decoding yields a signature of the same task with the same retries. *)
LEMMA DecodedSignature ==
  ASSUME NEW s \in Signature, NEW eta \in Aged(s.ETA)
  PROVE  LET d == [Decoded(s) EXCEPT !.ETA = eta]
         IN  /\ d \in Signature
             /\ d.ETA = eta /\ (eta = "future" => s.ETA = "future")
             /\ d.task = s.task
             /\ d.RetryCount = s.RetryCount /\ d.RetriesDone = s.RetriesDone
             /\ d.TaskTimeOut = s.TaskTimeOut
             /\ d.urgent => s.urgent /\ ~s.raw
<1> DEFINE r == [s EXCEPT !.urgent = FALSE]
           h == [r EXCEPT !.RoutingKey = ""]
<1>1. r \in Signature
  BY DEF Signature
<1>2. h \in Signature
  <2>1. ASSUME NEW x \in Signature, NEW k \in STRING
        PROVE  [x EXCEPT !.RoutingKey = k] \in Signature
    BY DEF Signature
  <2> QED
    BY <1>1, <2>1, EmptyKeyAssumption
<1>3. [s EXCEPT !.urgent = FALSE, !.RoutingKey = ""] = h
  BY DEF Signature
<1>4. Decoded(s) \in Signature
  BY <1>2, <1>3 DEF Decoded
<1>5. eta \in ETAs /\ (eta = "future" => s.ETA = "future")
  BY DEF Aged, ETAs, Signature
<1>6. [Decoded(s) EXCEPT !.ETA = eta] \in Signature
  BY <1>4, <1>5 DEF Signature
<1>7. /\ Decoded(s).task = s.task
      /\ Decoded(s).RetryCount = s.RetryCount /\ Decoded(s).RetriesDone = s.RetriesDone
      /\ Decoded(s).TaskTimeOut = s.TaskTimeOut
      /\ Decoded(s).urgent => s.urgent /\ ~s.raw
  <2>1. CASE s.raw
    BY <2>1 DEF Decoded, Signature
  <2>2. CASE ~s.raw
    BY <2>2 DEF Decoded
  <2> QED
    BY <2>1, <2>2
<1> DEFINE d == [Decoded(s) EXCEPT !.ETA = eta]
<1>8. /\ d.ETA = eta /\ d.task = Decoded(s).task
      /\ d.RetryCount = Decoded(s).RetryCount /\ d.RetriesDone = Decoded(s).RetriesDone
      /\ d.TaskTimeOut = Decoded(s).TaskTimeOut /\ d.urgent = Decoded(s).urgent
  BY <1>4 DEF Signature
<1> QED
  BY <1>5, <1>6, <1>7, <1>8

(* A retry is a signature of the same task with one more retry done. *)
LEMMA RetriedSignature ==
  ASSUME NEW s \in Signature, cfg \in Configs
  PROVE  /\ Retried(s) \in Signature
         /\ Retried(s).task = s.task /\ Retried(s).RetryCount = s.RetryCount
         /\ Retried(s).RetriesDone = s.RetriesDone + 1
         /\ Retried(s).RoutingKey = cfg.DelayedQueue /\ Retried(s).ETA = "future"
         /\ Retried(s).urgent = s.urgent /\ Retried(s).TaskTimeOut = s.TaskTimeOut
<1> DEFINE n == [s EXCEPT !.RetriesDone = @ + 1]
           k == [n EXCEPT !.RoutingKey = cfg.DelayedQueue]
<1>1. cfg.DelayedQueue \in STRING
  BY Names DEF Config
<1>2. n \in Signature
  BY DEF Signature
<1>3. k \in Signature
  BY <1>1, <1>2 DEF Signature
<1>4. [k EXCEPT !.ETA = "future"] \in Signature
  BY <1>3 DEF Signature, ETAs
<1>5. Retried(s) = [k EXCEPT !.ETA = "future"]
  BY DEF Retried, Signature
<1>6. Retried(s) \in Signature
  BY <1>4, <1>5
<1> QED
  BY <1>1, <1>6 DEF Retried, Signature

-----------------------------------------------------------------------------
(* Storing and removing messages.                                          *)

(* What Store does to the broker: nothing, or one more message under a     *)
(* name that was free.                                                     *)
Stored(s, n) ==
  /\ place[n] = "free" /\ Destination(PublishKey(s)) # "free"
  /\ place' = [place EXCEPT ![n] = Destination(PublishKey(s))]
  /\ sig' = [sig EXCEPT ![n] = s]
  /\ ttl' = [ttl EXCEPT ![n] = getTaskTTL(s)]

(* Store stores one message at most, under a free name. *)
LEMMA StoreEffect ==
  ASSUME NEW s, Store(s)
  PROVE  \/ UNCHANGED broker /\ Destination(PublishKey(s)) = "free"
         \/ \E n \in MsgId : Stored(s, n)
<1>1. FreeId \in MsgId /\ place[FreeId] = "free"
  BY DEF Store, FreeId
<1> QED
  BY <1>1 DEF Store, Stored, broker

(* getTaskTTL returns an expiration. *)
LEMMA TTLType ==
  ASSUME NEW s \in Signature
  PROVE  /\ getTaskTTL(s) \in TTLs
         /\ s.ETA = "nil" => getTaskTTL(s) = "none"
         /\ ~(s.urgent /\ s.TaskTimeOut)
              => getTaskTTL(s) = IF s.ETA = "future" THEN "eta" ELSE "none"
<1>1. s.ETA \in {"nil", "past", "future"} /\ s.urgent \in BOOLEAN /\ s.TaskTimeOut \in BOOLEAN
  BY DEF Signature, ETAs
<1>2. CASE s.ETA = "nil"
  BY <1>2 DEF getTaskTTL, TTLs
<1>3. CASE s.ETA = "past"
  BY <1>1, <1>3 DEF getTaskTTL, TTLs
<1>4. CASE s.ETA = "future"
  BY <1>1, <1>4 DEF getTaskTTL, TTLs
<1> QED
  BY <1>1, <1>2, <1>3, <1>4

BrokerTypeOK ==
  /\ place \in [MsgId -> Queues \cup {"free", "unacked"}]
  /\ sig \in [MsgId -> Signature \cup {None}]
  /\ \A m \in MsgId : sig[m] = None <=> place[m] = "free"
  /\ ttl \in [MsgId -> TTLs]

(* Storing a message keeps the broker's type. *)
LEMMA StoreType ==
  ASSUME TypeOK, NEW s \in Signature, NEW n \in MsgId, Stored(s, n), UNCHANGED cfg
  PROVE  BrokerTypeOK'
<1>1. Destination(PublishKey(s)) \in Queues
  BY DestinationType DEF TypeOK, Stored
<1>2. Queues' = Queues
  BY DEF Queues
<1> QED
  BY <1>1, <1>2, TTLType, NoneAssumption DEF TypeOK, BrokerTypeOK, Stored

(* Removing a message keeps the broker's type. *)
LEMMA RemoveType ==
  ASSUME TypeOK, NEW m \in MsgId, Remove(m), UNCHANGED cfg
  PROVE  BrokerTypeOK'
<1>1. Queues' = Queues
  BY DEF Queues
<1> QED
  BY <1>1 DEF TypeOK, BrokerTypeOK, Remove, TTLs

-----------------------------------------------------------------------------
(* Type correctness.  A requeue needs HeldOnce: what a worker returns to   *)
(* the task queue is a message.                                            *)

(* Every step keeps TypeOK. *)
LEMMA TypeStep ==
  ASSUME TypeOK, HeldOnce, Next
  PROVE  TypeOK'
<1> USE DEF fixed, worker, ghosts
<1>0. /\ cfg \in Configs /\ cfg' = cfg /\ Queues' = Queues /\ cfg.TaskQueueName \in Queues
      /\ cfg.DelayedQueue \in STRING /\ cfg.FailedQueue \in STRING /\ cfg.TimeoutQueue \in STRING
  <2>1. cfg \in Configs /\ cfg' = cfg
    BY DEF TypeOK, Next, SendTask, StartDeadlinePasses, Deliver, Decide,
           RejectDelivery, pushToTimeoutAmqpQueue, ExecuteTask, TaskEnds, TaskSucceeds,
           TaskFails, ExecutionTimesOut, PublishAgain, Settle, Expire, ChannelCloses, Crash
  <2> QED
    BY <2>1, Names DEF Queues, Config
<1>1. ASSUME NEW t \in Task, SendTask(t) PROVE TypeOK'
  <2>1. BrokerTypeOK'
    <3>1. CASE Store(AsSent(t))
      BY <1>0, <3>1, StoreEffect, StoreType, SentSignature DEF TypeOK, BrokerTypeOK, broker
    <3>2. CASE UNCHANGED broker
      BY <1>0, <3>2 DEF TypeOK, BrokerTypeOK, broker
    <3> QED
      BY <1>1, <3>1, <3>2 DEF SendTask, PublishOk, PublishFails
  <2>2. faults' \in 0..MaxFaults
    BY <1>1, BoundsAssumption DEF TypeOK, SendTask, PublishOk, PublishFails, Fault
  <2> QED
    BY <1>1, <2>1, <2>2 DEF TypeOK, BrokerTypeOK, SendTask
<1>2. ASSUME NEW t \in Task, StartDeadlinePasses(t) PROVE TypeOK'
  BY <1>0, <1>2 DEF TypeOK, StartDeadlinePasses, broker
<1>3. ASSUME NEW w \in Worker, NEW m \in MsgId, Deliver(w, m) PROVE TypeOK'
  <2>1. place[m] # "free" /\ sig[m] \in Signature
    BY <1>0, <1>3, Names DEF TypeOK, Deliver
  <2>2. PICK eta \in Aged(sig[m].ETA) :
          wsig' = [wsig EXCEPT ![w] = [Decoded(sig[m]) EXCEPT !.ETA = eta]]
    BY <1>3 DEF Deliver
  <2>3. [Decoded(sig[m]) EXCEPT !.ETA = eta] \in Signature
    BY <2>1, DecodedSignature
  <2> QED
    BY <1>0, <1>3, <2>1, <2>2, <2>3, NoneAssumption DEF TypeOK, Deliver
<1>4. ASSUME NEW w \in Worker, Decide(w) PROVE TypeOK'
  <2>1. wsig[w] \in Signature
    BY <1>4 DEF TypeOK, Decide, RejectDelivery, pushToTimeoutAmqpQueue, ExecuteTask
  <2>2. wsig[w].task \in Task
    BY <2>1 DEF Signature
  <2>3. CASE RejectDelivery(w)
    BY <1>0, <2>1, <2>2, <2>3 DEF TypeOK, RejectDelivery, broker
  <2>4. CASE pushToTimeoutAmqpQueue(w)
    <3>1. [wsig[w] EXCEPT !.TaskTimeOut = FALSE, !.RoutingKey = cfg.TimeoutQueue] \in Signature
      BY <1>0, <2>1, RedirectedSignature
    <3>2. discarded' \subseteq Task
      <4>1. discarded' = discarded \/ discarded' = discarded \cup {wsig[w].task}
        BY <2>4 DEF pushToTimeoutAmqpQueue
      <4> QED
        BY <2>2, <4>1 DEF TypeOK
    <3>3. \/ UNCHANGED wsig
          \/ wsig' = [wsig EXCEPT ![w] =
                [wsig[w] EXCEPT !.TaskTimeOut = FALSE, !.RoutingKey = cfg.TimeoutQueue]]
      BY <2>4 DEF pushToTimeoutAmqpQueue
    <3>4. \/ pc' = [pc EXCEPT ![w] = "ack"]
          \/ pc' = [pc EXCEPT ![w] = "publish"]
      BY <2>4 DEF pushToTimeoutAmqpQueue
    <3>5. /\ wsig' \in [Worker -> Signature \cup {None}]
          /\ wsig'[w] # None /\ \A v \in Worker \ {w} : wsig'[v] = wsig[v]
      BY <2>1, <3>1, <3>3, NoneAssumption DEF TypeOK
    <3>6. pc[w] = "received" /\ UNCHANGED <<fixed, client, broker, job, late,
                                            completed, execs, faults>>
      BY <2>4 DEF pushToTimeoutAmqpQueue
    <3>7. /\ pc' \in [Worker -> {"idle", "received", "running", "publish", "ack", "requeue", "drop"}]
          /\ \A v \in Worker : wsig'[v] = None <=> pc'[v] = "idle"
      BY <3>4, <3>5, <3>6 DEF TypeOK
    <3> QED
      BY <1>0, <3>2, <3>5, <3>6, <3>7 DEF TypeOK, broker
  <2>5. CASE ExecuteTask(w)
    BY <1>0, <2>1, <2>2, <2>5 DEF TypeOK, ExecuteTask, broker
  <2> QED
    BY <1>4, <2>3, <2>4, <2>5 DEF Decide
<1>5. ASSUME NEW w \in Worker, TaskEnds(w) PROVE TypeOK'
  <2>1. wsig[w] \in Signature
    BY <1>5 DEF TypeOK, TaskEnds, TaskSucceeds, TaskFails, ExecutionTimesOut
  <2>2. wsig[w].task \in Task
    BY <2>1 DEF Signature
  <2>3. CASE TaskSucceeds(w)
    BY <1>0, <2>1, <2>2, <2>3 DEF TypeOK, TaskSucceeds, broker
  <2>4. ASSUME pc[w] = "running", retryTask(w)
        PROVE  /\ pc' \in [Worker -> {"idle", "received", "running", "publish", "ack",
                                      "requeue", "drop"}]
               /\ wsig' \in [Worker -> Signature \cup {None}]
               /\ \A v \in Worker : wsig'[v] = None <=> pc'[v] = "idle"
               /\ discarded' \subseteq Task
    <3>1. /\ [wsig[w] EXCEPT !.RoutingKey = cfg.FailedQueue] \in Signature
          /\ Retried(wsig[w]) \in Signature
      BY <1>0, <2>1, RedirectedSignature, RetriedSignature
    <3>2. \/ UNCHANGED wsig
          \/ wsig' = [wsig EXCEPT ![w] = [wsig[w] EXCEPT !.RoutingKey = cfg.FailedQueue]]
          \/ wsig' = [wsig EXCEPT ![w] = Retried(wsig[w])]
      BY <2>4 DEF retryTask
    <3>3. wsig' \in [Worker -> Signature \cup {None}] /\ wsig'[w] # None
      BY <2>1, <3>1, <3>2, NoneAssumption DEF TypeOK
    <3>4. \A v \in Worker \ {w} : wsig'[v] = wsig[v]
      BY <3>2 DEF TypeOK
    <3>5. \/ pc' = [pc EXCEPT ![w] = "ack"]
          \/ pc' = [pc EXCEPT ![w] = "publish"]
      BY <2>4 DEF retryTask
    <3>6. discarded' \subseteq Task
      <4>1. discarded' = discarded \/ discarded' = discarded \cup {wsig[w].task}
        BY <2>4 DEF retryTask
      <4> QED
        BY <2>2, <4>1 DEF TypeOK
    <3> QED
      BY <3>3, <3>4, <3>5, <3>6 DEF TypeOK
  <2>5. CASE TaskFails(w) \/ ExecutionTimesOut(w)
    BY <1>0, <2>1, <2>2, <2>4, <2>5 DEF TypeOK, TaskFails, ExecutionTimesOut, broker
  <2> QED
    BY <1>5, <2>3, <2>5 DEF TaskEnds
<1>6. ASSUME NEW w \in Worker, PublishAgain(w) PROVE TypeOK'
  <2>1. wsig[w] \in Signature
    BY <1>6 DEF TypeOK, PublishAgain
  <2>2. BrokerTypeOK'
    <3>1. CASE Store(wsig[w])
      BY <1>0, <2>1, <3>1, StoreEffect, StoreType DEF TypeOK, BrokerTypeOK, broker
    <3>2. CASE UNCHANGED broker
      BY <1>0, <3>2 DEF TypeOK, BrokerTypeOK, broker
    <3> QED
      BY <1>6, <3>1, <3>2 DEF PublishAgain, PublishOk, PublishFails
  <2>3. faults' \in 0..MaxFaults
    BY <1>6, BoundsAssumption DEF TypeOK, PublishAgain, PublishOk, PublishFails, Fault
  <2> QED
    BY <1>6, <2>2, <2>3 DEF TypeOK, BrokerTypeOK, PublishAgain
<1>7. ASSUME NEW w \in Worker, Settle(w) PROVE TypeOK'
  <2>1. BrokerTypeOK'
    <3>1. CASE job[w] = None
      BY <1>0, <1>7, <3>1 DEF TypeOK, BrokerTypeOK, Settle, broker
    <3>2. CASE job[w] # None /\ pc[w] = "requeue"
      <4>1. job[w] \in MsgId /\ place[job[w]] = "unacked"
        BY <3>2 DEF TypeOK, HeldOnce
      <4>2. place' = [place EXCEPT ![job[w]] = cfg.TaskQueueName] /\ UNCHANGED <<sig, ttl>>
        BY <1>7, <3>2 DEF Settle
      <4> QED
        BY <1>0, <4>1, <4>2, Names DEF TypeOK, BrokerTypeOK
    <3>3. CASE job[w] # None /\ pc[w] # "requeue"
      BY <1>0, <1>7, <3>3, RemoveType DEF TypeOK, Settle
    <3> QED
      BY <3>1, <3>2, <3>3
  <2> QED
    BY <1>0, <1>7, <2>1, NoneAssumption DEF TypeOK, BrokerTypeOK, Settle, Finish
<1>8. ASSUME NEW m \in MsgId, Expire(m) PROVE TypeOK'
  <2>1. place[m] # "free" /\ sig[m] \in Signature
    <3>1. place[m] \in Queues
      BY <1>8 DEF Expire
    <3>2. "free" \notin Queues
      BY <1>0, Names DEF Queues, Parking
    <3>3. sig[m] \in Signature \cup {None} /\ (sig[m] = None <=> place[m] = "free")
      BY DEF TypeOK
    <3> QED
      BY ONLY <3>1, <3>2, <3>3
  <2>2. BrokerTypeOK'
    <3> DEFINE q == Destination(getRoutingKey(cfg))
               eta == IF ttl[m] = "eta" THEN "past" ELSE sig[m].ETA
    <3>1. CASE Remove(m)
      BY <1>0, <3>1, RemoveType
    <3>2. CASE /\ q # "free" /\ place' = [place EXCEPT ![m] = q]
               /\ ttl' = [ttl EXCEPT ![m] = "none"]
               /\ sig' = [sig EXCEPT ![m] = [sig[m] EXCEPT !.ETA = eta]]
      <4>1. q \in Queues
        BY <1>0, <3>2, DestinationType
      <4>2. eta \in ETAs
        BY <2>1 DEF Signature, ETAs
      <4>3. [sig[m] EXCEPT !.ETA = eta] \in Signature
        BY <2>1, <4>2 DEF Signature
      <4> HIDE DEF q, eta
      <4> QED
        BY <1>0, <2>1, <3>2, <4>1, <4>3, NoneAssumption DEF TypeOK, BrokerTypeOK, TTLs
    <3> QED
      BY <1>8, <3>1, <3>2 DEF Expire
  <2> QED
    BY <1>0, <1>8, <2>2 DEF TypeOK, BrokerTypeOK, Expire
<1>9. ASSUME ChannelCloses \/ Crash PROVE TypeOK'
  <2>1. BrokerTypeOK'
    <3>1. /\ UNCHANGED <<sig, ttl>>
          /\ place' = [m \in MsgId |->
                         IF place[m] = "unacked" THEN cfg.TaskQueueName ELSE place[m]]
      BY <1>9 DEF ChannelCloses, Crash, RequeueUnacked
    <3>2. \A m \in MsgId : place'[m] = "free" <=> place[m] = "free"
      BY <3>1, Names, <1>0
    <3>3. place' \in [MsgId -> Queues \cup {"free", "unacked"}]
      BY <1>0, <3>1 DEF TypeOK
    <3> QED
      BY <1>0, <3>1, <3>2, <3>3 DEF TypeOK, BrokerTypeOK
  <2>2. faults' \in 0..MaxFaults
    BY <1>9, BoundsAssumption DEF TypeOK, ChannelCloses, Crash, Fault
  <2> QED
    BY <1>0, <1>9, <2>1, <2>2 DEF TypeOK, BrokerTypeOK, ChannelCloses, Crash
<1> QED
  BY <1>1, <1>2, <1>3, <1>4, <1>5, <1>6, <1>7, <1>8, <1>9 DEF Next

-----------------------------------------------------------------------------
(* A delivery is held once.  What a decision, the end of a task function   *)
(* and a publish have in common: one worker moves on with a signature of   *)
(* the same task, and no delivery changes hands.                           *)

Moves(w) ==
  /\ pc[w] # "idle" /\ UNCHANGED job
  /\ pc' \in [Worker -> {"idle", "received", "running", "publish", "ack", "requeue", "drop"}]
  /\ pc'[w] # "idle" /\ wsig'[w].task = wsig[w].task
  /\ \A v \in Worker \ {w} : pc'[v] = pc[v] /\ wsig'[v] = wsig[v]

(* retryTask changes the one worker that calls it, and not its task. *)
LEMMA RetryMoves ==
  ASSUME TypeOK, NEW w \in Worker, pc[w] = "running", retryTask(w), UNCHANGED job
  PROVE  Moves(w)
<1>1. wsig[w] \in Signature /\ cfg \in Configs
  BY DEF TypeOK
<1>2. [wsig[w] EXCEPT !.RoutingKey = cfg.FailedQueue].task = wsig[w].task
  BY <1>1 DEF Signature
<1>3. Retried(wsig[w]).task = wsig[w].task
  BY <1>1, RetriedSignature
<1>4. pc' = [pc EXCEPT ![w] = "ack"] \/ pc' = [pc EXCEPT ![w] = "publish"]
  BY DEF retryTask
<1>5. \/ UNCHANGED wsig
      \/ wsig' = [wsig EXCEPT ![w] = [wsig[w] EXCEPT !.RoutingKey = cfg.FailedQueue]]
      \/ wsig' = [wsig EXCEPT ![w] = Retried(wsig[w])]
  BY DEF retryTask
<1>6. wsig'[w].task = wsig[w].task /\ \A v \in Worker \ {w} : wsig'[v] = wsig[v]
  BY <1>2, <1>3, <1>5 DEF TypeOK
<1> QED
  BY <1>4, <1>6 DEF Moves, TypeOK

(* So does every step of a worker but the last. *)
LEMMA WorkerMoves ==
  ASSUME TypeOK, NEW w \in Worker, Decide(w) \/ TaskEnds(w) \/ PublishAgain(w)
  PROVE  Moves(w)
<1> USE DEF fixed, ghosts
<1>1. CASE RejectDelivery(w) \/ ExecuteTask(w) \/ TaskSucceeds(w) \/ PublishAgain(w)
  BY <1>1 DEF TypeOK, Moves, RejectDelivery, ExecuteTask, TaskSucceeds, PublishAgain
<1>2. CASE pushToTimeoutAmqpQueue(w)
  <2>1. wsig[w] \in Signature
    BY <1>2 DEF TypeOK, pushToTimeoutAmqpQueue
  <2>2. [wsig[w] EXCEPT !.TaskTimeOut = FALSE, !.RoutingKey = cfg.TimeoutQueue].task = wsig[w].task
    BY <2>1 DEF Signature
  <2>3. \/ UNCHANGED wsig
        \/ wsig' = [wsig EXCEPT ![w] =
              [wsig[w] EXCEPT !.TaskTimeOut = FALSE, !.RoutingKey = cfg.TimeoutQueue]]
    BY <1>2 DEF pushToTimeoutAmqpQueue
  <2>4. pc' = [pc EXCEPT ![w] = "ack"] \/ pc' = [pc EXCEPT ![w] = "publish"]
    BY <1>2 DEF pushToTimeoutAmqpQueue
  <2>5. wsig'[w].task = wsig[w].task /\ \A v \in Worker \ {w} : wsig'[v] = wsig[v]
    BY <2>2, <2>3 DEF TypeOK
  <2>6. pc[w] = "received" /\ UNCHANGED job
    BY <1>2 DEF pushToTimeoutAmqpQueue
  <2>7. pc \in [Worker -> {"idle", "received", "running", "publish", "ack", "requeue", "drop"}]
    BY DEF TypeOK
  <2> QED
    BY ONLY <2>4, <2>5, <2>6, <2>7, w \in Worker DEF Moves
<1>3. CASE TaskFails(w) \/ ExecutionTimesOut(w)
  BY <1>3, RetryMoves DEF TaskFails, ExecutionTimesOut
<1> QED
  BY <1>1, <1>2, <1>3 DEF Decide, TaskEnds

(* Storing a message leaves the deliveries alone. *)
LEMMA HeldKept ==
  ASSUME TypeOK, HeldOnce, NEW s, Store(s) \/ UNCHANGED broker
  PROVE  \A w \in Worker : job[w] # None =>
           place'[job[w]] = "unacked" /\ sig'[job[w]] = sig[job[w]]
<1>1. CASE UNCHANGED broker
  BY <1>1 DEF HeldOnce, broker
<1>2. ASSUME NEW n \in MsgId, Stored(s, n)
      PROVE  \A w \in Worker : job[w] # None =>
               place'[job[w]] = "unacked" /\ sig'[job[w]] = sig[job[w]]
  BY <1>2 DEF HeldOnce, TypeOK, Stored
<1> QED
  BY <1>1, <1>2, StoreEffect

(* A step of a worker before the last stores one message at most. *)
LEMMA WorkerStores ==
  ASSUME NEW w \in Worker, Decide(w) \/ TaskEnds(w) \/ PublishAgain(w)
  PROVE  \E s : Store(s) \/ UNCHANGED broker
BY DEF Decide, RejectDelivery, pushToTimeoutAmqpQueue, ExecuteTask, TaskEnds,
       TaskSucceeds, TaskFails, ExecutionTimesOut, PublishAgain, PublishOk, PublishFails

(* Every step keeps HeldOnce. *)
LEMMA HeldStep ==
  ASSUME TypeOK, HeldOnce, Next
  PROVE  HeldOnce'
<1> USE DEF fixed, ghosts, worker
<1>0. cfg \in Configs /\ \A m \in MsgId : place[m] = "free" => place[m] # "unacked"
  BY DEF TypeOK
<1>1. ASSUME NEW s, Store(s) \/ UNCHANGED broker
      PROVE  \A w \in Worker : job[w] # None =>
               place'[job[w]] = "unacked" /\ sig'[job[w]] = sig[job[w]]
  BY <1>1, HeldKept
<1>2. ASSUME NEW t \in Task, SendTask(t) PROVE HeldOnce'
  BY <1>1, <1>2 DEF HeldOnce, SendTask, PublishOk, PublishFails
<1>3. ASSUME NEW t \in Task, StartDeadlinePasses(t) PROVE HeldOnce'
  BY <1>3 DEF HeldOnce, StartDeadlinePasses, broker
<1>4. ASSUME NEW w \in Worker, NEW m \in MsgId, Deliver(w, m) PROVE HeldOnce'
  <2>1. place[m] # "free" /\ place[m] # "unacked" /\ sig[m] \in Signature
    BY <1>0, <1>4, Names DEF TypeOK, Deliver
  <2>2. wsig'[w].task = sig[m].task /\ \A v \in Worker \ {w} : wsig'[v] = wsig[v]
    <3>1. PICK eta \in Aged(sig[m].ETA) :
            wsig' = [wsig EXCEPT ![w] = [Decoded(sig[m]) EXCEPT !.ETA = eta]]
      BY <1>4 DEF Deliver
    <3>2. [Decoded(sig[m]) EXCEPT !.ETA = eta].task = sig[m].task
      BY <2>1, DecodedSignature
    <3> QED
      BY <3>1, <3>2 DEF TypeOK
  <2> QED
    BY <1>4, <2>1, <2>2, NoneAssumption DEF TypeOK, HeldOnce, Deliver
<1>5. ASSUME NEW w \in Worker, Decide(w) \/ TaskEnds(w) \/ PublishAgain(w) PROVE HeldOnce'
  <2>1. Moves(w)
    BY <1>5, WorkerMoves
  <2>2. \E s : Store(s) \/ UNCHANGED broker
    BY <1>5, WorkerStores
  <2> QED
    BY <1>1, <2>1, <2>2 DEF HeldOnce, Moves
<1>6. ASSUME NEW w \in Worker, Settle(w) PROVE HeldOnce'
  <2>1. \A v \in Worker \ {w} : job'[v] = job[v] /\ pc'[v] = pc[v] /\ wsig'[v] = wsig[v]
    BY <1>6 DEF TypeOK, Settle, Finish
  <2>2. job'[w] = None
    BY <1>6 DEF TypeOK, Settle, Finish
  <2>3. \A m \in MsgId : m # job[w] => place'[m] = place[m] /\ sig'[m] = sig[m]
    BY <1>6 DEF TypeOK, Settle, Remove, broker
  <2> QED
    BY <2>1, <2>2, <2>3 DEF HeldOnce, TypeOK
<1>7. ASSUME NEW m \in MsgId, Expire(m) PROVE HeldOnce'
  <2>1. place[m] # "unacked"
    BY <1>0, <1>7, ConfigsAssumption DEF Expire, Queues, ConfigOK
  <2>2. \A n \in MsgId \ {m} : place'[n] = place[n] /\ sig'[n] = sig[n]
    BY <1>7 DEF TypeOK, Expire, Remove
  <2> QED
    BY <1>7, <2>1, <2>2 DEF HeldOnce, TypeOK, Expire
<1>8. ASSUME ChannelCloses \/ Crash PROVE HeldOnce'
  BY <1>8 DEF HeldOnce, ChannelCloses, Crash
<1> QED
  BY <1>2, <1>3, <1>4, <1>5, <1>6, <1>7, <1>8 DEF Next

-----------------------------------------------------------------------------
(* Every variable keeps its type and every delivery is held by one worker  *)
(* that works on a copy of it, whatever the clients submit and however     *)
(* amqpProcessSignature ends, and through closing channels and crashes.    *)
THEOREM TypeCorrect == Spec => [](TypeOK /\ HeldOnce)
<1>1. Init => TypeOK /\ HeldOnce
  BY BoundsAssumption, NoneAssumption DEF Init, TypeOK, HeldOnce, TTLs
<1>2. TypeOK /\ HeldOnce /\ [Next]_vars => (TypeOK /\ HeldOnce)'
  <2>1. ASSUME TypeOK, HeldOnce, Next PROVE (TypeOK /\ HeldOnce)'
    BY <2>1, TypeStep, HeldStep
  <2>2. ASSUME TypeOK, HeldOnce, UNCHANGED vars PROVE (TypeOK /\ HeldOnce)'
    BY <2>2 DEF TypeOK, HeldOnce, Queues, vars, fixed, broker, worker, ghosts
  <2> QED
    BY <2>1, <2>2
<1> QED
  BY <1>1, <1>2, PTL DEF Spec

-----------------------------------------------------------------------------
(* From here on the submissions are safe.  What ExpiryIsDelay says of one  *)
(* message, of what clients send, and of what workers publish.             *)

MessageOK(s, q, x) ==
  /\ s.urgent /\ s.TaskTimeOut => s.raw
  /\ s.RetryCount < DelayOverflow
  /\ q # cfg.DelayedQueue => x = "none" /\ s.ETA # "future"
  /\ q = cfg.DelayedQueue => x = IF s.ETA = "future" THEN "eta" ELSE "none"

(* A safe submission's key is bound to a queue that exists. *)
LEMMA BoundKeys ==
  ASSUME cfg \in Configs, NEW k \in {b[2] : b \in setupExchangeQueueBinding(cfg)}
  PROVE  Destination(k) # "free"
<1>1. PICK b \in setupExchangeQueueBinding(cfg) : k = b[2]
  OBVIOUS
<1>2. b[1] \in Routed(cfg, k)
  BY <1>1 DEF Routed
<1>3. \A q \in Routed(cfg, k) : q # "free"
  <2>1. ASSUME NEW q \in Routed(cfg, k)
        PROVE  q = cfg.TaskQueueName \/ q = cfg.DelayedQueue \/ q \in Parking
    BY <2>1, Bound
  <2> QED
    BY <2>1, Names
<1> QED
  BY <1>2, <1>3 DEF Destination

(* What SendTask stores obeys ExpiryIsDelay. *)
LEMMA SentIsSafe ==
  ASSUME SafeSubmissions, TypeOK, NEW t \in Task
  PROVE  LET s == AsSent(t)
             q == Destination(PublishKey(s))
         IN  q # "free" /\ MessageOK(s, q, getTaskTTL(s))
<1> DEFINE s == AsSent(t)
           q == Destination(PublishKey(s))
<1>1. cfg \in Configs /\ request[t] \in Submissions
  BY DEF TypeOK
<1>2. /\ s.RoutingKey \in {""} \cup {b[2] : b \in setupExchangeQueueBinding(cfg)}
      /\ s.ETA = "future" => s.RoutingKey = cfg.DelayedQueue
      /\ s.urgent /\ s.TaskTimeOut => s.raw /\ s.ETA = "nil"
      /\ s.RetryCount < DelayOverflow
  <2>1. SafeSubmission(cfg, request[t])
    BY <1>1 DEF SafeSubmissions
  <2>2. /\ s.RoutingKey = request[t].RoutingKey /\ s.ETA = request[t].ETA
        /\ s.urgent = request[t].urgent /\ s.TaskTimeOut = request[t].TaskTimeOut
        /\ s.raw = request[t].raw /\ s.RetryCount = request[t].RetryCount
    BY SentSignature
  <2> HIDE DEF s
  <2> QED
    BY <2>1, <2>2 DEF SafeSubmission
<1>3. s \in Signature
  BY SentSignature
<1> HIDE DEF s
<1>4. getTaskTTL(s) = IF s.ETA = "future" THEN "eta" ELSE "none"
  BY <1>2, <1>3, TTLType
<1>5. q # "free" /\ (s.ETA = "future" => q = cfg.DelayedQueue)
  <2>1. CASE s.ETA = "future"
    <3>1. PublishKey(s) = cfg.DelayedQueue
      BY <1>1, <1>2, <1>4, <2>1, Names DEF PublishKey
    <3> QED
      BY <1>1, <3>1, Routing, Names
  <2>2. CASE s.ETA # "future" /\ s.RoutingKey = ""
    <3>1. PublishKey(s) = cfg.BindingKey
      BY <1>1, <1>4, <2>2, Routing DEF PublishKey
    <3> QED
      BY <1>1, <2>2, <3>1, Routing, Names
  <2>3. CASE s.ETA # "future" /\ s.RoutingKey # ""
    <3>1. PublishKey(s) \in {b[2] : b \in setupExchangeQueueBinding(cfg)}
      BY <1>2, <2>3 DEF PublishKey
    <3> QED
      BY <1>1, <2>3, <3>1, BoundKeys
  <2> QED
    BY <2>1, <2>2, <2>3
<1> HIDE DEF q
<1>6. MessageOK(s, q, getTaskTTL(s))
  BY <1>2, <1>4, <1>5 DEF MessageOK
<1> QED
  BY <1>5, <1>6 DEF s, q

(* A worker publishes to a parking queue without an expiration, or to the  *)
(* delayed queue with one.                                                 *)
LEMMA PublishIsSafe ==
  ASSUME TypeOK, PublishesOnward, NEW w \in Worker, pc[w] = "publish"
  PROVE  LET s == wsig[w]
             q == Destination(PublishKey(s))
         IN  /\ q # "free" /\ MessageOK(s, q, getTaskTTL(s))
             /\ q \in Parking \/ (job[w] # None => s.RetriesDone > sig[job[w]].RetriesDone)
<1> DEFINE s == wsig[w]
           q == Destination(PublishKey(s))
<1>1. cfg \in Configs /\ s \in Signature
  BY DEF TypeOK
<1>2. /\ ~(s.urgent /\ s.TaskTimeOut) /\ s.RetryCount < DelayOverflow
      /\ \/ s.RoutingKey \in Parking /\ s.ETA # "future"
         \/ /\ s.RoutingKey = cfg.DelayedQueue /\ s.ETA = "future"
            /\ job[w] # None => s.RetriesDone > sig[job[w]].RetriesDone
  BY DEF PublishesOnward
<1>3. getTaskTTL(s) = IF s.ETA = "future" THEN "eta" ELSE "none"
  BY <1>1, <1>2, TTLType
<1>4. PublishKey(s) = s.RoutingKey
  BY <1>1, <1>2, Names DEF PublishKey
<1> HIDE DEF s
<1>5. CASE s.RoutingKey \in Parking /\ s.ETA # "future"
  <2>1. q \in Parking /\ q # "free" /\ q # cfg.DelayedQueue
    BY <1>1, <1>4, <1>5, Routing, Names
  <2> HIDE DEF q
  <2>2. MessageOK(s, q, getTaskTTL(s))
    BY <1>2, <1>3, <1>5, <2>1 DEF MessageOK
  <2> QED
    BY <2>1, <2>2 DEF s, q
<1>6. CASE /\ s.RoutingKey = cfg.DelayedQueue /\ s.ETA = "future"
           /\ job[w] # None => s.RetriesDone > sig[job[w]].RetriesDone
  <2>1. q = cfg.DelayedQueue /\ q # "free"
    BY <1>1, <1>4, <1>6, Routing, Names
  <2> HIDE DEF q
  <2>2. MessageOK(s, q, getTaskTTL(s))
    BY <1>2, <1>3, <1>6, <2>1 DEF MessageOK
  <2> QED
    BY <1>6, <2>1, <2>2 DEF s, q
<1> QED
  BY <1>2, <1>5, <1>6

(* No step changes the configuration. *)
LEMMA CfgFixed ==
  ASSUME Next
  PROVE  cfg' = cfg /\ request' = request /\ Parking' = Parking
<1>1. cfg' = cfg /\ request' = request
  BY DEF Next, SendTask, StartDeadlinePasses, Deliver, Decide,
         RejectDelivery, pushToTimeoutAmqpQueue, ExecuteTask, TaskEnds, TaskSucceeds,
         TaskFails, ExecutionTimesOut, PublishAgain, Settle, Expire, ChannelCloses, Crash, fixed
<1> QED
  BY <1>1 DEF Parking

(* When the submissions are safe, only the delayed queue lets a message    *)
(* expire, and it goes to the task queue.                                  *)
LEMMA ExpireDeadLetters ==
  ASSUME TypeOK, ExpiryIsDelay, NEW m \in MsgId, Expire(m)
  PROVE  /\ place[m] = cfg.DelayedQueue /\ ttl[m] = "eta" /\ sig[m] \in Signature
         /\ place' = [place EXCEPT ![m] = cfg.TaskQueueName]
         /\ ttl' = [ttl EXCEPT ![m] = "none"]
         /\ sig' = [sig EXCEPT ![m] = [sig[m] EXCEPT !.ETA = "past"]]
<1>1. cfg \in Configs
  BY DEF TypeOK
<1>2. place[m] \in Queues /\ ttl[m] # "none" /\ place[m] # "free"
  BY <1>1, ConfigsAssumption DEF Expire, Queues, ConfigOK
<1>3. place[m] = cfg.DelayedQueue /\ ttl[m] = "eta"
  BY <1>2 DEF ExpiryIsDelay
<1>4. sig[m] \in Signature
  BY <1>2 DEF TypeOK
<1>5. Destination(getRoutingKey(cfg)) = cfg.TaskQueueName /\ cfg.TaskQueueName # "free"
  BY <1>1, Routing, Names
<1> QED
  BY <1>3, <1>4, <1>5 DEF Expire

(* Storing a message that obeys ExpiryIsDelay keeps it for all. *)
LEMMA StoreExpiry ==
  ASSUME TypeOK, ExpiryIsDelay, cfg' = cfg, NEW s, NEW n \in MsgId, Stored(s, n),
         MessageOK(s, Destination(PublishKey(s)), getTaskTTL(s))
  PROVE  ExpiryIsDelay'
BY DEF TypeOK, ExpiryIsDelay, Stored, MessageOK

(* Every step keeps ExpiryIsDelay. *)
LEMMA ExpiryStep ==
  ASSUME SafeSubmissions, TypeOK, HeldOnce, ExpiryIsDelay, PublishesOnward, Next
  PROVE  ExpiryIsDelay'
<1> USE DEF fixed, worker, ghosts
<1>0. cfg \in Configs /\ cfg' = cfg
  BY CfgFixed DEF TypeOK
<1>1. CASE UNCHANGED broker
  BY <1>0, <1>1 DEF ExpiryIsDelay, broker
<1>2. ASSUME NEW t \in Task, SendTask(t) PROVE ExpiryIsDelay'
  <2>1. CASE Store(AsSent(t))
    BY <1>0, <1>1, <2>1, StoreEffect, SentIsSafe, StoreExpiry
  <2> QED
    BY <1>1, <1>2, <2>1 DEF SendTask, PublishOk, PublishFails
<1>3. ASSUME NEW w \in Worker, NEW m \in MsgId, Deliver(w, m) PROVE ExpiryIsDelay'
  <2>1. place[m] # "free" /\ place[m] # cfg.DelayedQueue
    BY <1>0, <1>3, Names DEF Deliver
  <2>2. /\ place' = [place EXCEPT ![m] = "unacked"] /\ UNCHANGED <<sig, ttl>>
        /\ "unacked" # cfg.DelayedQueue
    BY <1>0, <1>3, Names DEF Deliver
  <2> QED
    BY <1>0, <2>1, <2>2 DEF TypeOK, ExpiryIsDelay
<1>4. ASSUME NEW w \in Worker, PublishAgain(w) PROVE ExpiryIsDelay'
  <2>1. CASE Store(wsig[w])
    BY <1>0, <1>1, <1>4, <2>1, StoreEffect, PublishIsSafe, StoreExpiry DEF PublishAgain
  <2> QED
    BY <1>1, <1>4, <2>1 DEF PublishAgain, PublishOk, PublishFails
<1>5. ASSUME NEW w \in Worker, Settle(w) PROVE ExpiryIsDelay'
  <2>1. CASE job[w] # None /\ pc[w] = "requeue"
    <3>1. job[w] \in MsgId /\ place[job[w]] = "unacked"
      BY <2>1 DEF TypeOK, HeldOnce
    <3>2. place' = [place EXCEPT ![job[w]] = cfg.TaskQueueName] /\ UNCHANGED <<sig, ttl>>
      BY <1>5, <2>1 DEF Settle
    <3>3. cfg.TaskQueueName # cfg.DelayedQueue /\ place[job[w]] # cfg.DelayedQueue
      BY <1>0, <3>1, Names
    <3> QED
      BY <1>0, <3>1, <3>2, <3>3 DEF TypeOK, ExpiryIsDelay
  <2>2. CASE job[w] # None /\ pc[w] # "requeue"
    <3>1. job[w] \in MsgId /\ Remove(job[w])
      BY <1>5, <2>2 DEF TypeOK, Settle
    <3> QED
      BY <1>0, <3>1 DEF TypeOK, ExpiryIsDelay, Remove
  <2> QED
    BY <1>1, <1>5, <2>1, <2>2 DEF Settle
<1>6. ASSUME NEW m \in MsgId, Expire(m) PROVE ExpiryIsDelay'
  <2>1. /\ place[m] = cfg.DelayedQueue /\ sig[m] \in Signature
        /\ place' = [place EXCEPT ![m] = cfg.TaskQueueName]
        /\ ttl' = [ttl EXCEPT ![m] = "none"]
        /\ sig' = [sig EXCEPT ![m] = [sig[m] EXCEPT !.ETA = "past"]]
    BY <1>6, ExpireDeadLetters
  <2> DEFINE s == [sig[m] EXCEPT !.ETA = "past"]
  <2>2. /\ s.ETA = "past" /\ s.urgent = sig[m].urgent /\ s.TaskTimeOut = sig[m].TaskTimeOut
        /\ s.raw = sig[m].raw /\ s.RetryCount = sig[m].RetryCount
    BY <2>1 DEF Signature
  <2>3. place[m] # "free" /\ cfg.TaskQueueName # cfg.DelayedQueue
    BY <1>0, <2>1, Names
  <2> HIDE DEF s
  <2> QED
    BY <1>0, <2>1, <2>2, <2>3 DEF TypeOK, ExpiryIsDelay, s
<1>7. ASSUME ChannelCloses \/ Crash PROVE ExpiryIsDelay'
  <2>1. /\ UNCHANGED <<sig, ttl>>
        /\ place' = [m \in MsgId |->
                       IF place[m] = "unacked" THEN cfg.TaskQueueName ELSE place[m]]
    BY <1>7 DEF ChannelCloses, Crash, RequeueUnacked
  <2> QED
    BY <1>0, <2>1, Names DEF ExpiryIsDelay
<1>8. ASSUME NEW w \in Worker, Decide(w) \/ TaskEnds(w) PROVE ExpiryIsDelay'
  BY <1>1, <1>8 DEF Decide, RejectDelivery, pushToTimeoutAmqpQueue, ExecuteTask, TaskEnds,
                    TaskSucceeds, TaskFails, ExecutionTimesOut
<1>9. ASSUME NEW t \in Task, StartDeadlinePasses(t) PROVE ExpiryIsDelay'
  BY <1>1, <1>9 DEF StartDeadlinePasses
<1> QED
  BY <1>2, <1>3, <1>4, <1>5, <1>6, <1>7, <1>8, <1>9 DEF Next

-----------------------------------------------------------------------------
(* What workers publish.                                                   *)

Onward(w) ==
  pc[w] # "idle" =>
    /\ ~(wsig[w].urgent /\ wsig[w].TaskTimeOut)
    /\ wsig[w].RetryCount < DelayOverflow
    /\ pc[w] \in {"received", "running"} =>
         /\ wsig[w].ETA # "future"
         /\ job[w] # None => wsig[w].RetriesDone = sig[job[w]].RetriesDone
    /\ pc[w] = "publish" =>
         \/ wsig[w].RoutingKey \in Parking /\ wsig[w].ETA # "future"
         \/ /\ wsig[w].RoutingKey = cfg.DelayedQueue /\ wsig[w].ETA = "future"
            /\ job[w] # None => wsig[w].RetriesDone > sig[job[w]].RetriesDone

(* A worker whose copy and delivery do not change still publishes onward. *)
LEMMA OnwardKept ==
  ASSUME PublishesOnward, NEW v \in Worker, UNCHANGED cfg, Parking' = Parking,
         wsig'[v] = wsig[v], job'[v] = job[v] \/ job'[v] = None,
         \/ pc'[v] = pc[v]
         \/ pc[v] # "idle" /\ pc'[v] \in {"ack", "requeue", "drop"}
         \/ pc[v] = "received" /\ pc'[v] = "running",
         job'[v] # None => sig'[job[v]] = sig[job[v]]
  PROVE  Onward(v)'
BY DEF PublishesOnward, Onward

(* What retryTask decides to publish goes onward. *)
LEMMA RetryOnward ==
  ASSUME TypeOK, PublishesOnward, NEW w \in Worker, pc[w] = "running", retryTask(w),
         UNCHANGED <<cfg, job, sig>>, Parking' = Parking
  PROVE  Onward(w)'
<1> DEFINE s == wsig[w]
<1>1. s \in Signature /\ cfg \in Configs
  BY DEF TypeOK
<1>2. /\ ~(s.urgent /\ s.TaskTimeOut) /\ s.RetryCount < DelayOverflow /\ s.ETA # "future"
      /\ job[w] # None => s.RetriesDone = sig[job[w]].RetriesDone
  BY DEF PublishesOnward
<1>3. CASE exhausted(s) /\ cfg.FailedQueue = ""
  BY <1>2, <1>3 DEF retryTask, TypeOK, Onward
<1>4. CASE exhausted(s) /\ cfg.FailedQueue # ""
  <2> DEFINE f == [s EXCEPT !.RoutingKey = cfg.FailedQueue]
  <2>1. /\ f.urgent = s.urgent /\ f.TaskTimeOut = s.TaskTimeOut /\ f.ETA = s.ETA
        /\ f.RetryCount = s.RetryCount /\ f.RoutingKey = cfg.FailedQueue
    BY <1>1 DEF Signature
  <2>2. wsig'[w] = f /\ pc'[w] = "publish" /\ cfg.FailedQueue \in Parking
    BY <1>4 DEF retryTask, TypeOK, Parking
  <2> HIDE DEF f, s
  <2> QED
    BY <1>2, <2>1, <2>2 DEF Onward
<1>5. CASE ~exhausted(s)
  <2>1. s.RetriesDone \in Nat /\ s.RetryCount \in Nat
    BY <1>1 DEF Signature
  <2>2. retryIntervalPositive(s.RetriesDone + 1)
    BY <1>2, <1>5, <2>1, BoundsAssumption DEF exhausted, retryIntervalPositive
  <2>3. wsig'[w] = Retried(s) /\ pc'[w] = "publish"
    BY <1>5, <2>2 DEF retryTask, TypeOK
  <2>4. /\ Retried(s).urgent = s.urgent /\ Retried(s).TaskTimeOut = s.TaskTimeOut
        /\ Retried(s).RetryCount = s.RetryCount /\ Retried(s).RetriesDone = s.RetriesDone + 1
        /\ Retried(s).RoutingKey = cfg.DelayedQueue /\ Retried(s).ETA = "future"
    BY <1>1, RetriedSignature
  <2> HIDE DEF s
  <2> QED
    BY <1>2, <2>1, <2>3, <2>4 DEF Onward
<1> QED
  BY <1>3, <1>4, <1>5

(* Every step keeps PublishesOnward. *)
LEMMA OnwardStep ==
  ASSUME TypeOK, HeldOnce, ExpiryIsDelay, PublishesOnward, Next
  PROVE  PublishesOnward'
<1> USE DEF fixed, worker, ghosts
<1>0. cfg \in Configs /\ cfg' = cfg /\ Parking' = Parking
  BY CfgFixed DEF TypeOK
<1>1. SUFFICES ASSUME NEW v \in Worker PROVE Onward(v)'
  BY DEF PublishesOnward, Onward
<1>2. ASSUME NEW t \in Task, SendTask(t) PROVE Onward(v)'
  BY <1>0, <1>2, HeldKept, OnwardKept DEF SendTask, PublishOk, PublishFails
<1>3. ASSUME NEW t \in Task, StartDeadlinePasses(t) PROVE Onward(v)'
  BY <1>0, <1>3, OnwardKept DEF StartDeadlinePasses, broker
<1>4. ASSUME NEW w \in Worker, NEW m \in MsgId, Deliver(w, m) PROVE Onward(v)'
  <2>1. CASE v # w
    BY <1>0, <1>4, <2>1, OnwardKept DEF TypeOK, Deliver
  <2>2. CASE v = w
    <3>1. place[m] # "free" /\ place[m] # cfg.DelayedQueue
      BY <1>0, <1>4, Names DEF Deliver
    <3>2. sig[m] \in Signature
      BY <3>1 DEF TypeOK
    <3>3. PICK eta \in Aged(sig[m].ETA) :
            wsig' = [wsig EXCEPT ![w] = [Decoded(sig[m]) EXCEPT !.ETA = eta]]
      BY <1>4 DEF Deliver
    <3> DEFINE d == [Decoded(sig[m]) EXCEPT !.ETA = eta]
    <3>4. /\ d.ETA = eta /\ (eta = "future" => sig[m].ETA = "future")
          /\ d.RetryCount = sig[m].RetryCount /\ d.RetriesDone = sig[m].RetriesDone
          /\ d.TaskTimeOut = sig[m].TaskTimeOut /\ (d.urgent => sig[m].urgent /\ ~sig[m].raw)
      BY <3>2, DecodedSignature
    <3>5. wsig'[w] = d /\ job'[w] = m /\ pc'[w] = "received" /\ sig' = sig
      BY <1>4, <3>3 DEF TypeOK, Deliver
    <3>6. /\ sig[m].urgent /\ sig[m].TaskTimeOut => sig[m].raw
          /\ sig[m].RetryCount < DelayOverflow /\ sig[m].ETA # "future"
      BY <3>1 DEF ExpiryIsDelay
    <3> HIDE DEF d
    <3> QED
      BY <2>2, <3>4, <3>5, <3>6 DEF Onward
  <2> QED
    BY <2>1, <2>2
<1>5. ASSUME NEW w \in Worker, Decide(w) \/ TaskEnds(w) \/ PublishAgain(w) PROVE Onward(v)'
  <2>1. Moves(w) /\ job' = job /\ (job[v] # None => sig'[job[v]] = sig[job[v]])
    BY <1>5, WorkerMoves, WorkerStores, HeldKept DEF Moves
  <2>2. CASE v # w
    BY <1>0, <2>1, <2>2, OnwardKept DEF Moves
  <2>3. CASE v = w /\ (RejectDelivery(w) \/ ExecuteTask(w) \/ TaskSucceeds(w) \/ PublishAgain(w))
    <3>1. /\ wsig' = wsig
          /\ \/ pc[w] # "idle" /\ pc'[w] \in {"ack", "requeue", "drop"}
             \/ pc[w] = "received" /\ pc'[w] = "running"
      BY <2>3 DEF TypeOK, RejectDelivery, ExecuteTask, TaskSucceeds, PublishAgain
    <3>2. UNCHANGED cfg /\ Parking' = Parking /\ wsig'[v] = wsig[v] /\ job'[v] = job[v]
      BY <1>0, <2>1, <3>1
    <3>3. \/ pc[v] # "idle" /\ pc'[v] \in {"ack", "requeue", "drop"}
          \/ pc[v] = "received" /\ pc'[v] = "running"
      BY <2>3, <3>1
    <3>4. job'[v] # None => sig'[job[v]] = sig[job[v]]
      BY <2>1, <3>2
    <3> QED
      BY <3>2, <3>3, <3>4, OnwardKept
  <2>4. CASE v = w /\ pushToTimeoutAmqpQueue(w)
    <3>1. wsig[w] \in Signature /\ pc[w] = "received"
      BY <2>4 DEF TypeOK, pushToTimeoutAmqpQueue
    <3>0. wsig \in [Worker -> Signature \cup {None}] /\ DOMAIN pc = Worker
      BY DEF TypeOK
    <3>2. CASE cfg.TimeoutQueue = ""
      <4>0. pc' = [pc EXCEPT ![w] = "ack"] /\ wsig' = wsig
        BY <2>4, <3>2 DEF pushToTimeoutAmqpQueue
      <4>1. wsig'[v] = wsig[v] /\ pc[v] # "idle" /\ pc'[v] \in {"ack", "requeue", "drop"}
        BY <2>4, <3>0, <3>1, <4>0
      <4>2. UNCHANGED cfg /\ Parking' = Parking /\ job'[v] = job[v]
            /\ (job'[v] # None => sig'[job[v]] = sig[job[v]])
        BY <1>0, <2>1
      <4> QED
        BY <4>1, <4>2, OnwardKept
    <3>3. CASE cfg.TimeoutQueue # ""
      <4> DEFINE u == [wsig[w] EXCEPT !.TaskTimeOut = FALSE, !.RoutingKey = cfg.TimeoutQueue]
      <4>1. /\ ~u.TaskTimeOut /\ u.RoutingKey = cfg.TimeoutQueue
            /\ u.ETA = wsig[w].ETA /\ u.RetryCount = wsig[w].RetryCount
        BY <3>1 DEF Signature
      <4>0. pc' = [pc EXCEPT ![w] = "publish"] /\ wsig' = [wsig EXCEPT ![w] = u]
        BY <2>4, <3>3 DEF pushToTimeoutAmqpQueue
      <4>2. wsig'[w] = u /\ pc'[w] = "publish" /\ cfg.TimeoutQueue \in Parking
        BY <3>0, <3>3, <4>0 DEF Parking
      <4>3. wsig[w].ETA # "future" /\ wsig[w].RetryCount < DelayOverflow
        BY <3>1 DEF PublishesOnward
      <4> HIDE DEF u
      <4> QED
        BY <1>0, <2>4, <4>1, <4>2, <4>3 DEF Onward
    <3> QED
      BY <3>2, <3>3
  <2>5. CASE v = w /\ (TaskFails(w) \/ ExecutionTimesOut(w))
    BY <1>0, <2>5, RetryOnward DEF TaskFails, ExecutionTimesOut, broker
  <2> QED
    BY <1>5, <2>2, <2>3, <2>4, <2>5 DEF Decide, TaskEnds
<1>6. ASSUME NEW w \in Worker, Settle(w) PROVE Onward(v)'
  <2>1. CASE v = w
    BY <1>6, <2>1 DEF TypeOK, Settle, Finish, Onward
  <2>2. CASE v # w
    <3>1. pc'[v] = pc[v] /\ wsig'[v] = wsig[v] /\ job'[v] = job[v]
      BY <1>6, <2>2 DEF TypeOK, Settle, Finish
    <3>2. job[v] # None => sig'[job[v]] = sig[job[v]]
      BY <1>6, <2>2 DEF TypeOK, HeldOnce, Settle, Remove, broker
    <3> QED
      BY <1>0, <3>1, <3>2, OnwardKept
  <2> QED
    BY <2>1, <2>2
<1>7. ASSUME NEW m \in MsgId, Expire(m) PROVE Onward(v)'
  <2>1. place[m] # "unacked"
    BY <1>0, <1>7, ExpireDeadLetters, Names
  <2>2. job[v] # None => sig'[job[v]] = sig[job[v]]
    BY <1>7, <2>1, ExpireDeadLetters DEF TypeOK, HeldOnce
  <2> QED
    BY <1>0, <1>7, <2>2, OnwardKept DEF Expire
<1>8. CASE ChannelCloses
  BY <1>0, <1>8, OnwardKept DEF ChannelCloses
<1>9. CASE Crash
  BY <1>9 DEF Crash, Onward
<1> QED
  BY <1>2, <1>3, <1>4, <1>5, <1>6, <1>7, <1>8, <1>9 DEF Next

-----------------------------------------------------------------------------
(* No message disappears, except one that a worker acknowledges or drops.  *)

Persists(m) ==
  place[m] # "free" =>
    /\ place'[m] # "free" /\ sig'[m].task = sig[m].task
    /\ sig'[m].RetriesDone = sig[m].RetriesDone
    /\ place[m] \in Parking => place'[m] \in Parking

Removes(w, m) == Settle(w) /\ job[w] = m /\ pc[w] \in {"ack", "drop"}

(* A step keeps every message, its task and its retries, but the one that  *)
(* a worker acknowledges or drops.                                         *)
LEMMA MessagesPersist ==
  ASSUME TypeOK, HeldOnce, ExpiryIsDelay, Next, NEW m \in MsgId
  PROVE  Persists(m) \/ \E w \in Worker : Removes(w, m)
<1> USE DEF fixed, worker, ghosts
<1>0. cfg \in Configs /\ cfg' = cfg /\ Parking' = Parking
  BY CfgFixed DEF TypeOK
<1>1. ASSUME NEW s, Store(s) \/ UNCHANGED broker PROVE Persists(m)
  <2>1. CASE UNCHANGED broker
    BY <2>1 DEF Persists, broker
  <2>2. ASSUME NEW n \in MsgId, Stored(s, n) PROVE Persists(m)
    BY <2>2 DEF TypeOK, Stored, Persists
  <2> QED
    BY <1>1, <2>1, <2>2, StoreEffect
<1>2. ASSUME NEW t \in Task, SendTask(t) PROVE Persists(m)
  BY <1>1, <1>2 DEF SendTask, PublishOk, PublishFails
<1>3. ASSUME NEW t \in Task, StartDeadlinePasses(t) PROVE Persists(m)
  BY <1>3 DEF StartDeadlinePasses, broker, Persists
<1>4. ASSUME NEW w \in Worker, NEW n \in MsgId, Deliver(w, n) PROVE Persists(m)
  BY <1>0, <1>4, Names DEF TypeOK, Deliver, Persists
<1>5. ASSUME NEW w \in Worker, Decide(w) \/ TaskEnds(w) \/ PublishAgain(w) PROVE Persists(m)
  BY <1>1, <1>5, WorkerStores
<1>6. ASSUME NEW w \in Worker, Settle(w) PROVE Persists(m) \/ Removes(w, m)
  <2>1. CASE job[w] = None
    BY <1>6, <2>1 DEF Settle, broker, Persists
  <2>2. CASE job[w] # None /\ pc[w] = "requeue"
    <3>1. place[job[w]] = "unacked" /\ "unacked" \notin Parking
      BY <1>0, <2>2, Names DEF HeldOnce
    <3>2. place' = [place EXCEPT ![job[w]] = cfg.TaskQueueName] /\ UNCHANGED <<sig, ttl>>
      BY <1>6, <2>2 DEF Settle
    <3>3. cfg.TaskQueueName # "free"
      BY <1>0, Names
    <3> QED
      BY <1>0, <3>1, <3>2, <3>3 DEF TypeOK, Persists
  <2>3. CASE job[w] # None /\ pc[w] # "requeue" /\ job[w] # m
    BY <1>6, <2>3 DEF TypeOK, Settle, Remove, Persists
  <2>4. CASE job[w] # None /\ pc[w] # "requeue" /\ job[w] = m
    BY <1>6, <2>4 DEF Settle, Removes
  <2> QED
    BY <2>1, <2>2, <2>3, <2>4
<1>7. ASSUME NEW n \in MsgId, Expire(n) PROVE Persists(m)
  <2>1. /\ place[n] = cfg.DelayedQueue /\ sig[n] \in Signature
        /\ place' = [place EXCEPT ![n] = cfg.TaskQueueName]
        /\ sig' = [sig EXCEPT ![n] = [sig[n] EXCEPT !.ETA = "past"]]
    BY <1>7, ExpireDeadLetters
  <2> DEFINE s == [sig[n] EXCEPT !.ETA = "past"]
  <2>2. s.task = sig[n].task /\ s.RetriesDone = sig[n].RetriesDone
    BY <2>1 DEF Signature
  <2> HIDE DEF s
  <2> QED
    BY <1>0, <2>1, <2>2, Names DEF TypeOK, Persists, s
<1>8. ASSUME ChannelCloses \/ Crash PROVE Persists(m)
  <2>1. /\ UNCHANGED sig
        /\ place' = [n \in MsgId |->
                       IF place[n] = "unacked" THEN cfg.TaskQueueName ELSE place[n]]
    BY <1>8 DEF ChannelCloses, Crash, RequeueUnacked
  <2> QED
    BY <1>0, <2>1, Names DEF Persists
<1> QED
  BY <1>2, <1>3, <1>4, <1>5, <1>6, <1>7, <1>8 DEF Next

(* A resolved task stays resolved. *)
LEMMA ResolvedStays ==
  ASSUME Next
  PROVE  completed \subseteq completed' /\ discarded \subseteq discarded'
BY DEF Next, SendTask, StartDeadlinePasses, Deliver, Decide,
       RejectDelivery, pushToTimeoutAmqpQueue, ExecuteTask, TaskEnds, TaskSucceeds,
       TaskFails, ExecutionTimesOut, PublishAgain, Settle, Expire, ChannelCloses, Crash,
       retryTask, ghosts

(* A message that is removed was superseded, or its task is resolved; and  *)
(* what superseded it is not removed in the same step.                     *)
LEMMA RemovedIsSuperseded ==
  ASSUME TypeOK, HeldOnce, ExpiryIsDelay, AckIsSafe, Next,
         NEW w \in Worker, NEW m \in MsgId, Removes(w, m)
  PROVE  \/ sig[m].task \in completed' \cup discarded'
         \/ \E n \in MsgId : Supersedes(n, m) /\ Persists(n)
<1>0. cfg \in Configs
  BY DEF TypeOK
<1>1. place[m] = "unacked" /\ sig[m].task = wsig[w].task /\ job[w] # None
  BY NoneAssumption DEF Removes, HeldOnce
<1>2. sig[m] \in Signature
  BY <1>1 DEF TypeOK
<1>3. CASE Resolved(wsig[w].task)
  BY <1>1, <1>3, ResolvedStays DEF Resolved
<1>4. ASSUME NEW n \in MsgId, Supersedes(n, m) PROVE Persists(n)
  <2>1. n # m
    <3>1. place[m] \notin Parking /\ sig[m].RetriesDone \in Nat
      BY <1>0, <1>1, <1>2, Names DEF Signature
    <3> QED
      BY <1>4, <3>1 DEF Supersedes
  <2>2. \A v \in Worker : ~Removes(v, n)
    <3>1. ASSUME NEW v \in Worker, Removes(v, n) PROVE FALSE
      <4>1. pc'[v] = "idle" /\ pc'[w] = "idle" /\ pc[v] # "idle" /\ pc[w] # "idle"
        BY <3>1 DEF TypeOK, Removes, Settle, Finish
      <4>2. pc' = [pc EXCEPT ![w] = "idle"]
        BY DEF Removes, Settle, Finish
      <4>3. v = w
        BY <4>1, <4>2 DEF TypeOK
      <4> QED
        BY <2>1, <3>1, <4>3 DEF Removes
    <3> QED
      BY <3>1
  <2> QED
    BY <2>2, MessagesPersist
<1> QED
  BY <1>1, <1>3, <1>4 DEF AckIsSafe, Removes

-----------------------------------------------------------------------------
(* The last message of a task is never acknowledged.                       *)

(* Superseding is transitive. *)
LEMMA SupersedesTrans ==
  ASSUME TypeOK, NEW l \in MsgId, NEW m \in MsgId, NEW n \in MsgId,
         Supersedes(n, m), Supersedes(m, l), place[m] = "unacked", place[l] # "free"
  PROVE  Supersedes(n, l)
<1>1. sig[l].RetriesDone \in Nat /\ sig[m].RetriesDone \in Nat
  BY DEF TypeOK, Signature
<1>2. place[n] # "free" => sig[n].RetriesDone \in Nat
  BY DEF TypeOK, Signature
<1>3. place[m] \notin Parking
  BY Names DEF TypeOK
<1> QED
  BY <1>1, <1>2, <1>3 DEF Supersedes

(* A worker that waits to acknowledge keeps a reason to. *)
LEMMA AckKept ==
  ASSUME TypeOK, HeldOnce, ExpiryIsDelay, AckIsSafe, Next, NEW v \in Worker,
         pc[v] = "ack", pc'[v] = "ack", job[v] # None
  PROVE  \/ wsig[v].task \in completed' \cup discarded'
         \/ \E n \in MsgId : Supersedes(n, job[v]) /\ Persists(n) /\ Persists(job[v])
<1>1. job[v] \in MsgId /\ place[job[v]] = "unacked" /\ sig[job[v]].task = wsig[v].task
  BY DEF TypeOK, HeldOnce
<1>2. Persists(job[v])
  <2>1. ASSUME NEW w \in Worker, Removes(w, job[v]) PROVE FALSE
    <3>1. w = v
      BY <1>1, <2>1, NoneAssumption DEF Removes, HeldOnce
    <3>2. pc'[w] = "idle"
      BY <2>1 DEF TypeOK, Removes, Settle, Finish
    <3> QED
      BY <3>1, <3>2
  <2> QED
    BY <1>1, <2>1, MessagesPersist
<1>3. CASE Resolved(wsig[v].task)
  BY <1>3, ResolvedStays DEF Resolved
<1>4. CASE \E m \in MsgId : Supersedes(m, job[v])
  <2>1. PICK m \in MsgId : Supersedes(m, job[v])
    BY <1>4
  <2>2. CASE Persists(m)
    BY <1>2, <2>1, <2>2
  <2>3. ASSUME NEW w \in Worker, Removes(w, m)
        PROVE  \/ wsig[v].task \in completed' \cup discarded'
               \/ \E n \in MsgId : Supersedes(n, job[v]) /\ Persists(n)
    <3>1. place[m] = "unacked" /\ place[job[v]] # "free"
      BY <1>1, <2>3, NoneAssumption DEF Removes, HeldOnce
    <3>2. sig[m].task = wsig[v].task
      BY <1>1, <2>1 DEF Supersedes
    <3>3. \/ sig[m].task \in completed' \cup discarded'
          \/ \E n \in MsgId : Supersedes(n, m) /\ Persists(n)
      BY <2>3, RemovedIsSuperseded
    <3>4. ASSUME NEW n \in MsgId, Supersedes(n, m) PROVE Supersedes(n, job[v])
      BY <1>1, <2>1, <3>1, <3>4, SupersedesTrans
    <3> QED
      BY <3>2, <3>3, <3>4
  <2> QED
    BY <1>2, <2>2, <2>3, MessagesPersist
<1> QED
  BY <1>3, <1>4 DEF AckIsSafe

(* Every step keeps AckIsSafe. *)
LEMMA AckStep ==
  ASSUME TypeOK, HeldOnce, ExpiryIsDelay, PublishesOnward, AckIsSafe, Next
  PROVE  AckIsSafe'
<1> USE DEF fixed, worker, ghosts
<1>0. cfg \in Configs /\ cfg' = cfg /\ Parking' = Parking
  BY CfgFixed DEF TypeOK
<1> DEFINE Safe(v) ==
      /\ pc'[v] = "ack" /\ job'[v] # None =>
           \/ wsig'[v].task \in completed' \cup discarded'
           \/ \E n \in MsgId : Supersedes(n, job[v])'
      /\ pc'[v] = "drop" => wsig'[v].task \in completed' \cup discarded'
<1>1. SUFFICES ASSUME NEW v \in Worker PROVE Safe(v)
  BY DEF AckIsSafe, Resolved
<1>2. ASSUME pc'[v] = pc[v], wsig'[v] = wsig[v], job'[v] = job[v] \/ job'[v] = None
      PROVE  Safe(v)
  <2>1. CASE pc[v] = "ack" /\ job'[v] # None
    <3>1. job'[v] = job[v] /\ job[v] \in MsgId /\ place[job[v]] # "free"
      BY <1>2, <2>1 DEF TypeOK, HeldOnce
    <3>2. CASE wsig[v].task \in completed' \cup discarded'
      BY <1>2, <2>1, <3>2
    <3>3. ASSUME NEW n \in MsgId, Supersedes(n, job[v]), Persists(n), Persists(job[v])
          PROVE  Supersedes(n, job[v])'
      BY <1>0, <3>1, <3>3 DEF Supersedes, Persists
    <3> QED
      BY <1>2, <2>1, <3>1, <3>2, <3>3, AckKept
  <2>2. CASE pc[v] = "drop"
    BY <1>2, <2>2, ResolvedStays DEF AckIsSafe, Resolved
  <2> QED
    BY <1>2, <2>1, <2>2
<1> HIDE DEF Safe
<1>3. ASSUME NEW t \in Task, SendTask(t) \/ StartDeadlinePasses(t)
      PROVE  Safe(v)
  BY <1>2, <1>3 DEF SendTask, StartDeadlinePasses
<1>4. ASSUME NEW w \in Worker, NEW m \in MsgId, Deliver(w, m) PROVE Safe(v)
  <2>1. CASE v = w
    BY <1>4, <2>1 DEF TypeOK, Deliver, Safe
  <2>2. CASE v # w
    BY <1>2, <1>4, <2>2 DEF TypeOK, Deliver
  <2> QED
    BY <2>1, <2>2
<1>5. ASSUME NEW w \in Worker, Decide(w) \/ TaskEnds(w) \/ PublishAgain(w) PROVE Safe(v)
  <2>1. CASE v # w
    BY <1>2, <1>5, <2>1, WorkerMoves DEF Moves
  <2>2. CASE v = w /\ (RejectDelivery(w) \/ ExecuteTask(w) \/ TaskSucceeds(w))
    BY <2>2 DEF TypeOK, RejectDelivery, ExecuteTask, TaskSucceeds, Safe
  <2>3. CASE v = w /\ pushToTimeoutAmqpQueue(w)
    <3>1. /\ pc' = [pc EXCEPT ![w] = "ack"] /\ wsig' = wsig
             /\ discarded' = discarded \cup {wsig[w].task}
          \/ pc' = [pc EXCEPT ![w] = "publish"]
      BY <2>3 DEF pushToTimeoutAmqpQueue
    <3>2. pc \in [Worker -> {"idle", "received", "running", "publish", "ack", "requeue", "drop"}]
      BY DEF TypeOK
    <3> QED
      BY <2>3, <3>1, <3>2 DEF Safe
  <2>4. CASE v = w /\ retryTask(w)
    BY <2>4 DEF TypeOK, retryTask, Safe
  <2>5. CASE v = w /\ PublishAgain(w)
    <3>1. pc[w] = "publish" /\ pc'[w] # "drop" /\ job' = job /\ wsig' = wsig
      BY <2>5 DEF TypeOK, PublishAgain
    <3>2. CASE pc'[w] = "ack" /\ job[w] # None
      <4>1. Store(wsig[w])
        BY <2>5, <3>2 DEF TypeOK, PublishAgain, PublishOk
      <4>2. PICK n \in MsgId : Stored(wsig[w], n)
        BY <3>1, <4>1, StoreEffect, PublishIsSafe
      <4> DEFINE q == Destination(PublishKey(wsig[w]))
      <4>3. /\ q # "free"
            /\ q \in Parking \/ wsig[w].RetriesDone > sig[job[w]].RetriesDone
        BY <3>1, <3>2, PublishIsSafe
      <4>4. /\ job[w] \in MsgId /\ place[job[w]] = "unacked" /\ job[w] # n
            /\ sig[job[w]].task = wsig[w].task
        BY <3>2, <4>2 DEF TypeOK, HeldOnce, Stored
      <4>5. /\ place'[n] = q /\ sig'[n] = wsig[w] /\ sig'[job[w]] = sig[job[w]]
        BY <4>2, <4>4 DEF TypeOK, Stored
      <4> HIDE DEF q
      <4>6. Supersedes(n, job[w])'
        BY <1>0, <3>1, <4>3, <4>4, <4>5 DEF Supersedes
      <4> QED
        BY <2>5, <3>1, <4>6 DEF Safe
    <3> QED
      BY <2>5, <3>1, <3>2 DEF Safe
  <2> QED
    BY <1>5, <2>1, <2>2, <2>3, <2>4, <2>5
    DEF Decide, TaskEnds, TaskFails, ExecutionTimesOut
<1>6. ASSUME NEW w \in Worker, Settle(w) PROVE Safe(v)
  <2>1. CASE v = w
    BY <1>6, <2>1 DEF TypeOK, Settle, Finish, Safe
  <2>2. CASE v # w
    BY <1>2, <1>6, <2>2 DEF TypeOK, Settle, Finish
  <2> QED
    BY <2>1, <2>2
<1>7. ASSUME NEW m \in MsgId, Expire(m) PROVE Safe(v)
  BY <1>2, <1>7 DEF Expire
<1>8. CASE ChannelCloses
  BY <1>2, <1>8 DEF ChannelCloses
<1>9. CASE Crash
  BY <1>9 DEF Crash, Safe
<1> QED
  BY <1>3, <1>4, <1>5, <1>6, <1>7, <1>8, <1>9 DEF Next

(* What a client was told is on its way stays pending until it is resolved. *)
LEMMA LostStep ==
  ASSUME SafeSubmissions, TypeOK, HeldOnce, ExpiryIsDelay, AckIsSafe, NoTaskLost, Next
  PROVE  NoTaskLost'
<1> SUFFICES ASSUME NEW t \in Task, client'[t] = "confirmed"
    PROVE  \/ t \in completed' \cup discarded'
           \/ \E m \in MsgId : place'[m] # "free" /\ sig'[m].task = t
  BY DEF NoTaskLost, Pending, Resolved
<1>1. CASE client[t] = "confirmed" /\ Resolved(t)
  BY <1>1, ResolvedStays DEF Resolved
<1>2. CASE client[t] = "confirmed" /\ Pending(t)
  <2>1. PICK m \in MsgId : place[m] # "free" /\ sig[m].task = t
    BY <1>2 DEF Pending
  <2>2. CASE Persists(m)
    BY <2>1, <2>2 DEF Persists
  <2>3. ASSUME NEW w \in Worker, Removes(w, m)
        PROVE  \/ t \in completed' \cup discarded'
               \/ \E n \in MsgId : place'[n] # "free" /\ sig'[n].task = t
    <3>1. \/ sig[m].task \in completed' \cup discarded'
          \/ \E n \in MsgId : Supersedes(n, m) /\ Persists(n)
      BY <2>3, RemovedIsSuperseded
    <3> QED
      BY <2>1, <3>1 DEF Supersedes, Persists
  <2> QED
    BY <2>2, <2>3, MessagesPersist
<1>3. CASE client[t] # "confirmed"
  <2>1. PICK u \in Task : SendTask(u)
    BY <1>3 DEF Next, StartDeadlinePasses, Deliver, Decide, RejectDelivery,
                pushToTimeoutAmqpQueue, ExecuteTask, TaskEnds, TaskSucceeds, TaskFails,
                ExecutionTimesOut, PublishAgain, Settle, Expire, ChannelCloses, Crash
  <2>2. u = t /\ Store(AsSent(t))
    BY <1>3, <2>1 DEF TypeOK, SendTask, PublishOk
  <2>3. AsSent(t).task = t /\ Destination(PublishKey(AsSent(t))) # "free"
    BY SentSignature, SentIsSafe
  <2>4. PICK n \in MsgId : Stored(AsSent(t), n)
    BY <2>2, <2>3, StoreEffect
  <2>5. place'[n] # "free" /\ sig'[n].task = t
    BY <2>3, <2>4 DEF TypeOK, Stored
  <2> QED
    BY <2>5
<1> QED
  BY <1>1, <1>2, <1>3 DEF NoTaskLost

-----------------------------------------------------------------------------
(* When the submissions are safe, no confirmed task is lost, in any number *)
(* of tasks, workers, messages and faults: the inductive invariant of      *)
(* amqpProcessSignature, retryTask and Publish is invariant.               *)
THEOREM InductiveInvariant ==
  ASSUME SafeSubmissions
  PROVE  Spec => []IndInv
<1>1. Init => IndInv
  <2>1. Init => TypeOK /\ HeldOnce
    BY BoundsAssumption, NoneAssumption DEF Init, TypeOK, HeldOnce, TTLs
  <2> QED
    BY <2>1 DEF Init, IndInv, ExpiryIsDelay, PublishesOnward, AckIsSafe, NoTaskLost
<1>2. IndInv /\ [Next]_vars => IndInv'
  <2>1. ASSUME IndInv, Next PROVE IndInv'
    BY <2>1, TypeStep, HeldStep, ExpiryStep, OnwardStep, AckStep, LostStep DEF IndInv
  <2>2. ASSUME IndInv, UNCHANGED vars PROVE IndInv'
    <3> USE <2>2 DEF IndInv, vars, fixed, broker, worker, ghosts
    <3>1. TypeOK'
      BY DEF TypeOK, Queues
    <3>2. HeldOnce'
      BY DEF HeldOnce
    <3>3. ExpiryIsDelay'
      BY DEF ExpiryIsDelay
    <3>4. PublishesOnward'
      BY DEF PublishesOnward, Parking
    <3>5. AckIsSafe'
      BY DEF AckIsSafe, Resolved, Supersedes, Parking
    <3>6. NoTaskLost'
      BY DEF NoTaskLost, Resolved, Pending
    <3> QED
      BY <3>1, <3>2, <3>3, <3>4, <3>5, <3>6
  <2> QED
    BY <2>1, <2>2
<1> QED
  BY <1>1, <1>2, PTL DEF Spec

(* What SendTaskWithContext confirmed to a client is never lost: some      *)
(* message carries the task until a worker saw it succeed or the code      *)
(* decided to drop it (Publish, amqpProcessSignature, retryTask).          *)
THEOREM NoTaskIsLost ==
  ASSUME SafeSubmissions
  PROVE  Spec => []NoTaskLost
<1>1. IndInv => NoTaskLost
  BY DEF IndInv
<1> QED
  BY <1>1, InductiveInvariant, PTL

-----------------------------------------------------------------------------
(* TaskRegistrar implements TaskQueue, and its retries are delayed: proofs *)
(* from the inductive invariant.                                           *)

-----------------------------------------------------------------------------
(* A task that is known to the system, now and after the step: some        *)
(* message carries it, or it is resolved.                                  *)

Known(t) == Pending(t) \/ Resolved(t)
PendingNext(t) == \E m \in MsgId : place'[m] # "free" /\ sig'[m].task = t
KnownNext(t) == PendingNext(t) \/ t \in completed' \cup discarded'

(* A worker is busy only with tasks that are known. *)
BusyWithKnown == \A w \in Worker : pc[w] # "idle" => Known(wsig[w].task)

(* A known task stays known. *)
LEMMA KnownStays ==
  ASSUME IndInv, Next, NEW t, Known(t)
  PROVE  KnownNext(t)
<1>1. CASE Resolved(t)
  BY <1>1, ResolvedStays DEF Resolved, KnownNext
<1>2. ASSUME NEW m \in MsgId, place[m] # "free", sig[m].task = t
      PROVE  KnownNext(t)
  <2>1. CASE Persists(m)
    BY <1>2, <2>1 DEF Persists, KnownNext, PendingNext
  <2>2. ASSUME NEW w \in Worker, Removes(w, m)
        PROVE  KnownNext(t)
    <3>1. \/ sig[m].task \in completed' \cup discarded'
          \/ \E n \in MsgId : Supersedes(n, m) /\ Persists(n)
      BY <2>2, RemovedIsSuperseded DEF IndInv
    <3> QED
      BY <1>2, <3>1 DEF Supersedes, Persists, KnownNext, PendingNext
  <2> QED
    BY <2>1, <2>2, MessagesPersist DEF IndInv
<1> QED
  BY <1>1, <1>2 DEF Known, Pending

(* Every step keeps BusyWithKnown: a delivery's task is pending, and a     *)
(* worker's task changes with the delivery only.                           *)
LEMMA BusyStep ==
  ASSUME IndInv, BusyWithKnown, Next
  PROVE  BusyWithKnown'
<1> USE DEF fixed, worker, ghosts
<1>0. TypeOK
  BY DEF IndInv
<1>1. SUFFICES ASSUME NEW v \in Worker, pc'[v] # "idle"
      PROVE  KnownNext(wsig'[v].task)
  BY DEF BusyWithKnown, Known, KnownNext, PendingNext, Pending, Resolved
<1>2. ASSUME pc[v] # "idle", wsig'[v].task = wsig[v].task
      PROVE  KnownNext(wsig'[v].task)
  BY <1>2, KnownStays DEF BusyWithKnown
<1>3. CASE UNCHANGED worker
  BY <1>1, <1>2, <1>3
<1>4. ASSUME NEW w \in Worker, NEW m \in MsgId, Deliver(w, m)
      PROVE  KnownNext(wsig'[v].task)
  <2>1. CASE v # w
    BY <1>0, <1>1, <1>2, <1>4, <2>1 DEF Deliver, TypeOK
  <2>2. CASE v = w
    <3>1. place[m] # "free" /\ sig[m] \in Signature
      BY <1>0, <1>4, Names DEF Deliver, TypeOK
    <3>2. PICK eta \in Aged(sig[m].ETA) :
            wsig' = [wsig EXCEPT ![w] = [Decoded(sig[m]) EXCEPT !.ETA = eta]]
      BY <1>4 DEF Deliver
    <3>3. [Decoded(sig[m]) EXCEPT !.ETA = eta].task = sig[m].task
      BY <3>1, DecodedSignature
    <3>4. wsig'[v].task = sig[m].task
      BY <1>0, <2>2, <3>2, <3>3 DEF TypeOK
    <3>5. Known(sig[m].task)
      BY <3>1 DEF Known, Pending
    <3> QED
      BY <3>4, <3>5, KnownStays
  <2> QED
    BY <2>1, <2>2
<1>5. ASSUME NEW w \in Worker, Decide(w) \/ TaskEnds(w) \/ PublishAgain(w)
      PROVE  KnownNext(wsig'[v].task)
  <2>1. Moves(w)
    BY <1>0, <1>5, WorkerMoves
  <2> QED
    BY <1>1, <1>2, <2>1 DEF Moves
<1>6. ASSUME NEW w \in Worker, Settle(w)
      PROVE  KnownNext(wsig'[v].task)
  BY <1>0, <1>1, <1>2, <1>6 DEF Settle, Finish, TypeOK
<1>7. CASE ChannelCloses
  BY <1>1, <1>2, <1>7 DEF ChannelCloses
<1>8. CASE Crash
  BY <1>1, <1>8 DEF Crash
<1>9. ASSUME NEW t \in Task, SendTask(t) \/ StartDeadlinePasses(t)
      PROVE  UNCHANGED worker
  BY <1>9 DEF SendTask, StartDeadlinePasses
<1>10. ASSUME NEW m \in MsgId, Expire(m)
       PROVE  UNCHANGED worker
  BY <1>10 DEF Expire
<1> HIDE DEF fixed, worker, ghosts
<1> QED
  BY <1>3, <1>4, <1>5, <1>6, <1>7, <1>8, <1>9, <1>10 DEF Next

-----------------------------------------------------------------------------
(* What a step does to the pending tasks.                                  *)

(* Storing a message makes its task pending. *)
LEMMA StoredIsPending ==
  ASSUME TypeOK, NEW s, NEW n \in MsgId, Stored(s, n), NEW t
  PROVE  PendingNext(t) <=> Pending(t) \/ s.task = t
<1>1. place[n] = "free" /\ place'[n] # "free" /\ sig'[n] = s
  BY DEF Stored, TypeOK
<1>2. \A m \in MsgId \ {n} : place'[m] = place[m] /\ sig'[m] = sig[m]
  BY DEF Stored, TypeOK
<1> QED
  BY ONLY <1>1, <1>2, n \in MsgId DEF Pending, PendingNext

(* Publishing makes the task pending, if it stores anything. *)
LEMMA PublishedIsPending ==
  ASSUME TypeOK, NEW s, Store(s) \/ UNCHANGED broker
  PROVE  \/ \A t : PendingNext(t) <=> Pending(t)
         \/ \A t : PendingNext(t) <=> Pending(t) \/ s.task = t
<1>1. CASE UNCHANGED broker
  BY <1>1 DEF broker, Pending, PendingNext
<1> QED
  BY <1>1, StoreEffect, StoredIsPending

(* What moves a message within RabbitMQ, or to a worker and back, keeps    *)
(* the pending tasks; removing one keeps the others.                       *)
LEMMA MovesKeepPending ==
  ASSUME IndInv, NEW t,
         \/ \E w \in Worker, m \in MsgId : Deliver(w, m)
         \/ \E m \in MsgId : Expire(m)
         \/ \E w \in Worker : Settle(w) /\ ~(job[w] # None /\ pc[w] # "requeue")
         \/ ChannelCloses \/ Crash
  PROVE  PendingNext(t) <=> Pending(t)
<1> DEFINE Same == \A m \in MsgId : /\ place'[m] = "free" <=> place[m] = "free"
                                    /\ place[m] # "free" => sig'[m].task = sig[m].task
<1>0. TypeOK /\ HeldOnce /\ ExpiryIsDelay /\ cfg \in Configs
      /\ cfg.TaskQueueName # "free" /\ cfg.DelayedQueue # "free"
  BY Names DEF IndInv, TypeOK
<1>1. ASSUME NEW w \in Worker, NEW m \in MsgId, Deliver(w, m) PROVE Same
  BY <1>0, <1>1 DEF Deliver, TypeOK
<1>2. ASSUME NEW n \in MsgId, Expire(n) PROVE Same
  <2>1. /\ place[n] = cfg.DelayedQueue /\ sig[n] \in Signature
        /\ place' = [place EXCEPT ![n] = cfg.TaskQueueName]
        /\ sig' = [sig EXCEPT ![n] = [sig[n] EXCEPT !.ETA = "past"]]
    BY <1>0, <1>2, ExpireDeadLetters
  <2>2. [sig[n] EXCEPT !.ETA = "past"].task = sig[n].task
    BY <2>1 DEF Signature
  <2> QED
    BY <1>0, <2>1, <2>2 DEF TypeOK
<1>3. ASSUME NEW w \in Worker, Settle(w), ~(job[w] # None /\ pc[w] # "requeue") PROVE Same
  <2>1. CASE UNCHANGED broker
    BY <2>1 DEF broker
  <2>2. CASE job[w] # None /\ pc[w] = "requeue"
    <3>1. place[job[w]] # "free" /\ job[w] \in MsgId
      BY <1>0, <2>2 DEF HeldOnce, TypeOK
    <3>2. place' = [place EXCEPT ![job[w]] = cfg.TaskQueueName] /\ UNCHANGED sig
      BY <1>3, <2>2 DEF Settle
    <3> QED
      BY <1>0, <3>1, <3>2 DEF TypeOK
  <2> QED
    BY <1>3, <2>1, <2>2 DEF Settle
<1>4. ASSUME ChannelCloses \/ Crash PROVE Same
  <2>1. /\ UNCHANGED sig
        /\ place' = [m \in MsgId |->
                       IF place[m] = "unacked" THEN cfg.TaskQueueName ELSE place[m]]
    BY <1>4 DEF ChannelCloses, Crash, RequeueUnacked
  <2> QED
    BY <1>0, <2>1
<1>5. Same
  BY <1>1, <1>2, <1>3, <1>4
<1> QED
  BY <1>5 DEF Pending, PendingNext

(* A worker that acknowledges or drops its delivery ends the pending of    *)
(* its task at most, and only when the task is resolved.                   *)
LEMMA RemovedIsResolved ==
  ASSUME IndInv, Next, NEW w \in Worker, Settle(w), job[w] # None, pc[w] # "requeue"
  PROVE  LET u == wsig[w].task
         IN  /\ Pending(u)
             /\ \A t : t # u => (PendingNext(t) <=> Pending(t))
             /\ ~PendingNext(u) => Resolved(u)
<1> DEFINE m == job[w]
           u == wsig[w].task
<1>1. /\ m \in MsgId /\ place[m] # "free" /\ sig[m].task = u
  BY DEF IndInv, TypeOK, HeldOnce
<1>2. /\ \A n \in MsgId \ {m} : place'[n] = place[n] /\ sig'[n] = sig[n]
      /\ place'[m] = "free"
  BY DEF Settle, Remove, IndInv, TypeOK
<1>3. UNCHANGED <<completed, discarded>>
  BY DEF Settle, ghosts
<1> HIDE DEF m, u
<1>4. Pending(u)
  BY <1>1 DEF Pending
<1>5. \A t : t # u => (PendingNext(t) <=> Pending(t))
  BY <1>1, <1>2 DEF Pending, PendingNext
<1>6. KnownNext(u)
  BY <1>4, KnownStays DEF Known
<1>7. ~PendingNext(u) => Resolved(u)
  BY <1>3, <1>6 DEF KnownNext, Resolved
<1> QED
  BY <1>4, <1>5, <1>7 DEF u

-----------------------------------------------------------------------------
(* The steps of TaskRegistrar, as steps of TaskQueue.                      *)

Accepted == {t \in Task : client[t] = "confirmed"}
PendingTasks == {t \in Task : Pending(t)}

(* The pending tasks after a step. *)
LEMMA PendingTasksNext ==
  PendingTasks' = {t \in Task : PendingNext(t)}
BY DEF PendingTasks, Pending, PendingNext

(* The actions of TaskQueue, under the refinement mapping. *)
LEMMA MappedActions ==
  ASSUME NEW t \in Task, NEW R, R = completed \cup discarded
  PROVE  /\ /\ t \notin Accepted /\ Accepted' = Accepted \cup {t}
            /\ PendingTasks' = PendingTasks \cup {t}
            /\ completed' \cup discarded' = R
            => TQ!Next
         /\ /\ t \notin Accepted /\ Accepted' = Accepted
            /\ PendingTasks' = PendingTasks \cup {t}
            /\ completed' \cup discarded' = R
            => TQ!Next
         /\ /\ t \in PendingTasks \cup R /\ Accepted' = Accepted
            /\ PendingTasks' = PendingTasks
            /\ completed' \cup discarded' = R \cup {t}
            => TQ!Next
         /\ /\ t \in PendingTasks \cap R /\ Accepted' = Accepted
            /\ PendingTasks' = PendingTasks \ {t}
            /\ completed' \cup discarded' = R
            => TQ!Next
         /\ /\ t \in R /\ Accepted' = Accepted
            /\ PendingTasks' = PendingTasks \cup {t}
            /\ completed' \cup discarded' = R
            => TQ!Next
BY DEF TQ!Next, TQ!Accept, TQ!AcceptUnconfirmed, TQ!Resolve, TQ!Leave, TQ!Redo,
       Accepted, PendingTasks

(* A step that changes none of the three maps to a stuttering step. *)
LEMMA MappedStutter ==
  ASSUME Accepted' = Accepted, PendingTasks' = PendingTasks,
         completed' \cup discarded' = completed \cup discarded
  PROVE  UNCHANGED TQ!vars
BY DEF TQ!vars, Accepted, PendingTasks

(* SendTask accepts the task, fails, or stores it with an error. *)
LEMMA SendTaskMaps ==
  ASSUME SafeSubmissions, IndInv, NEW u \in Task, SendTask(u)
  PROVE  TQ!Next \/ UNCHANGED TQ!vars
<1>1. TypeOK /\ client \in [Task -> {"unsent", "confirmed", "error"}]
  BY DEF IndInv, TypeOK
<1>2. client[u] = "unsent" /\ completed' \cup discarded' = completed \cup discarded
  BY DEF SendTask, ghosts
<1>3. u \notin Accepted
  BY <1>2 DEF Accepted
<1>4. AsSent(u).task = u /\ Destination(PublishKey(AsSent(u))) # "free"
  BY <1>1, SentSignature, SentIsSafe
<1>5. CASE client' = [client EXCEPT ![u] = "confirmed"]
  <2>1. Store(AsSent(u))
    BY <1>1, <1>2, <1>5 DEF SendTask, PublishOk
  <2>2. PICK n \in MsgId : Stored(AsSent(u), n)
    BY <1>4, <2>1, StoreEffect
  <2>3. \A t : PendingNext(t) <=> Pending(t) \/ t = u
    BY <1>1, <1>4, <2>2, StoredIsPending
  <2>4. PendingTasks' = PendingTasks \cup {u}
    BY <2>3, PendingTasksNext DEF PendingTasks
  <2>5. Accepted' = Accepted \cup {u}
    BY <1>1, <1>5 DEF Accepted
  <2> QED
    BY <1>2, <1>3, <2>4, <2>5, MappedActions
<1>6. CASE client' = [client EXCEPT ![u] = "error"]
  <2>1. Accepted' = Accepted
    BY <1>1, <1>2, <1>6 DEF Accepted
  <2>2. Store(AsSent(u)) \/ UNCHANGED broker
    BY DEF SendTask, PublishOk, PublishFails
  <2>3. \/ \A t : PendingNext(t) <=> Pending(t)
        \/ \A t : PendingNext(t) <=> Pending(t) \/ t = u
    BY <1>1, <1>4, <2>2, PublishedIsPending
  <2>4. PendingTasks' = PendingTasks \/ PendingTasks' = PendingTasks \cup {u}
    BY <2>3, PendingTasksNext DEF PendingTasks
  <2> QED
    BY <1>2, <1>3, <2>1, <2>4, MappedActions, MappedStutter
<1> QED
  BY <1>5, <1>6 DEF SendTask

(* PublishAgain stores a copy of a task that is pending or resolved. *)
LEMMA PublishAgainMaps ==
  ASSUME IndInv, BusyWithKnown, NEW w \in Worker, PublishAgain(w)
  PROVE  TQ!Next \/ UNCHANGED TQ!vars
<1> DEFINE u == wsig[w].task
<1>1. TypeOK /\ pc[w] = "publish"
  BY DEF IndInv, PublishAgain
<1>2. u \in Task /\ Known(u)
  <2>1. wsig[w] \in Signature
    BY <1>1 DEF TypeOK
  <2> QED
    BY <1>1, <2>1 DEF BusyWithKnown, Signature
<1>3. /\ Accepted' = Accepted /\ completed' \cup discarded' = completed \cup discarded
      /\ Store(wsig[w]) \/ UNCHANGED broker
  BY DEF PublishAgain, PublishOk, PublishFails, ghosts, Accepted
<1>4. \/ \A t : PendingNext(t) <=> Pending(t)
      \/ \A t : PendingNext(t) <=> Pending(t) \/ u = t
  BY <1>1, <1>3, PublishedIsPending
<1> HIDE DEF u
<1>5. \/ PendingTasks' = PendingTasks
      \/ PendingTasks' = PendingTasks \cup {u}
  BY <1>4, PendingTasksNext DEF PendingTasks
<1>6. u \in PendingTasks \/ u \in completed \cup discarded
  BY <1>2 DEF Known, Resolved, PendingTasks
<1>7. CASE u \in PendingTasks
  BY <1>3, <1>5, <1>7, MappedStutter
<1>8. CASE u \in completed \cup discarded
  BY <1>2, <1>3, <1>5, <1>8, MappedActions, MappedStutter
<1> QED
  BY <1>6, <1>7, <1>8

(* Deciding on a delivery and the end of a task function resolve the task  *)
(* of the worker at most.                                                  *)
LEMMA WorkerMaps ==
  ASSUME IndInv, BusyWithKnown, NEW w \in Worker, Decide(w) \/ TaskEnds(w)
  PROVE  TQ!Next \/ UNCHANGED TQ!vars
<1> DEFINE u == wsig[w].task
<1>1. UNCHANGED <<client, broker>> /\ pc[w] # "idle"
  BY DEF Decide, RejectDelivery, pushToTimeoutAmqpQueue, ExecuteTask, TaskEnds,
         TaskSucceeds, TaskFails, ExecutionTimesOut
<1>2. \/ completed' \cup discarded' = completed \cup discarded
      \/ completed' \cup discarded' = (completed \cup discarded) \cup {u}
  BY DEF Decide, RejectDelivery, pushToTimeoutAmqpQueue, ExecuteTask, TaskEnds,
         TaskSucceeds, TaskFails, ExecutionTimesOut, retryTask, ghosts
<1>3. u \in Task /\ Known(u)
  <2>1. wsig[w] \in Signature
    BY <1>1 DEF IndInv, TypeOK
  <2> QED
    BY <1>1, <2>1 DEF BusyWithKnown, Signature
<1> HIDE DEF u
<1>4. Accepted' = Accepted /\ PendingTasks' = PendingTasks
  BY <1>1 DEF Accepted, PendingTasks, Pending, broker
<1>5. u \in PendingTasks \cup (completed \cup discarded)
  BY <1>3 DEF Known, Resolved, PendingTasks
<1> QED
  BY <1>2, <1>3, <1>4, <1>5, MappedActions, MappedStutter

(* A worker that acknowledges or drops its delivery may end the pending of *)
(* a resolved task.                                                        *)
LEMMA SettleMaps ==
  ASSUME IndInv, Next, NEW w \in Worker, Settle(w), job[w] # None, pc[w] # "requeue"
  PROVE  TQ!Next \/ UNCHANGED TQ!vars
<1> DEFINE u == wsig[w].task
<1>1. Accepted' = Accepted /\ completed' \cup discarded' = completed \cup discarded
  BY DEF Settle, ghosts, Accepted
<1>2. /\ Pending(u)
      /\ \A t : t # u => (PendingNext(t) <=> Pending(t))
      /\ ~PendingNext(u) => Resolved(u)
  BY RemovedIsResolved
<1>3. u \in Task
  <2>1. wsig[w] \in Signature
    BY DEF IndInv, TypeOK, HeldOnce
  <2> QED
    BY <2>1 DEF Signature
<1> HIDE DEF u
<1>4. CASE PendingNext(u)
  <2>1. PendingTasks' = PendingTasks
    BY <1>2, <1>4, PendingTasksNext DEF PendingTasks
  <2> QED
    BY <1>1, <2>1, MappedStutter
<1>5. CASE ~PendingNext(u)
  <2>1. PendingTasks' = PendingTasks \ {u}
    BY <1>2, <1>5, PendingTasksNext DEF PendingTasks
  <2>2. u \in PendingTasks \cap (completed \cup discarded)
    BY <1>2, <1>3, <1>5 DEF PendingTasks, Resolved
  <2> QED
    BY <1>1, <1>3, <2>1, <2>2, MappedActions
<1> QED
  BY <1>4, <1>5

(* Every step maps to a step of TaskQueue or to a stuttering step. *)
LEMMA StepMaps ==
  ASSUME SafeSubmissions, IndInv, BusyWithKnown, Next
  PROVE  TQ!Next \/ UNCHANGED TQ!vars
<1>1. ASSUME \A t : PendingNext(t) <=> Pending(t), UNCHANGED <<client, ghosts>>
      PROVE  UNCHANGED TQ!vars
  <2>1. PendingTasks' = PendingTasks
    BY <1>1, PendingTasksNext DEF PendingTasks
  <2>2. Accepted' = Accepted /\ completed' \cup discarded' = completed \cup discarded
    BY <1>1 DEF Accepted, ghosts
  <2> QED
    BY <2>1, <2>2, MappedStutter
<1>2. ASSUME NEW t \in Task, StartDeadlinePasses(t)
      PROVE  UNCHANGED TQ!vars
  <2>1. UNCHANGED <<client, ghosts, broker>>
    BY <1>2 DEF StartDeadlinePasses
  <2> QED
    BY <1>1, <2>1 DEF broker, Pending, PendingNext
<1>3. ASSUME \/ \E w \in Worker, m \in MsgId : Deliver(w, m)
             \/ \E m \in MsgId : Expire(m)
             \/ \E w \in Worker : Settle(w) /\ ~(job[w] # None /\ pc[w] # "requeue")
             \/ ChannelCloses \/ Crash
      PROVE  UNCHANGED TQ!vars
  <2>1. UNCHANGED <<client, ghosts>>
    BY <1>3 DEF Deliver, Expire, Settle, ChannelCloses, Crash
  <2> QED
    BY <1>1, <1>3, <2>1, MovesKeepPending
<1> QED
  BY <1>2, <1>3, SendTaskMaps, PublishAgainMaps, WorkerMaps, SettleMaps DEF Next

-----------------------------------------------------------------------------
(* When the submissions are safe, the system is an at-least-once queue:    *)
(* SendTask, RabbitMQ, amqpProcessSignature and retryTask together do what *)
(* TaskQueue promises.  A confirmed task is pending, a worker resolves     *)
(* only what is pending or resolved, and a task leaves after it has been   *)
(* resolved.                                                               *)
THEOREM TaskQueueIsImplemented ==
  ASSUME SafeSubmissions
  PROVE  Spec => ImplementsTaskQueue
<1>1. Init => TQ!Init
  BY DEF Init, TQ!Init, Pending
<1>2. Init => BusyWithKnown
  BY DEF Init, BusyWithKnown
<1>3. IndInv /\ BusyWithKnown /\ [Next]_vars => BusyWithKnown'
  <2>1. ASSUME BusyWithKnown, UNCHANGED vars PROVE BusyWithKnown'
    BY <2>1 DEF BusyWithKnown, Known, Pending, Resolved, vars, broker, worker, ghosts
  <2> QED
    BY <2>1, BusyStep
<1>4. IndInv /\ BusyWithKnown /\ [Next]_vars => [TQ!Next]_(TQ!vars)
  <2>1. ASSUME UNCHANGED vars PROVE UNCHANGED TQ!vars
    BY <2>1 DEF TQ!vars, Pending, vars, broker, ghosts
  <2> QED
    BY <2>1, StepMaps
<1>5. Spec => []IndInv
  BY InductiveInvariant
<1> QED
  BY <1>1, <1>2, <1>3, <1>4, <1>5, PTL DEF Spec, ImplementsTaskQueue, TQ!Spec

-----------------------------------------------------------------------------
(* When the submissions are safe, what newly appears in the task queue     *)
(* counts no retry: amqpProcessSignature publishes to the parking queues   *)
(* or to the delayed queue, which alone leads back to the task queue.      *)
THEOREM RetriesGoThroughDelay ==
  ASSUME SafeSubmissions
  PROVE  Spec => RetriesAreDelayed
<1>1. ASSUME IndInv, Next, NEW m \in MsgId, place[m] = "free", place'[m] = cfg.TaskQueueName
      PROVE  sig'[m].RetriesDone = 0
  <2>0. /\ TypeOK /\ HeldOnce /\ ExpiryIsDelay /\ PublishesOnward
        /\ cfg \in Configs /\ cfg.TaskQueueName # "free" /\ cfg.TaskQueueName \notin Parking
        /\ cfg.TaskQueueName # cfg.DelayedQueue /\ cfg.DelayedQueue # "free"
    BY <1>1, Names DEF IndInv, TypeOK
  <2>1. ~UNCHANGED broker
    BY <1>1, <2>0 DEF broker
  <2>2. ASSUME NEW s, Store(s)
        PROVE  sig'[m] = s /\ Destination(PublishKey(s)) = cfg.TaskQueueName
    <3>1. PICK n \in MsgId : Stored(s, n)
      BY <2>1, <2>2, StoreEffect
    <3>2. n = m
      BY <1>1, <2>0, <3>1 DEF Stored, TypeOK
    <3> QED
      BY <1>1, <2>0, <3>1, <3>2 DEF Stored, TypeOK
  <2>3. ASSUME NEW t \in Task, SendTask(t) PROVE sig'[m].RetriesDone = 0
    <3>1. Store(AsSent(t))
      BY <2>1, <2>3 DEF SendTask, PublishOk, PublishFails
    <3> QED
      BY <2>2, <3>1 DEF AsSent
  <2>4. ASSUME NEW w \in Worker, PublishAgain(w) PROVE FALSE
    <3> DEFINE s == wsig[w]
    <3>1. Store(s) /\ pc[w] = "publish"
      BY <2>1, <2>4 DEF PublishAgain, PublishOk, PublishFails
    <3>2. /\ s \in Signature /\ ~(s.urgent /\ s.TaskTimeOut)
          /\ \/ s.RoutingKey \in Parking
             \/ s.RoutingKey = cfg.DelayedQueue
      BY <2>0, <3>1 DEF TypeOK, PublishesOnward
    <3> HIDE DEF s
    <3>3. PublishKey(s) = s.RoutingKey
      BY <2>0, <3>2, Names DEF PublishKey
    <3>4. Destination(s.RoutingKey) = s.RoutingKey
      BY <2>0, <3>2, Routing
    <3> QED
      BY <2>0, <2>2, <3>1, <3>2, <3>3, <3>4
  <2>5. ASSUME NEW w \in Worker, NEW n \in MsgId, Deliver(w, n) PROVE FALSE
    BY <1>1, <2>0, <2>5 DEF Deliver, TypeOK
  <2>6. ASSUME NEW w \in Worker, Settle(w) PROVE FALSE
    BY <1>1, <2>0, <2>1, <2>6 DEF Settle, Remove, HeldOnce, TypeOK
  <2>7. ASSUME NEW n \in MsgId, Expire(n) PROVE FALSE
    <3>1. /\ place[n] = cfg.DelayedQueue
          /\ place' = [place EXCEPT ![n] = cfg.TaskQueueName]
      BY <2>0, <2>7, ExpireDeadLetters
    <3> QED
      BY <1>1, <2>0, <3>1 DEF TypeOK
  <2>8. ASSUME ChannelCloses \/ Crash PROVE FALSE
    <3>1. place' = [n \in MsgId |->
                      IF place[n] = "unacked" THEN cfg.TaskQueueName ELSE place[n]]
      BY <2>8 DEF ChannelCloses, Crash, RequeueUnacked
    <3> QED
      BY <1>1, <2>0, <3>1
  <2>9. ASSUME NEW w \in Worker, Decide(w) \/ TaskEnds(w) PROVE FALSE
    BY <2>1, <2>9 DEF Decide, RejectDelivery, pushToTimeoutAmqpQueue, ExecuteTask, TaskEnds,
                      TaskSucceeds, TaskFails, ExecutionTimesOut
  <2>10. ASSUME NEW t \in Task, StartDeadlinePasses(t) PROVE FALSE
    BY <2>1, <2>10 DEF StartDeadlinePasses
  <2> QED
    BY <1>1, <2>3, <2>4, <2>5, <2>6, <2>7, <2>8, <2>9, <2>10 DEF Next
<1>2. IndInv /\ [Next]_vars
        => [\A m \in MsgId : place[m] = "free" /\ place'[m] = cfg.TaskQueueName
                                => sig'[m].RetriesDone = 0]_vars
  BY <1>1
<1>3. Spec => []IndInv
  BY InductiveInvariant
<1> QED
  BY <1>2, <1>3, PTL DEF Spec, RetriesAreDelayed
=============================================================================
