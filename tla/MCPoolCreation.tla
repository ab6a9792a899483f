--------------------------- MODULE MCPoolCreation ---------------------------
(* Instances of PoolCreation for TLC. *)
EXTENDS PoolCreation, FiniteSets, TLC

(* The failed queue is also the timeout queue, as in the defaults of       *)
(* config/amqp.go.                                                         *)
Base == [Broker |-> "amqp", Store |-> "", AMQP |-> TRUE, Url |-> "url",
         PrefetchCount |-> 1, ConnectionPoolSize |-> 2, QueueDeclareArgs |-> "nil",
         Exchange |-> "exchange", ExchangeType |-> "direct", BindingKey |-> "key",
         TaskQueueName |-> "tasks", DelayedQueue |-> "delayed",
         FailedQueue |-> "failed", TimeoutQueue |-> "failed"]

(* Another task queue, with arguments, that shares the delayed and the     *)
(* failed queue, and a store; another task queue that shares only the      *)
(* failed queue; another type of exchange, and no name for the delayed     *)
(* queue.                                                                  *)
Stored == [Base EXCEPT !.TaskQueueName = "tasks2", !.BindingKey = "key2", !.Store = "mongodb",
                       !.QueueDeclareArgs = "max-priority", !.ConnectionPoolSize = 1]
SharesFailed == [Base EXCEPT !.TaskQueueName = "tasks2", !.BindingKey = "key2",
                             !.DelayedQueue = "delayed2", !.TimeoutQueue = "timeout2",
                             !.ConnectionPoolSize = 1]
Unnamed == [SharesFailed EXCEPT !.ExchangeType = "topic", !.DelayedQueue = "",
                                !.FailedQueue = "", !.TimeoutQueue = ""]

(* A prefetch count of 0, on a headers exchange; no URL; no part for AMQP; *)
(* a pool of no connections; another broker.                               *)
NoPrefetch == [Base EXCEPT !.PrefetchCount = 0, !.ExchangeType = "headers",
                           !.ConnectionPoolSize = 1]
NoUrl == [Base EXCEPT !.Url = ""]
NoAMQP == [Base EXCEPT !.AMQP = FALSE]
NoConnections == [Base EXCEPT !.ConnectionPoolSize = 0]
OtherBroker == [Base EXCEPT !.Broker = "redis"]

SomeConfigs == {Base, Stored, SharesFailed, Unnamed,
                NoPrefetch, NoUrl, NoAMQP, NoConnections, OtherBroker}

(* Configurations that share an exchange and a key share the task queue:   *)
(* RabbitMQ would deliver every task to both.                              *)
ASSUME SeparateKeysAssumption == SeparateKeys

Symmetry == Permutations(Program)
=============================================================================
