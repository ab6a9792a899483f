------------------------------ MODULE Topology ------------------------------
(***************************************************************************)
(* The exchange, the queues and the bindings that AMQPBroker declares when *)
(* it is created, and where a message published with a key then goes.      *)
(* A configuration is a record with the fields of config.Config and        *)
(* config.AMQPConfig that name things; "" is the empty Go string.          *)
(***************************************************************************)

Config ==
  [ExchangeType : STRING, TaskQueueName : STRING, BindingKey : STRING,
   DelayedQueue : STRING, FailedQueue : STRING, TimeoutQueue : STRING]

isDirectExchange(cfg) == cfg.ExchangeType = "direct"

getRoutingKey(cfg) ==
  IF cfg.BindingKey # "" /\ isDirectExchange(cfg)
  THEN cfg.BindingKey
  ELSE cfg.TaskQueueName

(* The <<queue, key>> pairs bound to the one exchange.  The task queue is  *)
(* bound with the configured BindingKey, every other queue with its name;  *)
(* the failed and the timeout queue exist only when they have a name.      *)
setupExchangeQueueBinding(cfg) ==
  {<<cfg.TaskQueueName, cfg.BindingKey>>, <<cfg.DelayedQueue, cfg.DelayedQueue>>}
    \cup {<<q, q>> : q \in {cfg.FailedQueue, cfg.TimeoutQueue} \ {""}}

(* RabbitMQ's routing.  A fanout exchange ignores the key, and so does a   *)
(* headers exchange, whose bindings, made here without arguments, match    *)
(* every message; a topic key without wildcards matches as a direct one.   *)
IgnoresKey(type) == type \in {"fanout", "headers"}

Routed(cfg, key) ==
  {b[1] : b \in {c \in setupExchangeQueueBinding(cfg) :
                   IgnoresKey(cfg.ExchangeType) \/ c[2] = key}}
=============================================================================
