---------------------------- MODULE PoolCreation ----------------------------
(***************************************************************************)
(* From a configuration to a worker pool: ReadFromEnv or                   *)
(* SetApplicationConfig, then createWorkerPool, which dials a pool of      *)
(* connections, declares the topology with one request to RabbitMQ after   *)
(* the other, and creates the store and the registrar.  Several programs   *)
(* do this with one RabbitMQ, each may fail or crash between any two       *)
(* requests and start again with the same configuration or another, and    *)
(* what a setup has declared by then stays.                                *)
(* Topology has what the requests are for; RabbitMQ is external.           *)
(***************************************************************************)
EXTENDS Topology, Integers, Sequences

CONSTANTS
  Program,    \* the programs that create worker pools
  Configs,    \* the configurations they start with
  Generated,  \* bound of the model: the names RabbitMQ can generate
  None        \* no configuration

(* A configuration has the fields of config.Config, of which the pool's    *)
(* size is a number, and no name in it is one that RabbitMQ generates.     *)
ASSUME ConfigsAssumption ==
  /\ None \notin Configs
  /\ \A c \in Configs :
       /\ {"Broker", "TaskQueueName", "AMQP", "Url", "PrefetchCount"} \subseteq DOMAIN c
       /\ c.ConnectionPoolSize \in Int
ASSUME GeneratedAssumption ==
  /\ "" \notin Generated
  /\ \A c \in Configs :
       {c.TaskQueueName, c.DelayedQueue, c.FailedQueue, c.TimeoutQueue, c.BindingKey}
         \cap Generated = {}

VARIABLES
  exchange,   \* exchange[x]: the type of the exchange x, "" if there is none
  queue,      \* queue[q]: the arguments of the queue q
  binding,    \* the <<exchange, queue, key>> that are bound
  used,       \* the configurations that a setup has begun with
  pc,         \* pc[p]: where p is in its calls
  config,     \* config[p]: the applicationConfig of the provider of p
  conns,      \* conns[p]: the connections that p has dialled and not closed
  todo,       \* todo[p]: the requests that are left of the setup of p
  declared    \* declared[p]: the queue declared last on the channel of p

server == <<exchange, queue, binding>>
program == <<pc, config, conns, todo, declared>>
vars == <<server, used, program>>

Go(p, l) == pc' = [pc EXCEPT ![p] = l]

-----------------------------------------------------------------------------
(* The configuration.                                                      *)

(* ValidateConfig.  A configuration without AMQP passes, and of a number   *)
(* "required" only says that it is not 0.                                  *)
ValidateConfig(c) ==
  /\ c.Broker = "amqp" /\ c.TaskQueueName # ""
  /\ c.AMQP => c.Url # "" /\ c.PrefetchCount # 0

(* A mutant: assigned before it is validated, as in ReadFromEnv. *)
SetThenValidate(p, c) ==
  /\ pc[p] \in {"off", "configured"}
  /\ config' = [config EXCEPT ![p] = c]
  /\ Go(p, "configured")
  /\ UNCHANGED <<server, used, conns, todo, declared>>

(* A program configures itself as often as it likes, but before it creates *)
(* its pool, which reads the configuration through a pointer to the        *)
(* provider's.                                                             *)
SetApplicationConfig(p, c) ==
  /\ pc[p] \in {"off", "configured"} /\ ValidateConfig(c)
  /\ config' = [config EXCEPT ![p] = c]
  /\ Go(p, "configured")
  /\ UNCHANGED <<server, used, conns, todo, declared>>

(* What the environment can make of the configuration old: it fills in     *)
(* strings and numbers, also of an AMQP part that is there, but makes none *)
(* where the pointer is nil, and no arguments of queues.  A string with a  *)
(* default does not stay empty, one without keeps its value if not set.    *)
Parsed(old, c) ==
  /\ c.AMQP = (old # None /\ old.AMQP)
  /\ "" \notin {c.Broker, c.TaskQueueName}
  /\ old # None /\ old.Store # "" => c.Store # ""
  /\ c.AMQP =>
       /\ "" \notin {c.Exchange, c.ExchangeType, c.BindingKey,
                    c.DelayedQueue, c.FailedQueue, c.TimeoutQueue}
       /\ old.Url # "" => c.Url # ""
       /\ c.QueueDeclareArgs = old.QueueDeclareArgs

(* What was filled in stays also when the validation then fails, and a     *)
(* program may ignore the error.                                           *)
ReadFromEnv(p, c) ==
  /\ pc[p] \in {"off", "configured"} /\ Parsed(config[p], c)
  /\ config' = [config EXCEPT ![p] = c]
  /\ Go(p, "configured")
  /\ UNCHANGED <<server, used, conns, todo, declared>>

-----------------------------------------------------------------------------
(* The requests of setupExchangeQueueBinding, in their order.              *)

Plain(c) == [args |-> c.QueueDeclareArgs, dlx |-> "", key |-> ""]
Delaying(c) == [args |-> "nil", dlx |-> c.Exchange, key |-> getRoutingKey(c)]

DeclareExchange(c) == [do |-> "exchange", name |-> c.Exchange, type |-> c.ExchangeType]
DeclareQueue(q, a) == [do |-> "queue", name |-> q, args |-> a]
QueueExchangeBind(q, k, c) == [do |-> "bind", name |-> q, key |-> k, to |-> c.Exchange]

(* The failed and the timeout queue: declared and bound if they have a name. *)
Park(q, a, c) ==
  IF q = "" THEN <<>> ELSE <<DeclareQueue(q, a), QueueExchangeBind(q, q, c)>>

(* Mutants: the task queue is bound with its name; the arguments of the    *)
(* delayed queue are left over for the failed queue.                       *)
RequestsBindingByName(c) ==
  <<DeclareExchange(c),
    DeclareQueue(c.TaskQueueName, Plain(c)), DeclareQueue(c.DelayedQueue, Delaying(c)),
    QueueExchangeBind(c.TaskQueueName, c.TaskQueueName, c),
    QueueExchangeBind(c.DelayedQueue, c.DelayedQueue, c)>>
  \o Park(c.FailedQueue, Plain(c), c) \o Park(c.TimeoutQueue, Plain(c), c)

RequestsWithStaleArgs(c) ==
  <<DeclareExchange(c),
    DeclareQueue(c.TaskQueueName, Plain(c)), DeclareQueue(c.DelayedQueue, Delaying(c)),
    QueueExchangeBind(c.TaskQueueName, c.BindingKey, c),
    QueueExchangeBind(c.DelayedQueue, c.DelayedQueue, c)>>
  \o Park(c.FailedQueue, Delaying(c), c) \o Park(c.TimeoutQueue, Plain(c), c)

Requests(c) ==
  <<DeclareExchange(c),
    DeclareQueue(c.TaskQueueName, Plain(c)), DeclareQueue(c.DelayedQueue, Delaying(c)),
    QueueExchangeBind(c.TaskQueueName, c.BindingKey, c),
    QueueExchangeBind(c.DelayedQueue, c.DelayedQueue, c)>>
  \o Park(c.FailedQueue, Plain(c), c) \o Park(c.TimeoutQueue, Plain(c), c)

-----------------------------------------------------------------------------
(* What RabbitMQ does with a request.                                      *)

ExchangeTypes == {"direct", "fanout", "topic", "headers"}

(* Declaring again is no error as long as nothing differs. *)
Accepts(r) ==
  CASE r.do = "exchange" -> /\ r.name # "" /\ r.type \in ExchangeTypes
                            /\ r.name \in DOMAIN exchange => exchange[r.name] = r.type
    [] r.do = "queue"    -> r.name \in DOMAIN queue => queue[r.name] = r.args
    [] r.do = "bind"     -> TRUE

(* A queue without a name gets a new one, and a binding without a queue is *)
(* for the one declared last, with its name for an empty key.              *)
Answer(p, r) ==
  CASE r.do = "exchange" ->
         /\ exchange' = [x \in DOMAIN exchange \cup {r.name} |->
                           IF x = r.name THEN r.type ELSE exchange[x]]
         /\ UNCHANGED <<queue, binding, declared>>
    [] r.do = "queue" ->
         \E q \in IF r.name # "" THEN {r.name} ELSE Generated \ DOMAIN queue :
           /\ queue' = [n \in DOMAIN queue \cup {q} |-> IF n = q THEN r.args ELSE queue[n]]
           /\ declared' = [declared EXCEPT ![p] = q]
           /\ UNCHANGED <<exchange, binding>>
    [] r.do = "bind" ->
         LET q == IF r.name # "" THEN r.name ELSE declared[p]
             k == IF r.name = "" /\ r.key = "" THEN q ELSE r.key
         IN /\ binding' = binding \cup {<<r.to, q, k>>}
            /\ UNCHANGED <<exchange, queue, declared>>

(* Where a message published to the exchange x with the key k goes. *)
Reached(x, k) ==
  {b[2] : b \in {d \in binding : d[1] = x /\ (IgnoresKey(exchange[x]) \/ d[3] = k)}}

-----------------------------------------------------------------------------
(* createWorkerPool.                                                       *)

(* NewWorkerPool with what GetConfig returns: without a configuration, or  *)
(* one without AMQP, a nil pointer is followed, and the process is gone.   *)
(* CreateBroker and CreateConnectionPool check the broker and the size.    *)
NewWorkerPool(p) ==
  /\ pc[p] \in {"off", "configured"}
  /\ LET c == config[p]
     IN Go(p, IF c = None THEN "panicked"
              ELSE IF c.Broker # "amqp" THEN "failed"
              ELSE IF ~c.AMQP THEN "panicked"
              ELSE IF c.ConnectionPoolSize < 1 THEN "failed" ELSE "dialling")
  /\ UNCHANGED <<server, used, config, conns, todo, declared>>

(* Mutants: one dial too many; the connections made so far stay open. *)
DialOneMore(p) ==
  /\ pc[p] = "dialling"
  /\ conns' = [conns EXCEPT ![p] = @ + 1]
  /\ IF conns[p] < config[p].ConnectionPoolSize
     THEN UNCHANGED <<used, pc, todo>>
     ELSE Go(p, "setup") /\ todo' = [todo EXCEPT ![p] = Requests(config[p])]
          /\ used' = used \cup {config[p]}
  /\ UNCHANGED <<server, config, declared>>

DialFailsWithoutCleanup(p) ==
  /\ pc[p] = "dialling"
  /\ Go(p, "failed")
  /\ UNCHANGED <<server, used, config, conns, todo, declared>>

(* CreateConnectionPool, and after its last dial setupExchangeQueueBinding *)
(* begins.                                                                 *)
Dial(p) ==
  /\ pc[p] = "dialling"
  /\ conns' = [conns EXCEPT ![p] = @ + 1]
  /\ IF conns[p] + 1 < config[p].ConnectionPoolSize
     THEN UNCHANGED <<used, pc, todo>>
     ELSE Go(p, "setup") /\ todo' = [todo EXCEPT ![p] = Requests(config[p])]
          /\ used' = used \cup {config[p]}
  /\ UNCHANGED <<server, config, declared>>

DialFails(p) ==
  /\ pc[p] = "dialling"
  /\ Go(p, "failed")
  /\ conns' = [conns EXCEPT ![p] = 0]
  /\ UNCHANGED <<server, used, config, todo, declared>>

Request(p) ==
  /\ pc[p] = "setup" /\ todo[p] # <<>> /\ Accepts(Head(todo[p]))
  /\ Answer(p, Head(todo[p]))
  /\ todo' = [todo EXCEPT ![p] = Tail(@)]
  /\ UNCHANGED <<used, pc, config, conns>>

(* PRECONDITION_FAILED and the like: NewAMQPBroker returns the error, and  *)
(* nobody closes its connections.                                          *)
RequestRefused(p) ==
  /\ pc[p] = "setup" /\ todo[p] # <<>> /\ ~Accepts(Head(todo[p]))
  /\ Go(p, "refused")
  /\ UNCHANGED <<server, used, config, conns, todo, declared>>

(* No channel, or the connection is lost: the same. *)
SetupFails(p) ==
  /\ pc[p] = "setup"
  /\ Go(p, "abandoned")
  /\ UNCHANGED <<server, used, config, conns, todo, declared>>

(* CreateStore supports no store.  Its error ends the creation as well. *)
CreateStore(p) ==
  /\ pc[p] = "setup" /\ todo[p] = <<>>
  /\ Go(p, IF config[p].Store = "" THEN "created" ELSE "abandoned")
  /\ UNCHANGED <<server, used, config, conns, todo, declared>>

(* The process ends, and with it its connections; RabbitMQ keeps what is   *)
(* declared.                                                               *)
Crash(p) ==
  /\ pc[p] # "off"
  /\ Go(p, "off")
  /\ config' = [config EXCEPT ![p] = None]
  /\ conns' = [conns EXCEPT ![p] = 0]
  /\ todo' = [todo EXCEPT ![p] = <<>>]
  /\ declared' = [declared EXCEPT ![p] = ""]
  /\ UNCHANGED <<server, used>>

-----------------------------------------------------------------------------
Init ==
  /\ exchange = [x \in {} |-> ""] /\ queue = [q \in {} |-> ""]
  /\ binding = {} /\ used = {}
  /\ pc = [p \in Program |-> "off"]
  /\ config = [p \in Program |-> None]
  /\ conns = [p \in Program |-> 0]
  /\ todo = [p \in Program |-> <<>>]
  /\ declared = [p \in Program |-> ""]

Next ==
  \E p \in Program :
    \/ \E c \in Configs : SetApplicationConfig(p, c) \/ ReadFromEnv(p, c)
    \/ NewWorkerPool(p) \/ Dial(p) \/ DialFails(p)
    \/ Request(p) \/ RequestRefused(p) \/ SetupFails(p)
    \/ CreateStore(p) \/ Crash(p)

Spec == Init /\ [][Next]_vars

-----------------------------------------------------------------------------
(* Every variable has its type. *)
TypeOK ==
  /\ \A q \in DOMAIN queue : DOMAIN queue[q] = {"args", "dlx", "key"}
  /\ \A b \in binding : b[1] \in DOMAIN exchange /\ b[2] \in DOMAIN queue
  /\ pc \in [Program -> {"off", "configured", "panicked", "failed", "dialling", "setup",
                         "refused", "abandoned", "created"}]
  /\ \A p \in Program :
       /\ config[p] = None => pc[p] \in {"off", "panicked"}
       /\ conns[p] \in Nat
       /\ conns[p] # 0 => config[p] # None /\ conns[p] <= config[p].ConnectionPoolSize
       /\ declared[p] \in DOMAIN queue \cup {""}

(* The keys that the broker of a configuration publishes with. *)
PublishKeys(c) == {getRoutingKey(c), c.DelayedQueue, c.FailedQueue, c.TimeoutQueue}

(* Programs that share an exchange do not take each other's tasks: what    *)
(* one of them publishes reaches no queue that only the other one binds.   *)
SeparateKeys ==
  \A c, d \in Configs :
    c.Exchange = d.Exchange /\ c.ExchangeType = d.ExchangeType
      => \A k \in PublishKeys(c) : Routed(d, k) \subseteq Routed(c, k)

(* When a pool has been created, RabbitMQ routes every key that its broker *)
(* publishes with as Topology says of its configuration alone, and the     *)
(* delayed queue gives expired messages back to its task queue's key,      *)
(* whoever else has declared, failed or crashed on the same RabbitMQ.      *)
(* Only a delayed queue without a name is not reached: its retries are     *)
(* dropped.                                                                *)
TopologyIsSetUp ==
  \A p \in Program : pc[p] = "created" =>
    LET c == config[p]
    IN /\ \A k \in PublishKeys(c) : Reached(c.Exchange, k) = Routed(c, k) \ {""}
       /\ c.DelayedQueue # "" => queue[c.DelayedQueue] = Delaying(c)

(* Two configurations that give one exchange two types, or one queue two   *)
(* kinds of arguments.                                                     *)
Roles(c) ==
  {<<c.DelayedQueue, Delaying(c)>>}
    \cup {<<q, Plain(c)>> : q \in {c.TaskQueueName, c.FailedQueue, c.TimeoutQueue}}
Clash(c, d) ==
  \/ c.Exchange = d.Exchange /\ c.ExchangeType # d.ExchangeType
  \/ \E r \in Roles(c), s \in Roles(d) : r[1] = s[1] /\ r[1] # "" /\ r[2] # s[2]

(* RabbitMQ refuses a setup only for an exchange that it cannot have, or   *)
(* for a clash with a configuration that was used before, if only in part, *)
(* or within the configuration itself.  No crash, lost connection or       *)
(* concurrent setup keeps a program from starting again with its           *)
(* configuration.                                                          *)
RefusedOnlyByClash ==
  \A p \in Program : pc[p] = "refused" =>
    \/ config[p].Exchange = "" \/ config[p].ExchangeType \notin ExchangeTypes
    \/ \E c \in used : Clash(config[p], c)

(* There is no pool without the AMQP part, which validation does not ask   *)
(* for, or without connections; and although a configuration stays that    *)
(* ReadFromEnv has refused, after one that was accepted too, nothing that  *)
(* validation refuses reaches a pool but a prefetch count of 0.            *)
CreatedIsChecked ==
  \A p \in Program : pc[p] = "created" =>
    /\ ValidateConfig([config[p] EXCEPT !.PrefetchCount = 1])
    /\ config[p].AMQP /\ conns[p] >= 1

(* After an error no connection is left open, except when the broker had   *)
(* its connections: then all of them are, until the process ends.          *)
LeftOpenByBrokerOnly ==
  \A p \in Program : pc[p] # "dialling" =>
    conns[p] = IF pc[p] \in {"setup", "created", "refused", "abandoned"}
               THEN config[p].ConnectionPoolSize ELSE 0
=============================================================================
