------------------------- MODULE PoolCreationProofs -------------------------
(* Proofs about PoolCreation, for any number of programs and any           *)
(* configurations.                                                         *)
EXTENDS PoolCreation, TLAPS

USE ConfigsAssumption

-----------------------------------------------------------------------------
(* The invariants, one for what a program has and one for its requests.    *)

PCs == {"off", "configured", "panicked", "failed", "dialling", "setup", "refused",
        "abandoned", "created"}

(* Past the checks of CreateBroker and CreateConnectionPool. *)
Checked == {"dialling", "setup", "refused", "abandoned", "created"}

(* What remains of the validation when ReadFromEnv has filled in a         *)
(* configuration and refused it: the environment cannot take away the name *)
(* of the task queue, nor the URL that came with an AMQP part.             *)
Named(c) == c.TaskQueueName # "" /\ (c.AMQP => c.Url # "")

(* The broker, the AMQP part and the size are checked on the way.          *)
Configured(p) ==
  /\ config[p] = None => pc[p] \in {"off", "panicked"}
  /\ config[p] # None => Named(config[p])
  /\ pc[p] \in Checked =>
       /\ config[p] # None /\ config[p].Broker = "amqp" /\ config[p].AMQP
       /\ config[p].ConnectionPoolSize >= 1

Dialled(p) ==
  /\ pc[p] = "dialling" => conns[p] \in Nat /\ conns[p] < config[p].ConnectionPoolSize
  /\ pc[p] \in Checked \ {"dialling"} => conns[p] = config[p].ConnectionPoolSize
  /\ pc[p] \notin Checked => conns[p] = 0

ProgramInv ==
  /\ pc \in [Program -> PCs]
  /\ config \in [Program -> Configs \cup {None}]
  /\ conns \in [Program -> Int] /\ todo = [p \in Program |-> todo[p]]
  /\ \A p \in Program : Configured(p) /\ Dialled(p)

(* What Requests(c) is made of. *)
Names(c) == {c.TaskQueueName, c.DelayedQueue, c.FailedQueue, c.TimeoutQueue}
RequestsOf(c) ==
  {DeclareExchange(c)} \cup {DeclareQueue(r[1], r[2]) : r \in Roles(c)}
    \cup {QueueExchangeBind(b[1], b[2], c) : b \in setupExchangeQueueBinding(c)}

(* Whatever RabbitMQ has was asked for by a configuration that was used,   *)
(* or is a queue with a generated name.                                    *)
ServerInv ==
  /\ used \subseteq Configs
  /\ \A x \in DOMAIN exchange : \E c \in used : x = c.Exchange /\ exchange[x] = c.ExchangeType
  /\ \A q \in DOMAIN queue :
       /\ q # ""
       /\ q \in Generated \/ \E c \in used : <<q, queue[q]>> \in Roles(c)
  /\ \A p \in Program : pc[p] = "setup" =>
       config[p] \in used /\ todo[p] \in Seq(RequestsOf(config[p]))

Inv == ProgramInv /\ ServerInv /\ RefusedOnlyByClash

-----------------------------------------------------------------------------
(* The requests.                                                           *)

(* The parts of setupExchangeQueueBinding: for the exchange, the task      *)
(* queue and the delayed queue, and for each of the parking queues.        *)
LEMMA RequestsParts ==
  ASSUME NEW c
  PROVE  /\ <<DeclareExchange(c),
             DeclareQueue(c.TaskQueueName, Plain(c)), DeclareQueue(c.DelayedQueue, Delaying(c)),
             QueueExchangeBind(c.TaskQueueName, c.BindingKey, c),
             QueueExchangeBind(c.DelayedQueue, c.DelayedQueue, c)>> \in Seq(RequestsOf(c))
         /\ \A q \in {c.FailedQueue, c.TimeoutQueue} :
              Park(q, Plain(c), c) \in Seq(RequestsOf(c))
<1> DEFINE S == RequestsOf(c)
<1>1. /\ DeclareExchange(c) \in S
      /\ DeclareQueue(c.TaskQueueName, Plain(c)) \in S
      /\ DeclareQueue(c.DelayedQueue, Delaying(c)) \in S
      /\ QueueExchangeBind(c.TaskQueueName, c.BindingKey, c) \in S
      /\ QueueExchangeBind(c.DelayedQueue, c.DelayedQueue, c) \in S
      /\ \A q \in {c.FailedQueue, c.TimeoutQueue} \ {""} :
           DeclareQueue(q, Plain(c)) \in S /\ QueueExchangeBind(q, q, c) \in S
  <2>1. /\ <<c.TaskQueueName, Plain(c)>> \in Roles(c)
        /\ <<c.DelayedQueue, Delaying(c)>> \in Roles(c)
        /\ \A q \in {c.FailedQueue, c.TimeoutQueue} : <<q, Plain(c)>> \in Roles(c)
    BY DEF Roles
  <2>2. \A q, a : <<q, a>> \in Roles(c) => DeclareQueue(q, a) \in S
    <3>1. \A q, a : <<q, a>>[1] = q /\ <<q, a>>[2] = a
      OBVIOUS
    <3> QED
      BY <3>1 DEF RequestsOf
  <2>3. \A q, k : <<q, k>> \in setupExchangeQueueBinding(c) => QueueExchangeBind(q, k, c) \in S
    <3>1. \A q, k : <<q, k>>[1] = q /\ <<q, k>>[2] = k
      OBVIOUS
    <3> QED
      BY <3>1 DEF RequestsOf
  <2>4. /\ <<c.TaskQueueName, c.BindingKey>> \in setupExchangeQueueBinding(c)
        /\ <<c.DelayedQueue, c.DelayedQueue>> \in setupExchangeQueueBinding(c)
        /\ \A q \in {c.FailedQueue, c.TimeoutQueue} \ {""} :
             <<q, q>> \in setupExchangeQueueBinding(c)
    BY DEF setupExchangeQueueBinding
  <2>5. DeclareExchange(c) \in S
    BY DEF RequestsOf
  <2> HIDE DEF S
  <2>6. /\ DeclareQueue(c.TaskQueueName, Plain(c)) \in S
        /\ DeclareQueue(c.DelayedQueue, Delaying(c)) \in S
        /\ \A q \in {c.FailedQueue, c.TimeoutQueue} : DeclareQueue(q, Plain(c)) \in S
    BY ONLY <2>1, <2>2
  <2>7. /\ QueueExchangeBind(c.TaskQueueName, c.BindingKey, c) \in S
        /\ QueueExchangeBind(c.DelayedQueue, c.DelayedQueue, c) \in S
        /\ \A q \in {c.FailedQueue, c.TimeoutQueue} \ {""} : QueueExchangeBind(q, q, c) \in S
    BY ONLY <2>3, <2>4
  <2> QED
    BY ONLY <2>5, <2>6, <2>7
<1> HIDE DEF S
<1>2. \A q \in {c.FailedQueue, c.TimeoutQueue} : Park(q, Plain(c), c) \in Seq(S)
  <2>1. <<>> \in Seq(S) /\ \A a, b \in S : <<a, b>> \in Seq(S)
    OBVIOUS
  <2> QED
    BY <1>1, <2>1 DEF Park
<1> DEFINE t == <<DeclareExchange(c),
                  DeclareQueue(c.TaskQueueName, Plain(c)),
                  DeclareQueue(c.DelayedQueue, Delaying(c)),
                  QueueExchangeBind(c.TaskQueueName, c.BindingKey, c),
                  QueueExchangeBind(c.DelayedQueue, c.DelayedQueue, c)>>
<1>3. t \in Seq(S)
  <2>1. \A v, w, x, y, z \in S : <<v, w, x, y, z>> \in Seq(S)
    OBVIOUS
  <2> QED
    BY ONLY <1>1, <2>1 DEF t
<1> HIDE DEF t
<1> QED
  BY <1>2, <1>3 DEF t, S

(* setupExchangeQueueBinding sends the requests of its configuration. *)
LEMMA RequestsType ==
  ASSUME NEW c
  PROVE  Requests(c) \in Seq(RequestsOf(c))
<1> DEFINE S == RequestsOf(c)
<1>1. \A u, v, w \in Seq(S) : u \o v \o w \in Seq(S)
  OBVIOUS
<1> QED
  BY <1>1, RequestsParts DEF Requests

(* One request after the other. *)
LEMMA NextRequest ==
  ASSUME NEW S, NEW s \in Seq(S), s # <<>>
  PROVE  Head(s) \in S /\ Tail(s) \in Seq(S)
OBVIOUS

(* What a request asks for. *)
LEMMA Asked ==
  ASSUME NEW c, NEW r \in RequestsOf(c)
  PROVE  /\ r.do = "exchange" => r.name = c.Exchange /\ r.type = c.ExchangeType
         /\ r.do = "queue" => <<r.name, r.args>> \in Roles(c)
         /\ r.do = "bind" => /\ r.to = c.Exchange
                             /\ <<r.name, r.key>> \in setupExchangeQueueBinding(c)
         /\ r.do \in {"exchange", "queue", "bind"}
<1>1. CASE r = DeclareExchange(c)
  BY <1>1 DEF DeclareExchange
<1>2. ASSUME NEW x \in Roles(c), r = DeclareQueue(x[1], x[2])
      PROVE  r.do = "queue" /\ <<r.name, r.args>> \in Roles(c)
  <2>1. x = <<x[1], x[2]>>
    BY DEF Roles
  <2> QED
    BY <1>2, <2>1 DEF DeclareQueue
<1>3. ASSUME NEW b \in setupExchangeQueueBinding(c), r = QueueExchangeBind(b[1], b[2], c)
      PROVE  /\ r.do = "bind" /\ r.to = c.Exchange
             /\ <<r.name, r.key>> \in setupExchangeQueueBinding(c)
  <2>1. b = <<b[1], b[2]>>
    <3>1. ASSUME NEW q, NEW k, b = <<q, k>> PROVE b = <<b[1], b[2]>>
      BY <3>1
    <3>2. \/ b = <<c.TaskQueueName, c.BindingKey>>
          \/ b = <<c.DelayedQueue, c.DelayedQueue>>
          \/ \E q \in {c.FailedQueue, c.TimeoutQueue} : b = <<q, q>>
      BY DEF setupExchangeQueueBinding
    <3> QED
      BY ONLY <3>1, <3>2
  <2>2. /\ r.do = "bind" /\ r.to = c.Exchange /\ r.name = b[1] /\ r.key = b[2]
    BY <1>3 DEF QueueExchangeBind
  <2> QED
    BY ONLY <2>1, <2>2, b \in setupExchangeQueueBinding(c)
<1> QED
  BY <1>1, <1>2, <1>3 DEF RequestsOf

-----------------------------------------------------------------------------
(* The programs.                                                           *)

(* What is accepted is named, and so is what the environment makes of it;  *)
(* and with a broker and the AMQP part there is only the prefetch count    *)
(* left to refuse.                                                         *)
LEMMA NamedConfigs ==
  ASSUME NEW c \in Configs
  PROVE  /\ ValidateConfig(c) => Named(c)
         /\ \A old : Parsed(old, c) /\ (old # None => Named(old)) => Named(c)
         /\ Named(c) /\ c.Broker = "amqp" /\ c.AMQP
              => ValidateConfig([c EXCEPT !.PrefetchCount = 1])
<1>1. ValidateConfig(c) => Named(c)
  BY Zenon DEF ValidateConfig, Named
<1>2. ASSUME NEW old, Parsed(old, c), old # None => Named(old)
      PROVE  Named(c)
  <2>1. c.TaskQueueName # ""
    BY <1>2, Zenon DEF Parsed
  <2>2. ASSUME c.AMQP PROVE c.Url # ""
    <3>1. old # None /\ old.AMQP /\ (old.Url # "" => c.Url # "")
      BY <1>2, <2>2, Zenon DEF Parsed
    <3> QED
      BY <1>2, <3>1, Zenon DEF Named
  <2> QED
    BY <2>1, <2>2, Zenon DEF Named
<1>3. ASSUME Named(c), c.Broker = "amqp", c.AMQP
      PROVE  ValidateConfig([c EXCEPT !.PrefetchCount = 1])
  <2> DEFINE d == [c EXCEPT !.PrefetchCount = 1]
  <2>1. /\ d.Broker = c.Broker /\ d.TaskQueueName = c.TaskQueueName
        /\ d.Url = c.Url /\ d.PrefetchCount # 0
    BY ConfigsAssumption
  <2> HIDE DEF d
  <2>2. ValidateConfig(d)
    BY <1>3, <2>1, Zenon DEF ValidateConfig, Named
  <2> QED
    BY <2>2 DEF d
<1> QED
  BY ONLY <1>1, <1>2, <1>3

(* Nothing is configured, dialled or declared. *)
LEMMA InitInv == Init => Inv
<1>1. Init => ProgramInv
  <2> SUFFICES ASSUME Init
               PROVE  ProgramInv
    OBVIOUS
  <2>1. pc \in [Program -> PCs] /\ conns \in [Program -> Int]
    <3>1. pc = [p \in Program |-> "off"] /\ conns = [p \in Program |-> 0]
      BY DEF Init
    <3> QED
      BY ONLY <3>1 DEF PCs
  <2>4. todo = [p \in Program |-> todo[p]]
    BY Zenon DEF Init
  <2>2. config \in [Program -> Configs \cup {None}]
    BY DEF Init
  <2>3. \A p \in Program : Configured(p) /\ Dialled(p)
    BY DEF Init, Configured, Dialled, Checked
  <2> QED
    BY <2>1, <2>2, <2>3, <2>4 DEF ProgramInv
<1>2. Init => ServerInv
  BY DEF Init, ServerInv
<1>3. Init => RefusedOnlyByClash
  BY DEF Init, RefusedOnlyByClash
<1> QED
  BY <1>1, <1>2, <1>3 DEF Inv

(* A program's part of the invariant, when one program moves. *)
LEMMA OneProgram ==
  ASSUME ProgramInv, NEW p \in Program, pc'[p] \in PCs, pc' = [pc EXCEPT ![p] = pc'[p]],
         config' = [config EXCEPT ![p] = config'[p]],
         config'[p] \in Configs \cup {None},
         conns'[p] \in Int, conns' = [conns EXCEPT ![p] = conns'[p]],
         todo' = [todo EXCEPT ![p] = todo'[p]],
         Configured(p)', Dialled(p)'
  PROVE  ProgramInv'
<1> DEFINE Known == Configs \cup {None}
<1>1. /\ pc \in [Program -> PCs] /\ config \in [Program -> Known]
      /\ conns \in [Program -> Int] /\ todo = [q \in Program |-> todo[q]]
  BY DEF ProgramInv
<1>2. config'[p] \in Known
  OBVIOUS
<1> HIDE DEF Known
<1>3. /\ pc' \in [Program -> PCs] /\ config' \in [Program -> Known]
      /\ conns' \in [Program -> Int]
  BY ONLY <1>1, <1>2, pc'[p] \in PCs, pc' = [pc EXCEPT ![p] = pc'[p]],
          config' = [config EXCEPT ![p] = config'[p]],
          conns'[p] \in Int, conns' = [conns EXCEPT ![p] = conns'[p]]
<1>4. todo' = [q \in Program |-> todo'[q]]
  BY ONLY <1>1, todo' = [todo EXCEPT ![p] = todo'[p]]
<1>5. ASSUME NEW q \in Program
      PROVE  Configured(q)' /\ Dialled(q)'
  <2>1. CASE q = p
    BY <2>1
  <2>2. CASE q # p
    <3>1. pc'[q] = pc[q] /\ config'[q] = config[q] /\ conns'[q] = conns[q]
      BY ONLY <1>1, <2>2, pc' = [pc EXCEPT ![p] = pc'[p]],
              config' = [config EXCEPT ![p] = config'[p]],
              conns' = [conns EXCEPT ![p] = conns'[p]]
    <3>2. Configured(q) /\ Dialled(q)
      BY DEF ProgramInv
    <3> QED
      BY ONLY <3>1, <3>2 DEF Configured, Dialled
  <2> QED
    BY <2>1, <2>2
<1> QED
  BY ONLY <1>3, <1>4, <1>5 DEF ProgramInv, Known

(* Every step keeps what a program has in agreement with where it is. *)
LEMMA ProgramStep ==
  ASSUME ProgramInv, NEW p \in Program
  PROVE  /\ \A c \in Configs : SetApplicationConfig(p, c) \/ ReadFromEnv(p, c) => ProgramInv'
         /\ NewWorkerPool(p) \/ Dial(p) \/ DialFails(p) => ProgramInv'
         /\ Request(p) \/ RequestRefused(p) \/ SetupFails(p) => ProgramInv'
         /\ CreateStore(p) \/ Crash(p) => ProgramInv'
<1> USE DEF Go
<1>0. /\ pc \in [Program -> PCs] /\ Configured(p) /\ Dialled(p)
      /\ config \in [Program -> Configs \cup {None}]
      /\ conns \in [Program -> Int] /\ todo = [q \in Program |-> todo[q]]
  BY DEF ProgramInv
<1>1. ASSUME NEW c \in Configs, SetApplicationConfig(p, c)
      PROVE  ProgramInv'
  <2>1. Configured(p)' /\ Dialled(p)'
    <3>1. /\ config'[p] = c /\ pc'[p] = "configured" /\ conns' = conns /\ conns[p] = 0
      BY <1>0, <1>1 DEF SetApplicationConfig, Dialled, Checked
    <3>2. c # None /\ Named(c)
      BY <1>1, NamedConfigs DEF SetApplicationConfig
    <3> QED
      BY ONLY <3>1, <3>2 DEF Configured, Dialled, Checked
  <2>6. pc' = [pc EXCEPT ![p] = pc'[p]] /\ pc'[p] \in PCs
    BY <1>0, <1>1 DEF SetApplicationConfig, PCs
  <2>7. /\ config' = [config EXCEPT ![p] = config'[p]]
        /\ config'[p] \in Configs \cup {None}
    BY <1>0, <1>1 DEF SetApplicationConfig
  <2>8. conns' = [conns EXCEPT ![p] = conns'[p]] /\ conns'[p] \in Int
    BY <1>0, <1>1 DEF SetApplicationConfig
  <2>9. todo' = [todo EXCEPT ![p] = todo'[p]]
    BY <1>0, <1>1 DEF SetApplicationConfig
  <2> QED
    BY ONLY <2>1, <2>6, <2>7, <2>8, <2>9, ProgramInv, OneProgram
<1>2. ASSUME NEW c \in Configs, ReadFromEnv(p, c)
      PROVE  ProgramInv'
  <2>1. Configured(p)' /\ Dialled(p)'
    <3>1. /\ config'[p] = c /\ pc'[p] = "configured" /\ conns' = conns /\ conns[p] = 0
      BY <1>0, <1>2 DEF ReadFromEnv, Dialled, Checked
    <3>2. c # None /\ Parsed(config[p], c) /\ (config[p] # None => Named(config[p]))
      BY <1>0, <1>2 DEF ReadFromEnv, Configured
    <3>3. Named(c)
      BY ONLY <3>2, NamedConfigs, c \in Configs
    <3> QED
      BY ONLY <3>1, <3>2, <3>3 DEF Configured, Dialled, Checked
  <2>6. pc' = [pc EXCEPT ![p] = pc'[p]] /\ pc'[p] \in PCs
    BY <1>0, <1>2 DEF ReadFromEnv, PCs
  <2>7. /\ config' = [config EXCEPT ![p] = config'[p]]
        /\ config'[p] \in Configs \cup {None}
    BY <1>0, <1>2 DEF ReadFromEnv
  <2>8. conns' = [conns EXCEPT ![p] = conns'[p]] /\ conns'[p] \in Int
    BY <1>0, <1>2 DEF ReadFromEnv
  <2>9. todo' = [todo EXCEPT ![p] = todo'[p]]
    BY <1>0, <1>2 DEF ReadFromEnv
  <2> QED
    BY ONLY <2>1, <2>6, <2>7, <2>8, <2>9, ProgramInv, OneProgram
<1>3. ASSUME NewWorkerPool(p)
      PROVE  ProgramInv'
  <2>1. Configured(p)' /\ Dialled(p)'
    BY <1>0, <1>3 DEF NewWorkerPool, Configured, Dialled, Checked
  <2>6. pc' = [pc EXCEPT ![p] = pc'[p]] /\ pc'[p] \in PCs
    BY <1>0, <1>3 DEF NewWorkerPool, PCs
  <2>7. /\ config' = [config EXCEPT ![p] = config'[p]]
        /\ config'[p] \in Configs \cup {None}
    BY <1>0, <1>3 DEF NewWorkerPool
  <2>8. conns' = [conns EXCEPT ![p] = conns'[p]] /\ conns'[p] \in Int
    BY <1>0, <1>3 DEF NewWorkerPool
  <2>9. todo' = [todo EXCEPT ![p] = todo'[p]]
    BY <1>0, <1>3 DEF NewWorkerPool
  <2> QED
    BY ONLY <2>1, <2>6, <2>7, <2>8, <2>9, ProgramInv, OneProgram
<1>4. ASSUME Dial(p)
      PROVE  ProgramInv'
  <2>1. Configured(p)' /\ Dialled(p)'
    BY <1>0, <1>4 DEF Dial, Configured, Dialled, Checked
  <2>6. pc' = [pc EXCEPT ![p] = pc'[p]] /\ pc'[p] \in PCs
    BY <1>0, <1>4 DEF Dial, PCs
  <2>7. /\ config' = [config EXCEPT ![p] = config'[p]]
        /\ config'[p] \in Configs \cup {None}
    BY <1>0, <1>4 DEF Dial
  <2>8. conns' = [conns EXCEPT ![p] = conns'[p]] /\ conns'[p] \in Int
    BY <1>0, <1>4 DEF Dial
  <2>9. todo' = [todo EXCEPT ![p] = todo'[p]]
    BY <1>0, <1>4 DEF Dial
  <2> QED
    BY ONLY <2>1, <2>6, <2>7, <2>8, <2>9, ProgramInv, OneProgram
<1>5. ASSUME DialFails(p)
      PROVE  ProgramInv'
  <2>1. Configured(p)' /\ Dialled(p)'
    BY <1>0, <1>5 DEF DialFails, Configured, Dialled, Checked
  <2>6. pc' = [pc EXCEPT ![p] = pc'[p]] /\ pc'[p] \in PCs
    BY <1>0, <1>5 DEF DialFails, PCs
  <2>7. /\ config' = [config EXCEPT ![p] = config'[p]]
        /\ config'[p] \in Configs \cup {None}
    BY <1>0, <1>5 DEF DialFails
  <2>8. conns' = [conns EXCEPT ![p] = conns'[p]] /\ conns'[p] \in Int
    BY <1>0, <1>5 DEF DialFails
  <2>9. todo' = [todo EXCEPT ![p] = todo'[p]]
    BY <1>0, <1>5 DEF DialFails
  <2> QED
    BY ONLY <2>1, <2>6, <2>7, <2>8, <2>9, ProgramInv, OneProgram
<1>6. ASSUME Request(p)
      PROVE  ProgramInv'
  BY <1>0, <1>6 DEF Request, ProgramInv, Configured, Dialled
<1>7. ASSUME RequestRefused(p) \/ SetupFails(p) \/ CreateStore(p)
      PROVE  ProgramInv'
  <2>1. Configured(p)' /\ Dialled(p)'
    BY <1>0, <1>7 DEF RequestRefused, SetupFails, CreateStore, Configured, Dialled, Checked
  <2>6. pc' = [pc EXCEPT ![p] = pc'[p]] /\ pc'[p] \in PCs
    BY <1>0, <1>7 DEF RequestRefused, SetupFails, CreateStore, PCs
  <2>7. /\ config' = [config EXCEPT ![p] = config'[p]]
        /\ config'[p] \in Configs \cup {None}
    BY <1>0, <1>7 DEF RequestRefused, SetupFails, CreateStore
  <2>8. conns' = [conns EXCEPT ![p] = conns'[p]] /\ conns'[p] \in Int
    BY <1>0, <1>7 DEF RequestRefused, SetupFails, CreateStore
  <2>9. todo' = [todo EXCEPT ![p] = todo'[p]]
    BY <1>0, <1>7 DEF RequestRefused, SetupFails, CreateStore
  <2> QED
    BY ONLY <2>1, <2>6, <2>7, <2>8, <2>9, ProgramInv, OneProgram
<1>8. ASSUME Crash(p)
      PROVE  ProgramInv'
  <2>1. Configured(p)' /\ Dialled(p)'
    BY <1>0, <1>8 DEF Crash, Configured, Dialled, Checked
  <2>6. pc' = [pc EXCEPT ![p] = pc'[p]] /\ pc'[p] \in PCs
    BY <1>0, <1>8 DEF Crash, PCs
  <2>7. /\ config' = [config EXCEPT ![p] = config'[p]]
        /\ config'[p] \in Configs \cup {None}
    BY <1>0, <1>8 DEF Crash
  <2>8. conns' = [conns EXCEPT ![p] = conns'[p]] /\ conns'[p] \in Int
    <3>1. conns' = [conns EXCEPT ![p] = 0]
      BY <1>8 DEF Crash
    <3> QED
      BY ONLY <1>0, <3>1
  <2>9. todo' = [todo EXCEPT ![p] = todo'[p]]
    BY <1>0, <1>8 DEF Crash
  <2> QED
    BY ONLY <2>1, <2>6, <2>7, <2>8, <2>9, ProgramInv, OneProgram
<1> QED
  BY <1>1, <1>2, <1>3, <1>4, <1>5, <1>6, <1>7, <1>8

-----------------------------------------------------------------------------
(* RabbitMQ.                                                               *)

(* What the steps of a program that send no request do to the others.      *)
Quiet(p) ==
  /\ UNCHANGED server /\ used \subseteq used'
  /\ \A q \in Program \ {p} : pc'[q] = pc[q] /\ config'[q] = config[q] /\ todo'[q] = todo[q]

(* Each of them leaves p without requests, except the last dial.           *)
LEMMA QuietSteps ==
  ASSUME ProgramInv, NEW p \in Program,
         \/ \E c \in Configs : SetApplicationConfig(p, c) \/ ReadFromEnv(p, c)
         \/ NewWorkerPool(p) \/ DialFails(p) \/ SetupFails(p)
         \/ CreateStore(p) \/ Crash(p)
  PROVE  Quiet(p) /\ used' = used /\ pc'[p] \notin {"setup", "refused"}
<1>1. /\ pc \in [Program -> PCs] /\ todo = [q \in Program |-> todo[q]]
      /\ config \in [Program -> Configs \cup {None}]
  BY DEF ProgramInv
<1> USE DEF Quiet, Go
<1>2. CASE \E c \in Configs : SetApplicationConfig(p, c) \/ ReadFromEnv(p, c)
  BY <1>1, <1>2 DEF SetApplicationConfig, ReadFromEnv
<1>3. CASE NewWorkerPool(p) \/ DialFails(p) \/ SetupFails(p) \/ CreateStore(p)
  BY <1>1, <1>3 DEF NewWorkerPool, DialFails, SetupFails, CreateStore
<1>4. CASE Crash(p)
  BY <1>1, <1>4 DEF Crash
<1> QED
  BY <1>2, <1>3, <1>4

(* What was true of RabbitMQ and the other programs stays true. *)
LEMMA QuietInv ==
  ASSUME ServerInv, RefusedOnlyByClash, NEW p \in Program, Quiet(p), used' \subseteq Configs,
         pc'[p] = "setup" =>
           config'[p] \in used' /\ todo'[p] \in Seq(RequestsOf(config'[p])),
         pc'[p] # "refused"
  PROVE  ServerInv' /\ RefusedOnlyByClash'
<1>1. UNCHANGED <<exchange, queue>>
  BY DEF Quiet, server
<1>2. /\ \A x \in DOMAIN exchange' : \E c \in used' : x = c.Exchange /\ exchange'[x] = c.ExchangeType
      /\ \A q \in DOMAIN queue' :
           /\ q # ""
           /\ q \in Generated \/ \E c \in used' : <<q, queue'[q]>> \in Roles(c)
  BY <1>1 DEF ServerInv, Quiet
<1>3. \A q \in Program : pc'[q] = "setup" =>
         config'[q] \in used' /\ todo'[q] \in Seq(RequestsOf(config'[q]))
  <2> TAKE q \in Program
  <2>1. CASE q = p
    BY <2>1
  <2>2. CASE q # p
    BY <2>2 DEF Quiet, ServerInv
  <2> QED
    BY <2>1, <2>2
<1>4. RefusedOnlyByClash'
  BY DEF Quiet, RefusedOnlyByClash
<1> QED
  BY <1>2, <1>3, <1>4 DEF ServerInv

(* The last dial begins the setup with the requests of the configuration. *)
LEMMA DialInv ==
  ASSUME ProgramInv, ServerInv, RefusedOnlyByClash, NEW p \in Program, Dial(p)
  PROVE  ServerInv' /\ RefusedOnlyByClash'
<1>1. /\ pc \in [Program -> PCs] /\ todo = [q \in Program |-> todo[q]]
      /\ config[p] \in Configs
  BY DEF ProgramInv, Configured, Checked, Dial
<1>2. Quiet(p)
  BY <1>1 DEF Dial, Quiet, Go
<1>3. used' \subseteq Configs /\ pc'[p] # "refused"
  <2>1. used \subseteq Configs /\ (used' = used \/ used' = used \cup {config[p]})
    BY DEF ServerInv, Dial
  <2>2. pc[p] = "dialling" /\ (pc' = pc \/ pc' = [pc EXCEPT ![p] = "setup"])
    BY DEF Dial, Go
  <2> QED
    BY ONLY <1>1, <2>1, <2>2
<1>4. pc'[p] = "setup" => config'[p] \in used' /\ todo'[p] = Requests(config[p]) /\ config' = config
  BY <1>1 DEF Dial, Go
<1> QED
  BY ONLY <1>2, <1>3, <1>4, QuietInv, RequestsType, ServerInv, RefusedOnlyByClash

(* RabbitMQ answers a request of a configuration that is used. *)
LEMMA RequestInv ==
  ASSUME ProgramInv, ServerInv, RefusedOnlyByClash, NEW p \in Program, Request(p)
  PROVE  ServerInv' /\ RefusedOnlyByClash'
<1> DEFINE c == config[p]  r == Head(todo[p])
<1>1. /\ UNCHANGED <<used, pc, config>> /\ Answer(p, r) /\ Accepts(r)
      /\ c \in used /\ todo[p] \in Seq(RequestsOf(c)) /\ todo[p] # <<>>
      /\ todo' = [todo EXCEPT ![p] = Tail(@)] /\ todo = [q \in Program |-> todo[q]]
  BY DEF Request, ServerInv, ProgramInv
<1>2. r \in RequestsOf(c) /\ Tail(todo[p]) \in Seq(RequestsOf(c))
  BY ONLY <1>1, NextRequest
<1> HIDE DEF r, c
<1>3. \A x \in DOMAIN exchange' : \E d \in used : x = d.Exchange /\ exchange'[x] = d.ExchangeType
  <2>1. CASE r.do = "exchange"
    <3>1. /\ r.name = c.Exchange /\ r.type = c.ExchangeType
          /\ exchange' = [x \in DOMAIN exchange \cup {r.name} |->
                            IF x = r.name THEN r.type ELSE exchange[x]]
      BY <1>1, <1>2, <2>1, Asked DEF Answer
    <3> QED
      BY <1>1, <3>1 DEF ServerInv
  <2>2. CASE r.do # "exchange"
    <3>1. exchange' = exchange
      BY <1>1, <1>2, <2>2, Asked DEF Answer
    <3> QED
      BY <3>1 DEF ServerInv
  <2> QED
    BY <2>1, <2>2
<1>4. \A q \in DOMAIN queue' :
        /\ q # ""
        /\ q \in Generated \/ \E d \in used : <<q, queue'[q]>> \in Roles(d)
  <2>1. CASE r.do = "queue"
    <3>1. <<r.name, r.args>> \in Roles(c)
      BY <1>2, <2>1, Asked
    <3>2. PICK q \in IF r.name # "" THEN {r.name} ELSE Generated \ DOMAIN queue :
            queue' = [n \in DOMAIN queue \cup {q} |-> IF n = q THEN r.args ELSE queue[n]]
      BY <1>1, <2>1 DEF Answer
    <3>3. q # "" /\ (q \in Generated \/ <<q, r.args>> \in Roles(c))
      BY <3>1, GeneratedAssumption
    <3> QED
      BY <1>1, <3>2, <3>3 DEF ServerInv
  <2>2. CASE r.do # "queue"
    <3>1. queue' = queue
      BY <1>1, <1>2, <2>2, Asked DEF Answer
    <3> QED
      BY <3>1 DEF ServerInv
  <2> QED
    BY <2>1, <2>2
<1>5. \A q \in Program : pc'[q] = "setup" =>
        config'[q] \in used /\ todo'[q] \in Seq(RequestsOf(config'[q]))
  <2> TAKE q \in Program
  <2>1. CASE q = p
    <3>1. todo'[p] = Tail(todo[p])
      BY ONLY <1>1
    <3> QED
      BY ONLY <1>1, <1>2, <2>1, <3>1 DEF c
  <2>2. CASE q # p
    <3>1. todo'[q] = todo[q]
      BY ONLY <1>1, <2>2
    <3> QED
      BY <1>1, <3>1 DEF ServerInv
  <2> QED
    BY <2>1, <2>2
<1>6. RefusedOnlyByClash'
  BY <1>1 DEF RefusedOnlyByClash
<1> QED
  BY <1>1, <1>3, <1>4, <1>5, <1>6 DEF ServerInv

(* A refused request contradicts what a used configuration asked for. *)
LEMMA RefusedInv ==
  ASSUME ProgramInv, ServerInv, RefusedOnlyByClash, NEW p \in Program, RequestRefused(p)
  PROVE  ServerInv' /\ RefusedOnlyByClash'
<1> DEFINE c == config[p]  r == Head(todo[p])
<1>1. /\ pc[p] = "setup" /\ pc' = [pc EXCEPT ![p] = "refused"] /\ pc \in [Program -> PCs]
      /\ UNCHANGED <<exchange, queue, used, config, todo>> /\ ~Accepts(r)
      /\ c \in used /\ todo[p] \in Seq(RequestsOf(c)) /\ todo[p] # <<>>
  BY DEF RequestRefused, ServerInv, ProgramInv, Go, server
<1>2. r \in RequestsOf(c) /\ c \in Configs
  BY <1>1, NextRequest DEF ServerInv
<1> HIDE DEF r, c
<1>3. \/ c.Exchange = "" \/ c.ExchangeType \notin ExchangeTypes
      \/ \E d \in used : Clash(c, d)
  <2>1. CASE r.do = "exchange"
    <3>1. r.name = c.Exchange /\ r.type = c.ExchangeType
      BY <1>2, <2>1, Asked
    <3>2. CASE r.name \in DOMAIN exchange /\ exchange[r.name] # r.type
      BY <3>1, <3>2 DEF ServerInv, Clash
    <3> QED
      BY <1>1, <2>1, <3>1, <3>2 DEF Accepts
  <2>2. CASE r.do = "queue"
    <3>1. <<r.name, r.args>> \in Roles(c)
      BY <1>2, <2>2, Asked
    <3>2. r.name \in DOMAIN queue /\ queue[r.name] # r.args
      BY <1>1, <2>2 DEF Accepts
    <3>3. r.name # "" /\ r.name \notin Generated
      <4>1. r.name \in Names(c)
        BY ONLY <3>1 DEF Roles, Names
      <4>2. Names(c) \cap Generated = {}
        BY ONLY <1>2, GeneratedAssumption DEF Names
      <4>3. r.name # ""
        BY <3>2 DEF ServerInv
      <4> QED
        BY ONLY <4>1, <4>2, <4>3
    <3>4. PICK d \in used : <<r.name, queue[r.name]>> \in Roles(d)
      BY <3>2, <3>3 DEF ServerInv
    <3>5. \E x \in Roles(c), y \in Roles(d) : x[1] = y[1] /\ x[1] # "" /\ x[2] # y[2]
      <4> DEFINE x == <<r.name, r.args>>  y == <<r.name, queue[r.name]>>
      <4>1. x \in Roles(c) /\ y \in Roles(d) /\ x[1] = y[1] /\ x[1] # "" /\ x[2] # y[2]
        BY <3>1, <3>2, <3>3, <3>4
      <4> QED
        BY <4>1
    <3> QED
      BY <3>4, <3>5 DEF Clash
  <2>3. r.do # "bind"
    BY <1>1 DEF Accepts
  <2> QED
    BY <1>2, <2>1, <2>2, <2>3, Asked
<1>4. RefusedOnlyByClash'
  BY <1>1, <1>3 DEF RefusedOnlyByClash, c
<1>5. ServerInv'
  BY <1>1 DEF ServerInv
<1> QED
  BY <1>4, <1>5

(* Every step preserves the invariant. *)
LEMMA StepInv == Inv /\ [Next]_vars => Inv'
<1> SUFFICES ASSUME Inv, [Next]_vars
             PROVE  Inv'
  OBVIOUS
<1>1. ProgramInv /\ ServerInv /\ RefusedOnlyByClash
  BY DEF Inv
<1>2. CASE Next
  <2>1. PICK p \in Program :
          \/ \E c \in Configs : SetApplicationConfig(p, c) \/ ReadFromEnv(p, c)
          \/ NewWorkerPool(p) \/ Dial(p) \/ DialFails(p)
          \/ Request(p) \/ RequestRefused(p) \/ SetupFails(p)
          \/ CreateStore(p) \/ Crash(p)
    BY <1>2 DEF Next
  <2>2. ProgramInv'
    BY ONLY <1>1, <2>1, ProgramStep
  <2>3. ASSUME Quiet(p), used' = used, pc'[p] \notin {"setup", "refused"}
        PROVE  ServerInv' /\ RefusedOnlyByClash'
    <3>1. used' \subseteq Configs
      BY <1>1, <2>3 DEF ServerInv
    <3> QED
      BY ONLY <1>1, <2>3, <3>1, QuietInv
  <2>4. ServerInv' /\ RefusedOnlyByClash'
    BY ONLY <1>1, <2>1, <2>3, QuietSteps, DialInv, RequestInv, RefusedInv
  <2> QED
    BY <2>2, <2>4 DEF Inv
<1>3. CASE UNCHANGED vars
  BY <1>1, <1>3 DEF vars, server, program, Inv, ProgramInv, ServerInv, RefusedOnlyByClash,
     Configured, Dialled
<1> QED
  BY <1>2, <1>3

(* The invariant holds in every reachable state. *)
LEMMA Invariant == Spec => []Inv
BY InitInv, StepInv, PTL DEF Spec

-----------------------------------------------------------------------------
(* The theorems.                                                           *)

(* However many programs set up, fail and crash with one RabbitMQ, a setup *)
(* is refused only for what its configuration says (NewAMQPBroker,         *)
(* setupExchangeQueueBinding): one that clashes with none that was used    *)
(* can always be started again.                                            *)
THEOREM SetupsAreRefusedForClashes == Spec => []RefusedOnlyByClash
<1>1. Inv => RefusedOnlyByClash
  BY DEF Inv
<1> QED
  BY <1>1, Invariant, PTL

(* There is no worker pool without the AMQP part or without connections,   *)
(* nor one whose configuration the validation would refuse for more than   *)
(* its prefetch count (createWorkerPool, with ReadFromEnv and              *)
(* SetApplicationConfig in any order before it, errors ignored).           *)
THEOREM PoolsAreChecked == Spec => []CreatedIsChecked
<1>1. Inv => CreatedIsChecked
  <2> SUFFICES ASSUME Inv, NEW p \in Program, pc[p] = "created"
               PROVE  /\ ValidateConfig([config[p] EXCEPT !.PrefetchCount = 1])
                      /\ config[p].AMQP /\ conns[p] >= 1
    BY DEF CreatedIsChecked
  <2>1. Configured(p) /\ Dialled(p) /\ config[p] \in Configs \cup {None}
    BY DEF Inv, ProgramInv
  <2>2. /\ config[p] # None /\ Named(config[p]) /\ config[p].Broker = "amqp" /\ config[p].AMQP
        /\ conns[p] = config[p].ConnectionPoolSize /\ config[p].ConnectionPoolSize >= 1
    BY <2>1 DEF Configured, Dialled, Checked
  <2>3. ValidateConfig([config[p] EXCEPT !.PrefetchCount = 1])
    BY ONLY <2>1, <2>2, NamedConfigs
  <2> QED
    BY ONLY <2>2, <2>3
<1> QED
  BY <1>1, Invariant, PTL

(* A creation that fails leaves all connections of its pool open, or none: *)
(* none before NewAMQPBroker has its provider, all of them after.          *)
THEOREM AllOrNoneLeftOpen == Spec => []LeftOpenByBrokerOnly
<1>1. Inv => LeftOpenByBrokerOnly
  BY DEF Inv, ProgramInv, Configured, Dialled, Checked, PCs, LeftOpenByBrokerOnly
<1> QED
  BY <1>1, Invariant, PTL

-----------------------------------------------------------------------------
(* The requests of a setup.                                                *)

Sent(s, r) == \E i \in 1..Len(s) : s[i] = r

(* A request of two sequences is in one of them. *)
LEMMA SentConcat ==
  ASSUME NEW S, NEW s \in Seq(S), NEW t \in Seq(S), NEW r
  PROVE  Sent(s, r) \/ Sent(t, r) => Sent(s \o t, r)
<1>1. Sent(s, r) => Sent(s \o t, r)
  <2> SUFFICES ASSUME NEW i \in 1..Len(s), s[i] = r
               PROVE  Sent(s \o t, r)
    BY DEF Sent
  <2>1. i \in 1..Len(s \o t) /\ (s \o t)[i] = r
    OBVIOUS
  <2> QED
    BY ONLY <2>1 DEF Sent
<1>2. Sent(t, r) => Sent(s \o t, r)
  <2> SUFFICES ASSUME NEW i \in 1..Len(t), t[i] = r
               PROVE  Sent(s \o t, r)
    BY DEF Sent
  <2> DEFINE j == Len(s) + i
  <2>1. j \in 1..Len(s \o t) /\ (s \o t)[j] = r
    OBVIOUS
  <2> HIDE DEF j
  <2> QED
    BY ONLY <2>1 DEF Sent
<1> QED
  BY <1>1, <1>2

(* Sending the first request leaves the others. *)
LEMMA SentTail ==
  ASSUME NEW S, NEW s \in Seq(S), s # <<>>, NEW r, Sent(s, r)
  PROVE  r = Head(s) \/ Sent(Tail(s), r)
<1>1. PICK i \in 1..Len(s) : s[i] = r
  BY DEF Sent
<1>2. CASE i = 1
  BY <1>1, <1>2
<1>3. CASE i # 1
  <2>1. i - 1 \in 1..Len(Tail(s)) /\ Tail(s)[i - 1] = r
    BY <1>1, <1>3
  <2> QED
    BY ONLY <2>1 DEF Sent
<1> QED
  BY <1>2, <1>3

(* The second of two is in the sequence, and so are the first, third,      *)
(* fourth and fifth of five.                                               *)
LEMMA SentByIndex ==
  /\ \A v, w : Sent(<<v, w>>, w)
  /\ \A s : Len(s) = 5 => Sent(s, s[1]) /\ Sent(s, s[3]) /\ Sent(s, s[4]) /\ Sent(s, s[5])
<1>1. 2 \in 1..2 /\ 1 \in 1..5 /\ 3 \in 1..5 /\ 4 \in 1..5 /\ 5 \in 1..5
  OBVIOUS
<1>2. ASSUME NEW v, NEW w
      PROVE  Sent(<<v, w>>, w)
  <2>1. <<v, w>>[2] = w /\ Len(<<v, w>>) = 2
    OBVIOUS
  <2> QED
    BY ONLY <1>1, <2>1 DEF Sent
<1> QED
  BY ONLY <1>1, <1>2 DEF Sent

(* What setupExchangeQueueBinding(c) asks for. *)
Wanted(c, r) ==
  \/ r = DeclareExchange(c) \/ r = DeclareQueue(c.DelayedQueue, Delaying(c))
  \/ \E q, k : <<q, k>> \in setupExchangeQueueBinding(c) /\ r = QueueExchangeBind(q, k, c)

(* It sends a request for the exchange first, and one for each binding. *)
LEMMA RequestsWanted ==
  ASSUME NEW c
  PROVE  /\ Head(Requests(c)) = DeclareExchange(c)
         /\ \A r : Wanted(c, r) => Sent(Requests(c), r)
<1> DEFINE S == RequestsOf(c)
           t == <<DeclareExchange(c),
                  DeclareQueue(c.TaskQueueName, Plain(c)),
                  DeclareQueue(c.DelayedQueue, Delaying(c)),
                  QueueExchangeBind(c.TaskQueueName, c.BindingKey, c),
                  QueueExchangeBind(c.DelayedQueue, c.DelayedQueue, c)>>
           f == Park(c.FailedQueue, Plain(c), c)
           g == Park(c.TimeoutQueue, Plain(c), c)
<1>1. t \in Seq(S) /\ f \in Seq(S) /\ g \in Seq(S) /\ Requests(c) = (t \o f) \o g
  BY RequestsParts DEF Requests
<1> HIDE DEF S, t, f, g
<1>2. /\ Sent(t, DeclareExchange(c)) /\ Sent(t, DeclareQueue(c.DelayedQueue, Delaying(c)))
      /\ Sent(t, QueueExchangeBind(c.TaskQueueName, c.BindingKey, c))
      /\ Sent(t, QueueExchangeBind(c.DelayedQueue, c.DelayedQueue, c))
      /\ t # <<>> /\ Head(t) = DeclareExchange(c)
  <2>1. /\ t[1] = DeclareExchange(c) /\ t[3] = DeclareQueue(c.DelayedQueue, Delaying(c))
        /\ t[4] = QueueExchangeBind(c.TaskQueueName, c.BindingKey, c)
        /\ t[5] = QueueExchangeBind(c.DelayedQueue, c.DelayedQueue, c)
        /\ Len(t) = 5
    BY DEF t
  <2>2. t # <<>> /\ Head(t) = t[1]
    BY ONLY <1>1, <2>1
  <2> QED
    BY ONLY <2>1, <2>2, SentByIndex
<1>3. ASSUME NEW q, NEW a, q # ""
      PROVE  Sent(Park(q, a, c), QueueExchangeBind(q, q, c))
  <2>1. Park(q, a, c) = <<DeclareQueue(q, a), QueueExchangeBind(q, q, c)>>
    BY <1>3 DEF Park
  <2> QED
    BY ONLY <2>1, SentByIndex
<1>4. /\ c.FailedQueue # "" => Sent(f, QueueExchangeBind(c.FailedQueue, c.FailedQueue, c))
      /\ c.TimeoutQueue # "" => Sent(g, QueueExchangeBind(c.TimeoutQueue, c.TimeoutQueue, c))
  BY <1>3 DEF f, g
<1>5. Head((t \o f) \o g) = Head(t)
  BY ONLY <1>1, <1>2
<1>6. \A r : Sent(t, r) \/ Sent(f, r) \/ Sent(g, r) => Sent((t \o f) \o g, r)
  <2>1. t \o f \in Seq(S)
    BY ONLY <1>1
  <2> QED
    BY ONLY <1>1, <2>1, SentConcat
<1>7. ASSUME NEW q, NEW k, <<q, k>> \in setupExchangeQueueBinding(c)
      PROVE  \/ q = c.TaskQueueName /\ k = c.BindingKey
             \/ q = c.DelayedQueue /\ k = c.DelayedQueue
             \/ q = k /\ q # "" /\ q \in {c.FailedQueue, c.TimeoutQueue}
  BY <1>7 DEF setupExchangeQueueBinding
<1>8. ASSUME NEW r, Wanted(c, r)
      PROVE  Sent(t, r) \/ Sent(f, r) \/ Sent(g, r)
  <2>1. CASE r = DeclareExchange(c) \/ r = DeclareQueue(c.DelayedQueue, Delaying(c))
    BY ONLY <1>2, <2>1
  <2>2. ASSUME NEW q, NEW k, <<q, k>> \in setupExchangeQueueBinding(c),
               r = QueueExchangeBind(q, k, c)
        PROVE  Sent(t, r) \/ Sent(f, r) \/ Sent(g, r)
    <3>1. \/ q = c.TaskQueueName /\ k = c.BindingKey
          \/ q = c.DelayedQueue /\ k = c.DelayedQueue
          \/ q = k /\ q # "" /\ q \in {c.FailedQueue, c.TimeoutQueue}
      BY <1>7, <2>2
    <3> QED
      BY ONLY <1>2, <1>4, <2>2, <3>1
  <2> QED
    BY <1>8, <2>1, <2>2 DEF Wanted
<1> QED
  BY ONLY <1>1, <1>2, <1>5, <1>6, <1>8

-----------------------------------------------------------------------------
(* How RabbitMQ grows.                                                     *)

(* RabbitMQ forgets nothing and changes nothing that is declared. *)
Grows ==
  /\ used \subseteq used' /\ binding \subseteq binding'
  /\ \A x \in DOMAIN exchange : x \in DOMAIN exchange' /\ exchange'[x] = exchange[x]
  /\ \A q \in DOMAIN queue : q \in DOMAIN queue' /\ queue'[q] = queue[q]

(* It grows by the answer to a request. *)
LEMMA AnswerGrows ==
  ASSUME NEW p, NEW r, Accepts(r), Answer(p, r), r.do \in {"exchange", "queue", "bind"},
         used' = used
  PROVE  Grows
<1>1. CASE r.do = "exchange"
  <2>1. /\ r.name \in DOMAIN exchange => exchange[r.name] = r.type
        /\ exchange' = [x \in DOMAIN exchange \cup {r.name} |->
                          IF x = r.name THEN r.type ELSE exchange[x]]
        /\ queue' = queue /\ binding' = binding
    BY <1>1 DEF Accepts, Answer
  <2> QED
    BY <2>1 DEF Grows
<1>2. CASE r.do = "queue"
  <2>1. /\ r.name \in DOMAIN queue => queue[r.name] = r.args
        /\ exchange' = exchange /\ binding' = binding
    BY <1>2 DEF Accepts, Answer
  <2>2. PICK q \in IF r.name # "" THEN {r.name} ELSE Generated \ DOMAIN queue :
          queue' = [n \in DOMAIN queue \cup {q} |-> IF n = q THEN r.args ELSE queue[n]]
    BY <1>2 DEF Answer
  <2> QED
    BY <2>1, <2>2 DEF Grows
<1>3. CASE r.do = "bind"
  BY <1>3 DEF Answer, Grows
<1> QED
  BY <1>1, <1>2, <1>3

-----------------------------------------------------------------------------
(* Every queue and exchange that a binding names exists, also when the     *)
(* delayed queue has no name of its own.                                   *)

(* No queue is declared after s[j] and before s[i]. *)
NoneBetween(s, j, i) == \A l \in (j + 1)..(i - 1) : s[l].do # "queue"

(* A request for the queue that RabbitMQ generates a name for. *)
Nameless(r) == r.name = ""

(* s[j] declares the queue that s[i] binds, and no other queue is declared *)
(* in between if that one has no name.                                     *)
Declares(s, j, i) ==
  /\ s[j].do = "queue" /\ s[j].name = s[i].name
  /\ Nameless(s[i]) => NoneBetween(s, j, i)

(* A request before s[i] does. *)
DeclaredBefore(s, i) == \E j \in 1..(i - 1) : Declares(s, j, i)

(* A declaration and the binding it is for, moved elsewhere together. *)
LEMMA Moved ==
  ASSUME NEW s, NEW i, NEW j, Declares(s, j, i),
         NEW u, NEW k, NEW l, u[l] = s[j], u[k] = s[i],
         NoneBetween(s, j, i) => NoneBetween(u, l, k)
  PROVE  Declares(u, l, k)
<1>1. u[l].do = "queue" /\ u[l].name = u[k].name
  BY DEF Declares
<1>2. Nameless(u[k]) => Nameless(s[i])
  BY ONLY u[k] = s[i] DEF Nameless
<1>3. Nameless(s[i]) => NoneBetween(s, j, i)
  BY DEF Declares
<1>4. Nameless(u[k]) => NoneBetween(u, l, k)
  BY <1>2, <1>3
<1> QED
  BY ONLY <1>1, <1>4 DEF Declares

(* The queues of a sequence of requests are declared before they are bound. *)
Ordered(s) == \A i \in 1..Len(s) : s[i].do = "bind" => DeclaredBefore(s, i)

(* One such sequence after another is one. *)
LEMMA OrderedConcat ==
  ASSUME NEW S, NEW s \in Seq(S), NEW t \in Seq(S), Ordered(s), Ordered(t)
  PROVE  Ordered(s \o t)
<1> DEFINE u == s \o t  m == Len(s)  n == Len(t)
<1>1. /\ \A i \in 1..m : u[i] = s[i]
      /\ \A i \in 1..n : u[m + i] = t[i]
      /\ Len(u) = m + n /\ m \in Nat /\ n \in Nat
  OBVIOUS
<1>2. /\ \A i \in 1..m : s[i].do = "bind" => DeclaredBefore(s, i)
      /\ \A i \in 1..n : t[i].do = "bind" => DeclaredBefore(t, i)
  BY DEF Ordered
<1> HIDE DEF u, m, n
<1>3. ASSUME NEW i \in 1..m, u[i].do = "bind"
      PROVE  DeclaredBefore(u, i)
  <2>1. u[i] = s[i]
    BY ONLY <1>1, i \in 1..m
  <2>2. PICK j \in 1..(i - 1) : Declares(s, j, i)
    BY <1>2, <1>3, <2>1 DEF DeclaredBefore
  <2>3. j \in 1..m /\ \A l \in (j + 1)..(i - 1) : l \in 1..m
    BY ONLY <1>1, i \in 1..m, j \in 1..(i - 1)
  <2>4. NoneBetween(s, j, i) => NoneBetween(u, j, i)
    BY ONLY <1>1, <2>3 DEF NoneBetween
  <2>5. u[j] = s[j]
    BY ONLY <1>1, <2>3
  <2>6. Declares(u, j, i)
    BY <2>1, <2>2, <2>4, <2>5, Moved
  <2> QED
    BY ONLY <2>6, j \in 1..(i - 1) DEF DeclaredBefore
<1>4. ASSUME NEW k \in 1..n, u[m + k].do = "bind"
      PROVE  DeclaredBefore(u, m + k)
  <2>1. u[m + k] = t[k]
    BY ONLY <1>1, k \in 1..n
  <2>2. PICK j \in 1..(k - 1) : Declares(t, j, k)
    BY <1>2, <1>4, <2>1 DEF DeclaredBefore
  <2> DEFINE i == m + k  l == m + j
  <2>3. /\ j \in 1..n /\ l \in 1..(i - 1)
        /\ \A v \in (l + 1)..(i - 1) :
             /\ v - m \in (j + 1)..(k - 1) /\ v - m \in 1..n /\ v = m + (v - m)
    BY ONLY <1>1, k \in 1..n, j \in 1..(k - 1)
  <2>4. u[l] = t[j]
    BY ONLY <1>1, <2>3
  <2> HIDE DEF l, i
  <2>5. NoneBetween(t, j, k) => NoneBetween(u, l, i)
    <3> SUFFICES ASSUME NoneBetween(t, j, k), NEW v \in (l + 1)..(i - 1)
                 PROVE  u[v].do # "queue"
      BY DEF NoneBetween
    <3> DEFINE w == v - m
    <3>1. w \in (j + 1)..(k - 1) /\ w \in 1..n /\ v = m + w
      BY ONLY <2>3, v \in (l + 1)..(i - 1)
    <3> HIDE DEF w
    <3>2. t[w].do # "queue" /\ u[v] = t[w]
      BY ONLY <1>1, <3>1, NoneBetween(t, j, k) DEF NoneBetween
    <3> QED
      BY ONLY <3>2
  <2>6. u[i] = t[k]
    BY ONLY <2>1 DEF i
  <2>7. Declares(u, l, i)
    BY <2>2, <2>4, <2>5, <2>6, Moved
  <2>8. DeclaredBefore(u, i)
    BY ONLY <2>3, <2>7 DEF DeclaredBefore
  <2> QED
    BY ONLY <2>8 DEF i
<1>5. ASSUME NEW i \in 1..Len(u), u[i].do = "bind"
      PROVE  DeclaredBefore(u, i)
  <2>1. CASE i <= m
    <3>1. i \in 1..m
      BY ONLY <1>1, <2>1, i \in 1..Len(u)
    <3> QED
      BY ONLY <1>3, <1>5, <3>1
  <2>2. CASE i > m
    <3> DEFINE k == i - m
    <3>1. k \in 1..n /\ i = m + k
      BY ONLY <1>1, <2>2, i \in 1..Len(u)
    <3> HIDE DEF k
    <3> QED
      BY ONLY <1>4, <1>5, <3>1
  <2> QED
    BY ONLY <1>1, <2>1, <2>2, i \in 1..Len(u)
<1>6. Ordered(u)
  BY <1>5 DEF Ordered
<1> QED
  BY ONLY <1>6 DEF u

(* setupExchangeQueueBinding sends such a sequence. *)
LEMMA RequestsOrdered ==
  ASSUME NEW c
  PROVE  c.TaskQueueName # "" => Ordered(Requests(c))
<1> DEFINE S == RequestsOf(c)
           t == <<DeclareExchange(c),
                  DeclareQueue(c.TaskQueueName, Plain(c)),
                  DeclareQueue(c.DelayedQueue, Delaying(c)),
                  QueueExchangeBind(c.TaskQueueName, c.BindingKey, c),
                  QueueExchangeBind(c.DelayedQueue, c.DelayedQueue, c)>>
           f == Park(c.FailedQueue, Plain(c), c)
           g == Park(c.TimeoutQueue, Plain(c), c)
<1>1. t \in Seq(S) /\ f \in Seq(S) /\ g \in Seq(S) /\ Requests(c) = (t \o f) \o g
  BY RequestsParts DEF Requests
<1>2. ASSUME c.TaskQueueName # ""
      PROVE  Ordered(t)
  <2>1. /\ Len(t) = 5 /\ t[1].do = "exchange"
        /\ t[2].do = "queue" /\ t[2].name = c.TaskQueueName
        /\ t[3].do = "queue" /\ t[3].name = c.DelayedQueue
        /\ t[4].name = c.TaskQueueName /\ t[5].name = c.DelayedQueue
        /\ t[4].do = "bind" /\ t[4].do # "queue"
    BY DEF t, DeclareExchange, DeclareQueue, QueueExchangeBind
  <2> HIDE DEF t
  <2>2. \A i \in 1..5 : i = 1 \/ i = 2 \/ i = 3 \/ i = 4 \/ i = 5
    OBVIOUS
  <2>3. 2 \in 1..(4 - 1) /\ 3 \in 1..(5 - 1) /\ \A l \in (3 + 1)..(5 - 1) : l = 4
    OBVIOUS
  <2>4. "exchange" # "bind" /\ "queue" # "bind"
    OBVIOUS
  <2>5. DeclaredBefore(t, 4) /\ DeclaredBefore(t, 5)
    <3>1. ~Nameless(t[4])
      BY ONLY <1>2, <2>1 DEF Nameless
    <3> QED
      BY ONLY <2>1, <2>3, <3>1 DEF DeclaredBefore, Declares, NoneBetween
  <2> QED
    BY ONLY <2>1, <2>2, <2>4, <2>5 DEF Ordered
<1>3. ASSUME NEW q, NEW a
      PROVE  Ordered(Park(q, a, c))
  <2>1. CASE q = ""
    <3>1. Park(q, a, c) = <<>>
      BY <2>1 DEF Park
    <3>2. Len(<<>>) = 0 /\ 1..0 = {}
      OBVIOUS
    <3> QED
      BY ONLY <3>1, <3>2 DEF Ordered
  <2>2. CASE q # ""
    <3> DEFINE u == <<DeclareQueue(q, a), QueueExchangeBind(q, q, c)>>
    <3>1. /\ Len(u) = 2 /\ u[1].do = "queue" /\ u[1].name = q /\ u[2].name = q
      BY DEF DeclareQueue, QueueExchangeBind
    <3>2. Park(q, a, c) = u
      BY <2>2 DEF Park
    <3> HIDE DEF u
    <3>3. 1 \in 1..(2 - 1) /\ \A i \in 1..2 : i = 1 \/ i = 2
      OBVIOUS
    <3>4. DeclaredBefore(u, 2)
      <4>1. ~Nameless(u[2])
        BY ONLY <2>2, <3>1 DEF Nameless
      <4> QED
        BY ONLY <3>1, <3>3, <4>1 DEF DeclaredBefore, Declares
    <3> QED
      BY ONLY <3>1, <3>2, <3>3, <3>4, "queue" # "bind" DEF Ordered
  <2> QED
    BY <2>1, <2>2
<1>4. Ordered(f) /\ Ordered(g)
  BY <1>3
<1> HIDE DEF S, t, f, g
<1>5. t \o f \in Seq(S) /\ (Ordered(t) => Ordered(t \o f))
  BY ONLY <1>1, <1>4, OrderedConcat
<1>6. Ordered(t) => Ordered((t \o f) \o g)
  BY ONLY <1>1, <1>4, <1>5, OrderedConcat
<1> QED
  BY ONLY <1>1, <1>2, <1>6

(* The queue that s[i] binds exists, or has no name, and the program's     *)
(* last declaration has had a name generated.                              *)
Bindable(p, s, i) ==
  IF Nameless(s[i]) THEN declared[p] \in Generated /\ NoneBetween(s, 0, i)
  ELSE s[i].name \in DOMAIN queue

(* A program declares the exchange before all else, and every queue before *)
(* it binds it.                                                            *)
InOrder(p) ==
  pc[p] = "setup" =>
    /\ todo[p] = Requests(config[p]) \/ config[p].Exchange \in DOMAIN exchange
    /\ \A i \in 1..Len(todo[p]) :
         todo[p][i].do = "bind" => Bindable(p, todo[p], i) \/ DeclaredBefore(todo[p], i)

(* Nothing that RabbitMQ has refers to what does not exist. *)
NothingDangles ==
  /\ \A q \in DOMAIN queue : DOMAIN queue[q] = {"args", "dlx", "key"}
  /\ \A b \in binding : b[1] \in DOMAIN exchange /\ b[2] \in DOMAIN queue
  /\ \A p \in Program : declared[p] \in DOMAIN queue \cup {""}

ReferenceInv ==
  /\ NothingDangles /\ declared = [p \in Program |-> declared[p]]
  /\ \A p \in Program : InOrder(p)

(* At first there is nothing to refer to. *)
LEMMA InitReference == Init => ReferenceInv
<1> SUFFICES ASSUME Init
             PROVE  ReferenceInv
  OBVIOUS
<1>1. NothingDangles /\ \A p \in Program : InOrder(p)
  BY DEF Init, NothingDangles, InOrder
<1>2. declared = [p \in Program |-> declared[p]]
  BY Zenon DEF Init
<1> QED
  BY <1>1, <1>2 DEF ReferenceInv

(* A program that sends no request has nothing left to send, or all of it. *)
LEMMA QuietReference ==
  ASSUME ProgramInv, ReferenceInv, NEW p \in Program,
         \/ \E c \in Configs : SetApplicationConfig(p, c) \/ ReadFromEnv(p, c)
         \/ NewWorkerPool(p) \/ Dial(p) \/ DialFails(p) \/ RequestRefused(p) \/ SetupFails(p)
         \/ CreateStore(p) \/ Crash(p)
  PROVE  ReferenceInv'
<1>0. /\ pc \in [Program -> PCs] /\ todo = [q \in Program |-> todo[q]]
      /\ config \in [Program -> Configs \cup {None}]
      /\ NothingDangles /\ \A q \in Program : InOrder(q)
      /\ declared = [q \in Program |-> declared[q]]
  BY DEF ProgramInv, ReferenceInv
<1>1. /\ Quiet(p)
      /\ pc'[p] = "setup" => /\ config'[p] = config[p] /\ config[p].TaskQueueName # ""
                             /\ todo'[p] = Requests(config[p])
      /\ declared' = declared \/ (declared' = [declared EXCEPT ![p] = ""] /\ pc'[p] # "setup")
  <2>1. CASE \/ \E c \in Configs : SetApplicationConfig(p, c) \/ ReadFromEnv(p, c)
             \/ NewWorkerPool(p) \/ DialFails(p) \/ SetupFails(p) \/ CreateStore(p) \/ Crash(p)
    <3>1. Quiet(p) /\ pc'[p] # "setup"
      BY <2>1, QuietSteps, ProgramInv
    <3>2. declared' = declared \/ declared' = [declared EXCEPT ![p] = ""]
      BY <2>1 DEF SetApplicationConfig, ReadFromEnv, NewWorkerPool, DialFails, SetupFails,
                  CreateStore, Crash
    <3> QED
      BY ONLY <3>1, <3>2
  <2>2. CASE Dial(p)
    <3>1. /\ Quiet(p) /\ declared' = declared /\ config' = config
          /\ pc'[p] = "dialling" \/ todo'[p] = Requests(config[p])
      BY <1>0, <2>2 DEF Dial, Quiet, Go
    <3>2. config[p].TaskQueueName # ""
      BY <2>2 DEF Dial, ProgramInv, Configured, Checked, Named
    <3> QED
      BY ONLY <3>1, <3>2
  <2>3. CASE RequestRefused(p)
    <3>1. pc' = [pc EXCEPT ![p] = "refused"] /\ UNCHANGED <<server, used, config, todo, declared>>
      BY <2>3 DEF RequestRefused, Go
    <3>2. pc'[p] = "refused" /\ \A q \in Program \ {p} : pc'[q] = pc[q]
      BY ONLY <1>0, <3>1
    <3> QED
      BY ONLY <3>1, <3>2 DEF Quiet
  <2> QED
    BY <2>1, <2>2, <2>3
<1>2. UNCHANGED <<exchange, queue, binding>>
  BY <1>1 DEF Quiet, server
<1>3. /\ declared' = [q \in Program |-> declared'[q]]
      /\ \A q \in Program : declared'[q] = declared[q] \/ (q = p /\ declared'[q] = "")
      /\ declared'[p] = declared[p] \/ pc'[p] # "setup"
  BY ONLY <1>0, <1>1
<1>4. NothingDangles'
  BY ONLY <1>0, <1>2, <1>3 DEF NothingDangles
<1>5. InOrder(p)'
  <2>1. pc'[p] = "setup" => Ordered(todo'[p])
    BY <1>1, RequestsOrdered
  <2> QED
    BY <1>1, <2>1 DEF InOrder, Ordered
<1>6. ASSUME NEW q \in Program, q # p
      PROVE  InOrder(q)'
  <2>1. /\ pc'[q] = pc[q] /\ config'[q] = config[q] /\ todo'[q] = todo[q]
        /\ declared'[q] = declared[q] /\ InOrder(q)
    BY <1>0, <1>1, <1>3, <1>6 DEF Quiet
  <2> QED
    BY ONLY <1>2, <2>1 DEF InOrder, Bindable
<1> QED
  BY ONLY <1>3, <1>4, <1>5, <1>6 DEF ReferenceInv

(* A binding that RabbitMQ makes is for an exchange and a queue that exist. *)
LEMMA RequestReference ==
  ASSUME ProgramInv, ServerInv, ReferenceInv, NEW p \in Program, Request(p)
  PROVE  ReferenceInv'
<1> SUFFICES ASSUME NEW c, c = config[p], NEW r, r = Head(todo[p]), NEW s, s = todo[p]
             PROVE  ReferenceInv'
  OBVIOUS
<1>1. /\ UNCHANGED <<used, pc, config>> /\ Answer(p, r) /\ Accepts(r) /\ pc[p] = "setup"
      /\ s \in Seq(RequestsOf(c)) /\ s # <<>> /\ r = Head(s) /\ s = todo[p] /\ c = config[p]
      /\ todo' = [todo EXCEPT ![p] = Tail(@)] /\ todo = [q \in Program |-> todo[q]]
      /\ NothingDangles /\ declared = [q \in Program |-> declared[q]]
      /\ \A q \in Program : InOrder(q)
  BY DEF Request, ServerInv, ProgramInv, ReferenceInv
<1>2. r \in RequestsOf(c) /\ r = s[1] /\ Len(s) \in Nat \ {0} /\ Len(Tail(s)) = Len(s) - 1
  BY ONLY <1>1, NextRequest
<1>3. /\ r.do \in {"exchange", "queue", "bind"}
      /\ r.do = "exchange" => r.name = c.Exchange
      /\ r.do = "queue" => <<r.name, r.args>> \in Roles(c)
      /\ r.do = "bind" => r.to = c.Exchange
  BY <1>2, Asked
<1>4. /\ todo'[p] = Tail(s) /\ \A q \in Program \ {p} : todo'[q] = todo[q]
      /\ \A i \in 1..Len(Tail(s)) : Tail(s)[i] = s[i + 1]
  BY ONLY <1>1, <1>2
<1>5. Grows
  BY ONLY <1>1, <1>3, AnswerGrows
<1>6. /\ s = Requests(c) \/ c.Exchange \in DOMAIN exchange
      /\ \A i \in 1..Len(s) :
           s[i].do = "bind" => Bindable(p, s, i) \/ DeclaredBefore(s, i)
  BY ONLY <1>1 DEF InOrder
<1>7. c.Exchange \in DOMAIN exchange'
  <2>1. CASE c.Exchange \in DOMAIN exchange
    BY <1>5, <2>1 DEF Grows
  <2>2. CASE s = Requests(c)
    <3>1. r.do = "exchange"
      BY <1>1, <2>2, RequestsWanted DEF DeclareExchange
    <3> QED
      BY <1>1, <1>3, <3>1 DEF Answer
  <2> QED
    BY <1>6, <2>1, <2>2
<1>8. \A q \in Program \ {p} : declared'[q] = declared[q]
  BY <1>1, <1>3 DEF Answer
<1>9. declared' = [q \in Program |-> declared'[q]]
  <2>1. declared' = declared \/ \E q : declared' = [declared EXCEPT ![p] = q]
    BY <1>1, <1>3 DEF Answer
  <2> QED
    BY ONLY <1>1, <2>1
<1>10. /\ declared'[p] \in DOMAIN queue' \cup {""}
       /\ r.do # "queue" => declared'[p] = declared[p]
       /\ r.do = "queue" => IF Nameless(r) THEN declared'[p] \in Generated
                            ELSE r.name \in DOMAIN queue'
       /\ \A q \in DOMAIN queue' : DOMAIN queue'[q] = {"args", "dlx", "key"}
  <2>1. CASE r.do = "queue"
    <3>1. PICK q \in IF r.name # "" THEN {r.name} ELSE Generated \ DOMAIN queue :
            /\ queue' = [n \in DOMAIN queue \cup {q} |-> IF n = q THEN r.args ELSE queue[n]]
            /\ declared' = [declared EXCEPT ![p] = q]
      BY <1>1, <2>1 DEF Answer
    <3>2. q # "" /\ declared'[p] = q /\ q \in DOMAIN queue' /\ (r.name # "" => q = r.name)
      BY <1>1, <3>1, GeneratedAssumption
    <3>3. DOMAIN r.args = {"args", "dlx", "key"}
      BY <1>3, <2>1 DEF Roles, Plain, Delaying
    <3>4. \A n \in DOMAIN queue' : DOMAIN queue'[n] = {"args", "dlx", "key"}
      BY <1>1, <3>1, <3>3 DEF NothingDangles
    <3> QED
      BY ONLY <2>1, <3>1, <3>2, <3>4 DEF Nameless
  <2>2. CASE r.do # "queue"
    <3>1. UNCHANGED <<queue, declared>>
      BY <1>1, <1>3, <2>2 DEF Answer
    <3> QED
      BY <1>1, <2>2, <3>1 DEF NothingDangles
  <2> QED
    BY <2>1, <2>2
<1>11. DOMAIN queue \subseteq DOMAIN queue'
  BY <1>5 DEF Grows
<1>12. \A b \in binding' : b[1] \in DOMAIN exchange' /\ b[2] \in DOMAIN queue'
  <2>1. \A b \in binding : b[1] \in DOMAIN exchange' /\ b[2] \in DOMAIN queue'
    BY <1>1, <1>5 DEF NothingDangles, Grows
  <2>2. CASE r.do = "bind"
    <3>1. ~DeclaredBefore(s, 1) /\ 1 \in 1..Len(s)
      BY <1>2 DEF DeclaredBefore
    <3>2. Bindable(p, s, 1)
      BY <1>2, <1>6, <2>2, <3>1
    <3> DEFINE q == IF r.name # "" THEN r.name ELSE declared[p]
    <3>3. q \in DOMAIN queue
      BY <1>1, <1>2, <3>2, GeneratedAssumption DEF Bindable, Nameless, NothingDangles
    <3>4. PICK k : binding' = binding \cup {<<c.Exchange, q, k>>}
      BY <1>1, <1>3, <2>2 DEF Answer
    <3> HIDE DEF q
    <3>5. <<c.Exchange, q, k>>[1] = c.Exchange /\ <<c.Exchange, q, k>>[2] = q
      OBVIOUS
    <3>6. q \in DOMAIN queue'
      BY <1>5, <3>3 DEF Grows
    <3> QED
      BY ONLY <1>7, <2>1, <3>4, <3>5, <3>6
  <2>3. CASE r.do # "bind"
    <3>1. binding' = binding
      BY <1>1, <1>3, <2>3 DEF Answer
    <3> QED
      BY <2>1, <3>1
  <2> QED
    BY <2>2, <2>3
<1>13. NothingDangles'
  <2>1. ASSUME NEW q \in Program, q # p
        PROVE  declared'[q] \in DOMAIN queue' \cup {""}
    BY <1>1, <1>5, <1>8, <2>1 DEF NothingDangles, Grows
  <2> QED
    BY ONLY <1>10, <1>12, <2>1 DEF NothingDangles
<1>14. ASSUME NEW i \in 1..Len(Tail(s)), Tail(s)[i].do = "bind"
       PROVE  Bindable(p, Tail(s), i)' \/ DeclaredBefore(Tail(s), i)
  <2>1. /\ i + 1 \in 1..Len(s) /\ Tail(s)[i] = s[i + 1] /\ (i + 1) - 1 = i
        /\ \A l \in 1..(i - 1) : l \in 1..Len(Tail(s)) /\ Tail(s)[l] = s[l + 1]
    BY ONLY <1>2, <1>4, i \in 1..Len(Tail(s))
  <2>2. \A j \in 0..i : NoneBetween(s, j + 1, i + 1) => NoneBetween(Tail(s), j, i)
    BY ONLY <2>1, i \in 1..Len(Tail(s)) DEF NoneBetween
  <2>3. CASE Bindable(p, s, i + 1)
    <3>1. CASE Nameless(s[i + 1])
      <4>1. declared[p] \in Generated /\ NoneBetween(s, 0, i + 1)
        BY ONLY <2>3, <3>1 DEF Bindable
      <4>2. NoneBetween(s, 1, i + 1) /\ r.do # "queue"
        BY ONLY <1>2, <2>1, <4>1, i \in 1..Len(Tail(s)) DEF NoneBetween
      <4>3. NoneBetween(Tail(s), 0, i)
        BY ONLY <2>2, <4>2, i \in 1..Len(Tail(s))
      <4> QED
        BY ONLY <1>10, <2>1, <3>1, <4>1, <4>2, <4>3 DEF Bindable
    <3>2. CASE ~Nameless(s[i + 1])
      BY ONLY <1>11, <2>1, <2>3, <3>2 DEF Bindable
    <3> QED
      BY <3>1, <3>2
  <2>4. ASSUME NEW j \in 1..i, Declares(s, j, i + 1)
        PROVE  Bindable(p, Tail(s), i)' \/ DeclaredBefore(Tail(s), i)
    <3>3. s[j].do = "queue" /\ s[j].name = s[i + 1].name
      BY <2>4 DEF Declares
    <3>0. Nameless(s[i + 1]) => NoneBetween(s, j, i + 1)
      BY <2>4 DEF Declares
    <3>1. CASE j = 1
      <4>1. Nameless(s[i + 1]) => NoneBetween(Tail(s), 0, i)
        BY ONLY <2>2, <3>0, <3>1, i \in 1..Len(Tail(s))
      <4>2. r.do = "queue" /\ r.name = Tail(s)[i].name
        BY ONLY <1>2, <2>1, <3>1, <3>3
      <4>3. Nameless(r) <=> Nameless(Tail(s)[i])
        BY ONLY <4>2 DEF Nameless
      <4>4. Nameless(Tail(s)[i]) => NoneBetween(Tail(s), 0, i)
        BY ONLY <2>1, <4>1
      <4> QED
        BY ONLY <1>10, <4>2, <4>3, <4>4 DEF Bindable
    <3>2. CASE j # 1
      <4>1. j - 1 \in 1..(i - 1) /\ (j - 1) + 1 = j /\ j - 1 \in 0..i
        BY ONLY <3>2, i \in 1..Len(Tail(s)), j \in 1..i, <1>2
      <4>2. Tail(s)[j - 1] = s[j]
        BY ONLY <2>1, <4>1
      <4>3. NoneBetween(s, j, i + 1) => NoneBetween(Tail(s), j - 1, i)
        BY ONLY <2>2, <4>1
      <4>4. Declares(Tail(s), j - 1, i)
        BY ONLY <2>1, <2>4, <4>2, <4>3, Moved
      <4> QED
        BY ONLY <4>1, <4>4 DEF DeclaredBefore
    <3> QED
      BY <3>1, <3>2
  <2>5. Bindable(p, s, i + 1) \/ DeclaredBefore(s, i + 1)
    BY <1>6, <1>14, <2>1
  <2> QED
    BY <2>1, <2>3, <2>4, <2>5 DEF DeclaredBefore
<1>15. InOrder(p)'
  BY <1>1, <1>4, <1>7, <1>14 DEF InOrder
<1>16. ASSUME NEW q \in Program, q # p
       PROVE  InOrder(q)'
  <2>1. /\ pc'[q] = pc[q] /\ config'[q] = config[q] /\ todo'[q] = todo[q]
        /\ declared'[q] = declared[q] /\ InOrder(q)
    BY <1>1, <1>4, <1>8, <1>16
  <2>2. \A i : Bindable(q, todo[q], i) => Bindable(q, todo[q], i)'
    BY <1>11, <2>1 DEF Bindable, NoneBetween
  <2> QED
    BY <1>5, <2>1, <2>2 DEF InOrder, Grows
<1> QED
  BY ONLY <1>9, <1>13, <1>15, <1>16 DEF ReferenceInv

(* It holds in every reachable state. *)
LEMMA Referenced == Spec => []ReferenceInv
<1>1. Inv /\ ReferenceInv /\ [Next]_vars => ReferenceInv'
  <2>1. ASSUME ReferenceInv, UNCHANGED vars PROVE ReferenceInv'
    BY <2>1 DEF ReferenceInv, NothingDangles, InOrder, Bindable, vars, server, program
  <2>2. ASSUME Inv, ReferenceInv, Next PROVE ReferenceInv'
    BY <2>2, QuietReference, RequestReference DEF Next, Inv
  <2> QED
    BY <2>1, <2>2
<1> QED
  BY <1>1, InitReference, Invariant, PTL DEF Spec

(* Whatever programs set up, fail and crash, nothing that RabbitMQ has     *)
(* refers to a queue or an exchange that does not exist, a program without *)
(* a configuration gets no further than NewWorkerPool, and none has more   *)
(* connections than its configuration says.                                *)
THEOREM CreationKeepsItsType == Spec => []TypeOK
<1>1. Inv /\ ReferenceInv => TypeOK
  <2> SUFFICES ASSUME Inv, ReferenceInv
               PROVE  TypeOK
    OBVIOUS
  <2>1. pc \in [Program -> PCs] /\ NothingDangles
    BY DEF Inv, ProgramInv, ReferenceInv
  <2>2. ASSUME NEW p \in Program
        PROVE  /\ config[p] = None => pc[p] \in {"off", "panicked"}
               /\ conns[p] \in Nat
               /\ conns[p] # 0 => config[p] # None /\ conns[p] <= config[p].ConnectionPoolSize
    <3>1. /\ Configured(p) /\ Dialled(p) /\ conns[p] \in Int
          /\ config[p] # None => config[p].ConnectionPoolSize \in Int
      BY ConfigsAssumption DEF Inv, ProgramInv
    <3> QED
      BY ONLY <3>1 DEF Configured, Dialled, Checked
  <2> QED
    BY ONLY <2>1, <2>2 DEF TypeOK, NothingDangles, PCs
<1> QED
  BY <1>1, Referenced, Invariant, PTL

-----------------------------------------------------------------------------
(* A created pool has the topology of its configuration, when programs     *)
(* have keys of their own, and name the delayed queue of a fanout or a     *)
(* headers exchange: a queue with a generated name would get every message *)
(* of it.                                                                  *)

NamedInFanout ==
  \A c \in Configs : IgnoresKey(c.ExchangeType) => c.DelayedQueue # ""

-----------------------------------------------------------------------------
(* What RabbitMQ has done of it.                                           *)

ExchangeIs(c) == c.Exchange \in DOMAIN exchange /\ exchange[c.Exchange] = c.ExchangeType

Done(c, r) ==
  /\ r.do = "exchange" => ExchangeIs(c)
  /\ r.do = "queue" /\ r.name # "" => r.name \in DOMAIN queue /\ queue[r.name] = r.args
  /\ r.do = "bind" /\ r.name # "" => <<c.Exchange, r.name, r.key>> \in binding

(* A program with a setup: every request has been done or is left to do,   *)
(* the one for the exchange first.                                         *)
Prepared(p) ==
  pc[p] \in {"setup", "created"} =>
    /\ config[p] \in used
    /\ todo[p] = Requests(config[p]) \/ ExchangeIs(config[p])
    /\ \A r : Sent(Requests(config[p]), r) => Sent(todo[p], r) \/ Done(config[p], r)
    /\ pc[p] = "created" => todo[p] = <<>>

(* A binding that a setup with the configuration d makes: a queue without  *)
(* a name is bound by the name that was generated for it.                  *)
MadeFor(b, d) ==
  /\ b[1] = d.Exchange /\ b[2] # ""
  /\ \/ <<b[2], b[3]>> \in setupExchangeQueueBinding(d)
     \/ d.DelayedQueue = "" /\ b[3] \in Generated

(* Every binding is made for a configuration whose exchange there is. *)
BindingsAreUsed == \A b \in binding : \E d \in used : MadeFor(b, d) /\ ExchangeIs(d)

SetupInv == BindingsAreUsed /\ \A p \in Program : Prepared(p)

(* The answer to a request does what the request asks for. *)
LEMMA AnswerDoes ==
  ASSUME NEW p, NEW c, NEW r, Answer(p, r), r.do \in {"exchange", "queue", "bind"},
         r.do = "exchange" => r.name = c.Exchange /\ r.type = c.ExchangeType,
         r.do = "bind" => r.to = c.Exchange,
         r.do = "bind" /\ r.name = "" => r.key = ""
  PROVE  /\ Done(c, r)'
         /\ \/ binding' = binding
            \/ /\ r.do = "bind" /\ r.name # ""
               /\ binding' = binding \cup {<<c.Exchange, r.name, r.key>>}
            \/ /\ r.do = "bind" /\ r.name = ""
               /\ binding' = binding \cup {<<c.Exchange, declared[p], declared[p]>>}
<1>1. CASE r.do = "exchange"
  BY <1>1 DEF Answer, Done, ExchangeIs
<1>2. CASE r.do = "queue"
  <2>1. PICK q \in IF r.name # "" THEN {r.name} ELSE Generated \ DOMAIN queue :
          queue' = [n \in DOMAIN queue \cup {q} |-> IF n = q THEN r.args ELSE queue[n]]
    BY <1>2 DEF Answer
  <2>2. binding' = binding
    BY <1>2 DEF Answer
  <2> QED
    BY <1>2, <2>1, <2>2 DEF Done
<1>3. CASE r.do = "bind"
  BY <1>3 DEF Answer, Done
<1> QED
  BY <1>1, <1>2, <1>3

(* What is done stays done. *)
LEMMA DoneStays ==
  ASSUME Grows, NEW c
  PROVE  /\ ExchangeIs(c) => ExchangeIs(c)'
         /\ \A r : Done(c, r) => Done(c, r)'
BY DEF Grows, ExchangeIs, Done

(* A program that another one's step leaves alone stays prepared. *)
LEMMA OthersPrepared ==
  ASSUME Grows, NEW p, Prepared(p), pc'[p] = pc[p], config'[p] = config[p], todo'[p] = todo[p]
  PROVE  Prepared(p)'
<1> DEFINE c == config[p]
<1>1. /\ ExchangeIs(c) => ExchangeIs(c)'
      /\ \A r : Done(c, r) => Done(c, r)'
  BY DoneStays
<1> QED
  BY <1>1 DEF Prepared, Grows

-----------------------------------------------------------------------------
(* The steps.                                                              *)

(* What the steps do that send no request: RabbitMQ stays as it is, and p  *)
(* begins its setup, or has ended it, or has none.                         *)
LEMMA StepsWithoutRequest ==
  ASSUME ProgramInv, NEW p \in Program, Prepared(p),
         \/ \E c \in Configs : SetApplicationConfig(p, c) \/ ReadFromEnv(p, c)
         \/ NewWorkerPool(p) \/ Dial(p) \/ DialFails(p) \/ RequestRefused(p) \/ SetupFails(p)
         \/ CreateStore(p) \/ Crash(p)
  PROVE  Quiet(p) /\ Prepared(p)'
<1>1. /\ pc \in [Program -> PCs] /\ todo = [q \in Program |-> todo[q]]
      /\ config \in [Program -> Configs \cup {None}]
  BY DEF ProgramInv
<1>2. CASE \/ \E c \in Configs : SetApplicationConfig(p, c) \/ ReadFromEnv(p, c)
           \/ NewWorkerPool(p) \/ DialFails(p) \/ SetupFails(p) \/ Crash(p)
  <2>1. Quiet(p)
    BY <1>2, QuietSteps
  <2>2. pc'[p] \notin {"setup", "created"}
    <3>1. CASE \E c \in Configs : SetApplicationConfig(p, c) \/ ReadFromEnv(p, c)
      BY <1>1, <3>1 DEF SetApplicationConfig, ReadFromEnv, Go
    <3>2. CASE NewWorkerPool(p) \/ DialFails(p) \/ SetupFails(p)
      BY <1>1, <3>2 DEF NewWorkerPool, DialFails, SetupFails, Go
    <3>3. CASE Crash(p)
      BY <1>1, <3>3 DEF Crash, Go
    <3> QED
      BY <1>2, <3>1, <3>2, <3>3
  <2> QED
    BY <2>1, <2>2 DEF Prepared
<1>3. CASE Dial(p)
  <2>1. Quiet(p) /\ config' = config
    BY <1>1, <1>3 DEF Dial, Quiet, Go
  <2>2. \/ pc'[p] = "dialling"
        \/ pc'[p] = "setup" /\ todo'[p] = Requests(config[p]) /\ config[p] \in used'
    BY <1>1, <1>3 DEF Dial, Go
  <2> QED
    BY ONLY <2>1, <2>2 DEF Prepared
<1>4. CASE RequestRefused(p)
  <2>1. pc' = [pc EXCEPT ![p] = "refused"] /\ UNCHANGED <<server, used, config, todo>>
    BY <1>4 DEF RequestRefused, Go
  <2>2. pc'[p] = "refused" /\ \A q \in Program \ {p} : pc'[q] = pc[q]
    BY ONLY <1>1, <2>1
  <2> QED
    BY ONLY <2>1, <2>2 DEF Prepared, Quiet
<1>5. CASE CreateStore(p)
  <2>1. Quiet(p)
    BY <1>5, QuietSteps
  <2>2. /\ pc[p] = "setup" /\ todo[p] = <<>> /\ UNCHANGED <<config, todo, used, server>>
    BY <1>5 DEF CreateStore
  <2>3. /\ ExchangeIs(config[p]) => ExchangeIs(config[p])'
        /\ \A r : Done(config[p], r) => Done(config[p], r)'
    BY ONLY <2>2 DEF ExchangeIs, Done, server
  <2> QED
    BY ONLY <2>1, <2>2, <2>3, Prepared(p) DEF Prepared
<1> QED
  BY <1>2, <1>3, <1>4, <1>5

(* A request that RabbitMQ accepts is done, and what it binds was asked    *)
(* for by the program, whose exchange there is.                            *)
LEMMA RequestPrepares ==
  ASSUME ProgramInv, ServerInv, ReferenceInv, SetupInv, NEW p \in Program, Request(p)
  PROVE  SetupInv'
<1>0. SUFFICES ASSUME NEW c, c = config[p], NEW r, r = Head(todo[p])
               PROVE  SetupInv'
  OBVIOUS
<1>1. /\ c = config[p] /\ r = Head(todo[p])
      /\ UNCHANGED <<used, pc, config>> /\ Answer(p, r) /\ Accepts(r) /\ pc[p] = "setup"
      /\ c \in used /\ todo[p] \in Seq(RequestsOf(c)) /\ todo[p] # <<>>
      /\ todo' = [todo EXCEPT ![p] = Tail(@)] /\ todo = [q \in Program |-> todo[q]]
      /\ Prepared(p)
  BY <1>0 DEF Request, ServerInv, ProgramInv, SetupInv
<1>2. r \in RequestsOf(c) /\ c \in Configs
  BY <1>1, NextRequest DEF ServerInv
<1>3. c.TaskQueueName # ""
  BY <1>1, <1>2 DEF ProgramInv, Configured, Checked, Named
<1>4. todo'[p] = Tail(todo[p]) /\ \A q \in Program \ {p} : todo'[q] = todo[q]
  BY ONLY <1>1
<1>5. /\ todo[p] = Requests(c) \/ ExchangeIs(c)
      /\ \A s : Sent(Requests(c), s) => Sent(todo[p], s) \/ Done(c, s)
  BY ONLY <1>1 DEF Prepared
<1>6. config'[p] = c
  BY <1>1
<1>7. /\ r.do \in {"exchange", "queue", "bind"}
      /\ r.do = "exchange" => r.name = c.Exchange /\ r.type = c.ExchangeType
      /\ r.do = "queue" => <<r.name, r.args>> \in Roles(c)
      /\ r.do = "bind" => /\ r.to = c.Exchange
                          /\ <<r.name, r.key>> \in setupExchangeQueueBinding(c)
  BY <1>2, Asked
<1>8. Grows
  BY ONLY <1>1, <1>7, AnswerGrows
<1>9. r.do = "bind" /\ r.name = "" =>
        r.key = "" /\ c.DelayedQueue = "" /\ declared[p] \in Generated /\ declared[p] # ""
  <2>1. \A k : <<"", k>> \in setupExchangeQueueBinding(c) => k = "" /\ c.DelayedQueue = ""
    BY <1>3 DEF setupExchangeQueueBinding
  <2>2. r.do = "bind" => Bindable(p, todo[p], 1)
    <3>1. 1 \in 1..Len(todo[p]) /\ r = todo[p][1] /\ 1..(1 - 1) = {}
      BY ONLY <1>1
    <3> QED
      BY <1>1, <3>1 DEF ReferenceInv, InOrder, DeclaredBefore
  <2>3. r = todo[p][1]
    BY ONLY <1>1
  <2> QED
    BY ONLY <1>7, <2>1, <2>2, <2>3, GeneratedAssumption DEF Bindable, Nameless
<1>10. /\ Done(c, r)'
       /\ \/ binding' = binding
          \/ /\ r.do = "bind" /\ r.name # ""
             /\ binding' = binding \cup {<<c.Exchange, r.name, r.key>>}
          \/ /\ r.do = "bind" /\ r.name = ""
             /\ binding' = binding \cup {<<c.Exchange, declared[p], declared[p]>>}
  <2>1. /\ Answer(p, r) /\ r.do \in {"exchange", "queue", "bind"}
        /\ r.do = "exchange" => r.name = c.Exchange /\ r.type = c.ExchangeType
        /\ r.do = "bind" => r.to = c.Exchange
        /\ r.do = "bind" /\ r.name = "" => r.key = ""
    BY ONLY <1>1, <1>7, <1>9
  <2> QED
    BY ONLY <2>1, AnswerDoes
<1>11. /\ ExchangeIs(c) => ExchangeIs(c)'
       /\ \A s : Done(c, s) => Done(c, s)'
  BY ONLY <1>8, DoneStays
<1>12. todo[p] = Requests(c) => r = DeclareExchange(c) /\ r.do = "exchange"
  <2>1. Head(Requests(c)) = DeclareExchange(c)
    BY RequestsWanted
  <2>2. DeclareExchange(c).do = "exchange"
    BY DEF DeclareExchange
  <2> QED
    BY ONLY <1>1, <2>1, <2>2
<1>13. ExchangeIs(c)'
  BY ONLY <1>5, <1>10, <1>11, <1>12 DEF Done
<1>14. \A s : Sent(todo[p], s) => s = r \/ Sent(Tail(todo[p]), s)
  BY ONLY <1>1, SentTail
<1>15. Prepared(p)'
  <2>1. ASSUME NEW s, Sent(Requests(c), s)
        PROVE  Sent(todo'[p], s) \/ Done(c, s)'
    BY ONLY <1>4, <1>5, <1>10, <1>11, <1>14, <2>1
  <2> QED
    BY ONLY <1>1, <1>6, <1>13, <2>1 DEF Prepared
<1>16. ASSUME NEW q \in Program, q # p
       PROVE  Prepared(q)'
  <2>1. Prepared(q)
    BY DEF SetupInv
  <2>2. pc'[q] = pc[q] /\ config'[q] = config[q] /\ todo'[q] = todo[q]
    BY ONLY <1>1, <1>4, <1>16
  <2> QED
    BY ONLY <1>8, <2>1, <2>2, OthersPrepared
<1>17. BindingsAreUsed'
  <2>1. ASSUME NEW b \in binding
        PROVE  \E d \in used' : MadeFor(b, d) /\ ExchangeIs(d)'
    <3>1. PICK d \in used : MadeFor(b, d) /\ ExchangeIs(d)
      BY DEF SetupInv, BindingsAreUsed
    <3> QED
      BY ONLY <1>1, <1>8, <3>1, DoneStays
  <2>2. ASSUME NEW q, NEW k, r.do = "bind",
               \/ q = r.name /\ k = r.key /\ q # ""
               \/ q = declared[p] /\ k = q /\ r.name = ""
        PROVE  MadeFor(<<c.Exchange, q, k>>, c)
    <3> DEFINE b == <<c.Exchange, q, k>>
    <3>1. b[1] = c.Exchange /\ b[2] = q /\ b[3] = k
      OBVIOUS
    <3> HIDE DEF b
    <3>2. MadeFor(b, c)
      BY ONLY <1>7, <1>9, <2>2, <3>1 DEF MadeFor
    <3> QED
      BY <3>2 DEF b
  <2>3. ASSUME NEW b \in binding', b \notin binding
        PROVE  MadeFor(b, c)
    BY ONLY <1>10, <2>2, <2>3, b \in binding'
  <2>4. c \in used'
    BY ONLY <1>1
  <2> QED
    BY ONLY <1>13, <2>1, <2>3, <2>4 DEF BindingsAreUsed, ExchangeIs
<1> QED
  BY ONLY <1>15, <1>16, <1>17 DEF SetupInv

(* Every step keeps SetupInv. *)
LEMMA SetupStep ==
  ASSUME Inv, ReferenceInv, SetupInv, Next
  PROVE  SetupInv'
<1>1. ProgramInv /\ ServerInv /\ \A p \in Program : Prepared(p)
  BY DEF Inv, SetupInv
<1>2. PICK p \in Program :
        \/ \E c \in Configs : SetApplicationConfig(p, c) \/ ReadFromEnv(p, c)
        \/ NewWorkerPool(p) \/ Dial(p) \/ DialFails(p)
        \/ Request(p) \/ RequestRefused(p) \/ SetupFails(p)
        \/ CreateStore(p) \/ Crash(p)
  BY DEF Next
<1>3. CASE Request(p)
  BY <1>1, <1>3, RequestPrepares
<1>4. CASE Quiet(p) /\ Prepared(p)'
  <2>1. Grows /\ binding' = binding
    BY <1>4 DEF Quiet, Grows, server
  <2>2. ASSUME NEW q \in Program
        PROVE  Prepared(q)'
    <3>1. CASE q = p
      BY <1>4, <3>1
    <3>2. CASE q # p
      BY <1>1, <1>4, <2>1, <3>2, OthersPrepared DEF Quiet
    <3> QED
      BY <3>1, <3>2
  <2>3. ASSUME NEW b \in binding
        PROVE  \E d \in used' : MadeFor(b, d) /\ ExchangeIs(d)'
    <3>1. PICK d \in used : MadeFor(b, d) /\ ExchangeIs(d)
      BY DEF SetupInv, BindingsAreUsed
    <3>2. d \in used'
      BY <2>1 DEF Grows
    <3> QED
      BY ONLY <2>1, <3>1, <3>2, DoneStays
  <2> QED
    BY ONLY <2>1, <2>2, <2>3 DEF SetupInv, BindingsAreUsed
<1> QED
  BY <1>1, <1>2, <1>3, <1>4, StepsWithoutRequest

(* A pool that has been created has every binding of its configuration, on *)
(* an exchange of its type, except that of a queue without a name.         *)
LEMMA CreatedHasAll ==
  ASSUME Inv, SetupInv, NEW p \in Program, pc[p] = "created",
         NEW c, c = config[p]
  PROVE  /\ c \in Configs /\ ExchangeIs(c) /\ c.TaskQueueName # ""
         /\ c.DelayedQueue # "" => queue[c.DelayedQueue] = Delaying(c)
         /\ \A q, k : <<q, k>> \in setupExchangeQueueBinding(c) /\ q # ""
                        => <<c.Exchange, q, k>> \in binding
<1>1. c \in Configs /\ c.TaskQueueName # ""
  BY DEF Inv, ProgramInv, Configured, Checked, Named
<1>2. todo[p] = <<>> /\ \A r : Sent(Requests(c), r) => Sent(todo[p], r) \/ Done(c, r)
  BY DEF SetupInv, Prepared
<1>3. ASSUME NEW r PROVE ~Sent(<<>>, r)
  BY DEF Sent
<1>4. \A r : Wanted(c, r) => Done(c, r)
  BY ONLY <1>1, <1>2, <1>3, RequestsWanted
<1>5. ExchangeIs(c)
  <2>1. DeclareExchange(c).do = "exchange" /\ Wanted(c, DeclareExchange(c))
    BY DEF DeclareExchange, Wanted
  <2> QED
    BY ONLY <1>4, <2>1 DEF Done
<1>6. c.DelayedQueue # "" => queue[c.DelayedQueue] = Delaying(c)
  <2> DEFINE r == DeclareQueue(c.DelayedQueue, Delaying(c))
  <2>1. /\ Wanted(c, r) /\ r.do = "queue"
        /\ r.name = c.DelayedQueue /\ r.args = Delaying(c)
    BY DEF DeclareQueue, Wanted
  <2> HIDE DEF r
  <2> QED
    BY ONLY <1>1, <1>4, <2>1 DEF Done
<1>7. ASSUME NEW q, NEW k, <<q, k>> \in setupExchangeQueueBinding(c), q # ""
      PROVE  <<c.Exchange, q, k>> \in binding
  <2> DEFINE r == QueueExchangeBind(q, k, c)
  <2>1. Wanted(c, r)
    BY ONLY <1>7 DEF Wanted
  <2>2. r.do = "bind" /\ r.name = q /\ r.key = k
    BY DEF QueueExchangeBind
  <2> HIDE DEF r
  <2> QED
    BY ONLY <1>4, <1>7, <2>1, <2>2 DEF Done
<1> QED
  BY ONLY <1>1, <1>5, <1>6, <1>7

(* Where its broker's messages go. *)
LEMMA ReachedIsRouted ==
  ASSUME NamedInFanout, SeparateKeys, Inv, SetupInv, NEW p \in Program, pc[p] = "created",
         NEW c, c = config[p], NEW k \in PublishKeys(c)
  PROVE  Reached(c.Exchange, k) = Routed(c, k) \ {""}
<1> DEFINE S(d) == setupExchangeQueueBinding(d)
<1>1. /\ c \in Configs /\ ExchangeIs(c)
      /\ \A q, l : <<q, l>> \in S(c) /\ q # "" => <<c.Exchange, q, l>> \in binding
  BY CreatedHasAll
<1>2. \A d, q : q \in Routed(d, k) <=>
                  \E b \in S(d) : b[1] = q /\ (IgnoresKey(d.ExchangeType) \/ b[2] = k)
  BY DEF Routed
<1>3. \A q : q \in Reached(c.Exchange, k) <=>
               \E b \in binding : /\ b[1] = c.Exchange /\ b[2] = q
                                  /\ IgnoresKey(c.ExchangeType) \/ b[3] = k
  BY <1>1 DEF Reached, ExchangeIs
<1>4. \A b \in S(c) : b = <<b[1], b[2]>>
  <2> SUFFICES ASSUME NEW b \in S(c)
               PROVE  b = <<b[1], b[2]>>
    OBVIOUS
  <2>1. \/ b = <<c.TaskQueueName, c.BindingKey>>
        \/ b = <<c.DelayedQueue, c.DelayedQueue>>
        \/ \E q \in {c.FailedQueue, c.TimeoutQueue} \ {""} : b = <<q, q>>
    BY DEF setupExchangeQueueBinding
  <2>2. ASSUME NEW q, NEW l, b = <<q, l>> PROVE b = <<b[1], b[2]>>
    BY <2>2
  <2>3. \/ \E l : b = <<c.TaskQueueName, l>>
        \/ \E q, l : b = <<q, l>>
    BY ONLY <2>1
  <2> QED
    BY ONLY <2>2, <2>3
<1>5. k \notin Generated
  BY <1>1, GeneratedAssumption DEF PublishKeys, getRoutingKey
<1>6. ASSUME NEW q \in Reached(c.Exchange, k)
      PROVE  q \in Routed(c, k) /\ q # ""
  <2>1. PICK b \in binding : /\ b[1] = c.Exchange /\ b[2] = q
                             /\ IgnoresKey(c.ExchangeType) \/ b[3] = k
    BY <1>3
  <2>2. PICK d \in used : MadeFor(b, d) /\ ExchangeIs(d)
    BY DEF SetupInv, BindingsAreUsed
  <2>3. d \in Configs
    BY DEF Inv, ServerInv
  <2>4. d.Exchange = c.Exchange /\ d.ExchangeType = c.ExchangeType /\ q # ""
    BY <1>1, <2>1, <2>2 DEF ExchangeIs, MadeFor
  <2>5. <<b[2], b[3]>> \in S(d)
    BY <1>5, <2>1, <2>2, <2>3, <2>4 DEF MadeFor, NamedInFanout
  <2>6. <<b[2], b[3]>>[1] = b[2] /\ <<b[2], b[3]>>[2] = b[3]
    OBVIOUS
  <2> HIDE DEF S
  <2>7. q \in Routed(d, k)
    BY ONLY <1>2, <2>1, <2>4, <2>5, <2>6
  <2> QED
    BY <1>1, <2>3, <2>4, <2>7 DEF SeparateKeys
<1>7. ASSUME NEW q \in Routed(c, k), q # ""
      PROVE  q \in Reached(c.Exchange, k)
  <2> HIDE DEF S
  <2>1. PICK b \in S(c) : b[1] = q /\ (IgnoresKey(c.ExchangeType) \/ b[2] = k)
    BY <1>2
  <2>2. b = <<q, b[2]>>
    BY <1>4, <2>1
  <2> DEFINE e == <<c.Exchange, q, b[2]>>
  <2>3. e \in binding
    BY ONLY <1>1, <1>7, <2>1, <2>2
  <2>4. e[1] = c.Exchange /\ e[2] = q /\ e[3] = b[2]
    OBVIOUS
  <2> HIDE DEF e
  <2> QED
    BY ONLY <1>3, <2>1, <2>3, <2>4
<1> QED
  BY ONLY <1>6, <1>7

-----------------------------------------------------------------------------
(* When createWorkerPool has returned a pool, RabbitMQ has the exchange,   *)
(* the queues and the bindings of its configuration, and its broker's      *)
(* messages go where they should, however many other programs have run     *)
(* their setups, failed or crashed (NewAMQPBroker,                         *)
(* setupExchangeQueueBinding).                                             *)
THEOREM CreatedHasItsTopology ==
  ASSUME NamedInFanout, SeparateKeys
  PROVE  Spec => []TopologyIsSetUp
<1>1. Init => SetupInv
  BY DEF Init, SetupInv, BindingsAreUsed, Prepared
<1>2. Inv /\ ReferenceInv /\ SetupInv /\ [Next]_vars => SetupInv'
  <2>1. ASSUME SetupInv, UNCHANGED vars PROVE SetupInv'
    BY <2>1 DEF SetupInv, BindingsAreUsed, MadeFor, Prepared, Done, ExchangeIs, vars, server, program
  <2> QED
    BY <2>1, SetupStep
<1>3. Inv /\ SetupInv => TopologyIsSetUp
  <2> SUFFICES ASSUME Inv, SetupInv, NEW p \in Program, pc[p] = "created",
                      NEW c, c = config[p]
               PROVE  /\ \A k \in PublishKeys(c) : Reached(c.Exchange, k) = Routed(c, k) \ {""}
                      /\ c.DelayedQueue # "" => queue[c.DelayedQueue] = Delaying(c)
    BY DEF TopologyIsSetUp
  <2> QED
    BY ReachedIsRouted, CreatedHasAll
<1>4. Spec => []Inv /\ []ReferenceInv
  BY Invariant, Referenced
<1> QED
  BY <1>1, <1>2, <1>3, <1>4, PTL DEF Spec
=============================================================================
