# paota in TLA+

Specifications of [paota](../src/README.md), a Go library for background tasks over
RabbitMQ: TLA+ modules translated from the source, instances that TLC checks, and
proofs that TLAPS checks. The source is the reference; where a document or a comment
says something else, that is a finding (below).

## The system

A program makes a `WorkerPool`. As a client it calls `SendTaskWithContext`; as a
consumer it registers task functions and calls `Start`. Both talk to RabbitMQ through
`AMQPBroker` and the connection pool of `amqpProvider`.

| Component | State | Operations | Interacts with |
|---|---|---|---|
| Task registrar, `internal/task/memory/task.go` | the registered functions; per delivery a decoded `Signature` that it changes | `SendTask`, `Processor` (decode, start deadline, run, retry, ack or nack) | the broker (publish), the delivery (ack, nack), a goroutine per task function |
| Retry interval, `getRetryInterval`, `internal/utils/fibonacci.go` | none | Fibonacci seconds with a cap, in int64 nanoseconds | `retryTask` |
| Broker, publishing and topology, `internal/broker/amqp/broker.go` | the configuration; exchange, queues and bindings at RabbitMQ | `setupExchangeQueueBinding`, `Publish`, `getTaskTTL` | the provider |
| Broker, consumer, same file | the two unbuffered channels of the stop request | `StartConsumer`, `processDelivery`, `StopConsumer` | the worker group, the provider |
| Worker group, `internal/workergroup/workergroup.go` | a JobChannel per worker, the round-robin index | `Start`, `Stop`, `AssignJob`, `work` | the consumer sends, the workers receive |
| Worker pool, `workerpool/workerpool.go` | `started` | `Start` with its reconnecting loop, `Stop` | all of the above |
| AMQP provider, connection pool, `internal/provider/amqp.go` | the slice of connections, a watching goroutine per connection | take, release, discard, watch, replace, refill | RabbitMQ |
| AMQP provider, channels and publishing, same file | per call a connection, a channel and the confirm it waits for | `AmqpPublishWithConfirm`, `CreateAmqpChannel`, `CloseAmqpChannel` | the connection pool, RabbitMQ |
| Configuration, `config/` | the configuration of the global provider, to which everybody keeps a pointer | `ReadFromEnv`, `SetApplicationConfig`, `ValidateConfig` | everybody reads it |
| Factory and construction, `internal/factory`, `createWorkerPool` | none | create broker (dial the pool, set up the topology), store and registrar, in this order | RabbitMQ, where other programs do the same |
| Not used or without state: MongoDB provider, backend interface, logger, validation, error values, examples, benchmarks | | | |

What is hard in it, and which property it is for, is the list `hazards` of
`PROJECT.json`. In short:

- A task is retried by publishing a copy and then acknowledging the original. Crashes,
  closing channels and confirms that come too late fall between the two steps, and a
  message can exist twice.
- A deadline ends the wait for a task function and not the function.
- Messages expire, and what an expired message becomes depends on the queue it is in.
- Connections die under their users; a goroutine that noticed may run much later.
- A confirm comes late, or never, or after its channel has closed, while the message may
  be stored all the same; channel and connection have to be given back in order.
- Dials and RPCs have no timeout, some of them run under the mutex of the pool, and one
  that is not answered holds up whoever waits for it.
- The topology is set up request by request, by programs that crash, lose connections
  and share names on one RabbitMQ, and nothing is ever undone.
- The consumer hands deliveries to workers over unbuffered channels, while another
  goroutine stops the pool without a lock on `started`.
- The retry interval overflows.

Correctness, component by component: a confirmed task is never lost and is not run more
often than its retries and the faults allow (registrar and broker); retries are spaced
out and end (registrar, retry interval); a connection has one user, none is forgotten,
and the pool does not grow without bound (connection pool); a publish that returns nil
has its message stored once if any queue is bound for it, only RabbitMQ can keep one from
returning, and none leaves a channel behind on a connection that somebody else gets
(publishing); a pool that exists has the topology
of its configuration, and a program can always start again with its own (configuration,
topology, construction); no delivery is lost between the
broker and the workers, the consumer comes back after every error, and stopping ends
(consumer, worker group, worker pool).

## The modules

| Module | Models | Checked with | Proofs |
|---|---|---|---|
| `Topology` | what `setupExchangeQueueBinding` is for: the bindings, `getRoutingKey`, the exchange's routing | through `TaskRegistrar` and `PoolCreation` | |
| `RetryDelay` | `getRetryInterval` in int64 | itself | `RetryDelayProofs` |
| `TaskQueue` | abstract: what an at-least-once queue promises a client | | `TaskRegistrarProofs` |
| `TaskRegistrar` | the registrar and the publishing half of the broker, with RabbitMQ, time and faults | `MCTaskRegistrar` | `TaskRegistrarProofs`, `AttemptsProofs` |
| `ConnectionPool` | the connection pool, with users that do as they like | `MCConnectionPool` | `ConnectionPoolProofs` |
| `Publication` | abstract: what `AmqpPublishWithConfirm` promises its callers | | `PublishingProofs` |
| `Publishing` | the users of the connection pool: publishing calls and the consumer | itself | `PublishingProofs` |
| `PoolCreation` | from a configuration to a worker pool, several programs on one RabbitMQ | `MCPoolCreation` | `PoolCreationProofs` |
| `Consumption` | abstract: what a consumer promises RabbitMQ about its messages | | `WorkerPoolProofs` |
| `WorkerPool` | worker pool, worker group and the consuming half of the broker | itself | `WorkerPoolProofs` |
| `Counting` | mathematics of two of the proofs: induction, binomial coefficients, finite sums | | itself |

`TaskRegistrar` composes `Topology` (it extends it), takes the first overflowing retry
of `RetryDelay` as its constant `DelayOverflow`, and implements `TaskQueue` under the
refinement mapping `TQ`. `Publishing` composes `ConnectionPool` (the instance `CP` over
its own variables) with the callers of each of its operations, and implements
`Publication` (`PB`). `PoolCreation` extends `Topology`: it has the requests and what
RabbitMQ does with them, `Topology` what they have to amount to. `WorkerPool` implements
`Consumption` (`CO`). An operator whose
comment calls it a mutant ("the bug of the mutant", "a mutant") is never part of `Next`:
it is a plausible bug that a property has to notice, listed under `mutants` in
`PROJECT.json`.

### TaskRegistrar

State and code:

- `place`, `sig`, `ttl` are RabbitMQ: for each message the queue it is in (or
  `"unacked"`), the signature it carries, its expiration. `MsgId` names stored messages
  and is reused; `Store` waits for a free name, so a smaller `MsgId` only delays.
- `pc`, `job`, `wsig` are a worker in `amqpProcessSignature`: where it is, the delivery
  it holds, its decoded copy of the signature, which the code mutates as it decides.
- `client` is what `SendTaskWithContext` returned; `late` the tasks whose `TaskTimeOut`
  has elapsed since `CreatedAt`; `execs`, `completed`, `discarded` record what happened.
  A task function that outlives its deadline has no state: nobody waits for it any more,
  its result fits into the buffer of `done`, and whether it ends is its own affair.
- A signature keeps the fields that the code branches on. `urgent` is `Priority > 1`;
  `raw` says that `RawArgs` are set, in which case the other fields travel in headers,
  which lose the priority and the routing key (`Decoded`).
- `ETA` is `nil`, `past` or `future`; an expiration is none, the 5 ms of `getTaskTTL`,
  or the time to the ETA.

Steps: a delivery passes through `Deliver`, a decision (`RejectDelivery`,
`pushToTimeoutAmqpQueue`, `ExecuteTask`), the end of the task function (`TaskSucceeds`,
`TaskFails`, `ExecutionTimesOut`), `PublishAgain` where the decision was to publish, and
`Settle` (ack or nack). Between any two of them another worker, RabbitMQ, a closing
channel or a crash may act. `retryTask` is a part of the step that calls it, because it
touches only the worker's own copy; its publish is the next step, with three outcomes:
confirmed; failed; failed and stored all the same (the confirm was late). The
`select` of `amqpProcessSignature` is the choice between `TaskSucceeds`, `TaskFails` and
`ExecutionTimesOut`.

`PublishOk` includes the exchange that finds no queue for the key: RabbitMQ confirms and
drops, since the mandatory flag is false.

### ConnectionPool

`pool` is the slice, `open` the set of connections that are not closed, `held[u]` the
connection a goroutine took, `watch[c]` the watching goroutine of c: `spawned` (started,
`NotifyClose` not called yet), `armed`, `fired` (it has received an error and is on the
way to `replaceDeadConnection`). Every operation holds `connectionsMutex` throughout,
including its dials, so each is one action; each dial may fail. (That a dial may also not
end, and the mutex with it, is in `Publishing`.) A dial that succeeds
takes the next number up to `MaxDials`.

### Publishing

`pc[u]` follows `AmqpPublishWithConfirm` (or the deferred calls of `StartConsumer`):
`called` on the way to a connection, `connected` with one, `opened` with a channel, `ready` in confirm mode,
`waiting` in the `select`, `closing` and `leaving` in the two deferred calls. `chan[u]` is
the connection on which u has a channel, `wire[c]` what is between the call and RabbitMQ,
`copies[c]` what RabbitMQ has stored, `result[c]` what the call returns
(`publishHadError`). The steps of `ConnectionPool` appear here as parts of the steps of
their callers, so that a connection is released or discarded exactly when the code does
it. `mutex` is `connectionsMutex`: an operation is a step that takes it (`Lock`,
`LockToReplace`) and one that does the work and gives it back, and what others do may come
between the two. RabbitMQ may store, refuse or lose a message at any time after it was
sent, also when the call has given up and its connection is gone; the messages of
`Unroutable` calls it confirms and drops, since the mandatory flag is false; channels and connections close at any
time. `CreateAmqpChannel` that fails in `Confirm` returns no channel, so `CloseAmqpChannel`
is not called and the channel lives until its connection is discarded.

`TaskRegistrar` abstracts a call to one step with three outcomes, of which "failed and
stored all the same" stores at once. `Publishing` shows that the storing may also come
after the error was returned (`BrokerStores`): to the registrar that is a message which is
stored and not delivered yet.

A dial ends when RabbitMQ has answered the handshake (`dialTimeout` ends with the TCP
connection), and `conn.Channel`, `channel.Confirm`, `channel.Close` and `conn.Close` when
it has answered the RPC, or when the connection ends; a write ends when it is read. None
of them has a timeout. `Awaits(u)` says that the next step of u is such a one, and
`HolderAwaits` that it is that of whoever holds the mutex. Only the wait for the confirm
has a timer, and after it the deferred `channel.Close` waits again.

### PoolCreation

`exchange`, `queue` and `binding` are RabbitMQ, `used` the configurations that a setup has
begun with, and `pc`, `config`, `conns`, `todo`, `declared` one program: where it is,
the configuration of its provider, its open connections, the requests left of
`setupExchangeQueueBinding`, and the queue declared last on its channel (the one RabbitMQ
means by an empty name). Each request is a step, so another program, a lost connection or
a crash may come between any two. RabbitMQ accepts a declaration that differs in nothing
from what there is and refuses any other; it generates a name for a queue without one.
`ReadFromEnv` fills the configuration in before it validates it, so that it may be used
even after the error, and it may come after a `SetApplicationConfig`, whose AMQP part it
then fills in: `Parsed` says what the environment can make of a configuration. A program
configures itself any number of times before it creates its pool. The final states are told apart by what they leave behind:
`failed` (before or while dialling: `CreateConnectionPool` closes what it had),
`refused` and `abandoned` (the pool's connections stay open, since nobody closes them),
`panicked`.

### WorkerPool

`consumer` is the goroutine of `Start`: connecting, in the `select` of `StartConsumer`,
blocked in `AssignJob`, answering a stop request, returned with an error, asleep.
`stop[s]` is a caller of `Stop`: after the check of `started`, closing channels, waiting
for the consumer to take its request, waiting for the confirmation. `job` and `live` say
which message a worker or the consumer holds and whether it still may ack it. `Work` ends
a job by an ack, or a nack for good, `WorkRequeues` by a nack with requeue, which the
registrar sends when a retry could not be published. Deliveries
that the AMQP client has buffered and the consumer has not read count as ready: closing
the channel returns them like the rest. `process` ends by `os.Exit` or by a panic. The
second `Start` of a running pool returns at once and is left out.

## The runs

Bounds: `MaxFaults`, `MsgId`, `MaxRetry`, `MaxDials`, `MaxLosses`, `Generated`, and the
sizes of the sets. The longest runs, `Publishing` and `WorkerPool`, take one to two minutes
each.

| Run | Question | Bounds, and why they are enough |
|---|---|---|
| `TaskRegistrarSafety` | Does the inductive invariant hold, is no confirmed task lost, how often is it tried, does every retry go through the delayed queue, and is the system a `TaskQueue`? | one task in each of six shapes, three configurations (two parking queues, none, one shared), two workers, two faults, seven message names. Two workers and a fault make two live copies of one task; the bound on the attempts is a binomial coefficient in the faults, and the second fault is the first to show it; seven names hold all copies that two faults can make |
| `TaskRegistrarLiveness` | Do tasks settle, and does everything come to rest? | two tasks compete for one worker, each with a retry or with a start deadline; one fault; no symmetry |
| `RetryDelay` | What are the waits, and where is the overflow? | 120 retries: past the overflow of the product (50) and of the Fibonacci numbers (93). The proofs are for any number |
| `ConnectionPool` | One user per connection, no leak, a bounded pool, what is gone stays gone | three users, pool of two, five dials: an empty pool, a refill while two are in use, and one replacement more |
| `Publishing` | Does nil mean stored, and once, if there is a queue for the message? Is a channel ever left on a connection that goes to another user? What can a call be stuck at, and does it return otherwise? | two calls, one of them unroutable, and the consumer, a pool of one, two dials: the users compete for one connection and its mutex, and a connection that died is replaced or refilled once. What more dials do to the pool is `ConnectionPool`'s run |
| `PoolCreation` | Does a pool that was created have its topology? Which setups does RabbitMQ refuse? What has validation let through, and what is left open after an error? | two programs, nine configurations, two generated names. The configurations agree, share queues with the same arguments or with others, differ in the type of the exchange (direct, topic, headers), leave names empty, and lack what validation should have seen; the one without a prefetch count is reached only by a `ReadFromEnv` after an accepted configuration, the one without a URL not at all. No configuration has an exchange that RabbitMQ cannot have, so that disjunct of `RefusedOnlyByClash` is covered by the proof alone |
| `WorkerPool` | Is every delivery in one pair of hands, is it settled only by the worker that has processed it, do faults leave the process alive, does every `Stop` end, is every message handled? | two workers, three messages (one more than the workers, so that the consumer blocks) and an empty one, prefetch 3, two losses (one to interrupt the recovery from the other), two callers of `Stop` |

The runs that expect a violation each show one finding:

| Run | The document says | The code does |
|---|---|---|
| `EmptyKeyWithETA` | an empty `RoutingKey` gets a default (README.md:169) | only without an expiration; with an ETA the message is published to no queue and confirmed |
| `UrgentFailedTask` | an exhausted task is pushed to the failed queue (task.go:264) | with `Priority > 1` and a `TaskTimeOut` it expires there after 5 ms |
| `FiftyRetries` | each retry is spaced out (README.md:171) | from retry 50 on the interval is negative, and the task is published uncounted, with the key and the ETA it came with. With `RawArgs` (the run) the key was lost in the headers: it is requeued at once, for ever. A JSON task has the delayed queue's key and a past ETA, so that it gets no expiration and stays there |
| `PooledAreWatched` | the connections of the pool are watched (amqp.go:305) | the one that replaces a dead one on release is not: the dead one is watched instead |
| `StopDuringDelivery` | `Stop` stops the workers (workerpool.go:208) | it closes the job channels while the consumer may be sending on one: a panic |

Smaller disagreements, without a run of their own. Visible in the modules:

- The waits are 1, 1, 2, 3, 5, 8, 10, 10, ... seconds (`IntervalReference`), where
  README.md:171 has "the delay increasing after each failure".
- The pool may stay larger than `ConnectionPoolSize` after a refill while connections are
  in use (`ConnectionsBounded` says by how much), which README.md:132 calls its size.
- `Stop` returns without stopping anything when no task is registered (`CallStop`).
- workerpool.go:86 has "Backend is optional so we ignore the error", and the next lines
  return it: with a `Store` the creation always fails and leaves its connections open
  (`CreateStore`, `LeftOpenByBrokerOnly`).
- workerpool.go:51 returns "config is not provided" for a nil configuration, but
  `NewWorkerPool` passes it on only after factory.go:28 and amqp.go:276 have followed nil
  pointers (`NewWorkerPool`, state `panicked`). A configuration with a nil AMQP part passes
  the validation, so the check for it in `CreateConnection` is never reached first.
- `ReadFromEnv` never allocates the AMQP part: environments as in README.md leave it nil,
  and config_test.go:14 expects no error with only the broker set although the URL is
  required. The variables also need the prefix `PAOTA_`, which README.md leaves out.
- `validate:"required"` on `PrefetchCount` (config/amqp.go:17) refuses only 0, and
  README.md calls the field required; a negative count passes, and when `ReadFromEnv`
  has refused a 0 the pool that is then created works with it: RabbitMQ takes it for no
  limit (the exception in `CreatedIsChecked`).
- With a topic exchange, or an empty `BindingKey`, the default routing key is the queue's
  name, which nothing is bound to (broker.go:237, README.md:169): `Routed`, and the topic
  configuration of `PoolCreation`.
- Without a `DelayedQueue` (as in bench/amqpnostorage/setup.go; the default is only filled
  in from the environment) RabbitMQ generates a queue, and retries are published with the
  empty key, confirmed and dropped (the exception in `TopologyIsSetUp`).
- Programs that share an exchange and a `BindingKey` and have task queues of their own
  each get every task; so do all queues of a fanout or a headers exchange, the parking
  queues included (`SeparateKeys`, `IgnoresKey`).

The properties about lost and expiring tasks hold for the submissions of
`SafeSubmission`: a bound routing key, a future ETA only with the delayed queue's key, no
5 ms expiration on the way to a parking queue, fewer than 50 retries. The three runs
`EmptyKeyWithETA`, `UrgentFailedTask` and `FiftyRetries` are what happens to others.

`CHECK_DEADLOCK FALSE` stands where the system may really stop: no more submissions and
nothing in flight, the last retry number, a process that has exited. `ConnectionPool`,
`PooledAreWatched`, `Publishing` and `PoolCreation` never stop and are checked for deadlock.

### Fairness

- `TaskRegistrar`: weak fairness of RabbitMQ's deliveries and expirations, of each
  worker's steps (a goroutine is scheduled; a running task ends at the latest with
  `MaxTaskExecutionDuration`, or is left behind). Nothing of a task function. Clients, start deadlines, publishes that succeed, and faults are not fair: a
  publish may fail for ever only if faults may, and those are bounded.
- `Publishing`, `FairSpec`: weak fairness of the steps of a call that has begun, and of
  whoever holds the mutex, as long as the step does not await RabbitMQ: goroutines are
  scheduled, and the five seconds of the `select` pass. Strong fairness of `Lock`:
  `sync.Mutex` hands itself to a waiter that has starved for a millisecond. Nothing about
  RabbitMQ, and nothing about when the consumer acts: `StuckOnlyAtRabbitMQ` holds without.
- `Publishing`, `Answers`, which only `CallsReturn` assumes: what awaits RabbitMQ in a call
  or under the mutex is answered, or its connection ends. Confirms are not part of it:
  `CallsReturn` holds when none ever comes. It does not hold when, say, an alarm blocks the
  connection and the `channel.Close` after the timer is not answered.
- `WorkerPool`, `Fairness`: weak fairness of the consumer goroutine and of the steps of
  `Stop`. It takes the RPCs with which the consumer connects and closes its channel to
  return or fail; they may fail every time, and no task need end, and `StopEnds` still
  holds. A process that has panicked counts as ended: `StopIsClean` is about that.
- `WorkerPool`, `Recovery`, which only `EveryMessageHandled` assumes: strong fairness of
  `Connect`, since RabbitMQ can be reached again and again while the loop of `Start`
  retries for ever, and strong fairness of `Work`: a task ends, and is not nacked with
  requeue every time, since a retry can be published again and again. (When RabbitMQ
  refuses every publish, the message goes round for ever, and nothing is handled.)

## The proofs

Checked by TLAPS for every value of the constants that satisfies their assumptions. Every
safety invariant and action property that a passing run checks, and each of the three
refinements, is stated by a theorem; only liveness is left to TLC.

**No confirmed task is lost** (`TaskRegistrarProofs`). `NoTaskLost` is not inductive: a
worker that is about to acknowledge would remove the last message of a task unless we
know why it may. `IndInv` adds, and each part needs the one before:

1. `HeldOnce`: one worker holds a delivery, and works on a copy with the same task.
2. `ExpiryIsDelay`: only a message in the delayed queue expires, so that expiring moves
   it to the task queue and loses nothing.
3. `PublishesOnward`: what a worker publishes goes to a parking queue without expiration,
   or to the delayed queue with one more retry done than the delivery it holds.
4. `AckIsSafe`: a worker acknowledges when its task is resolved or another message
   *supersedes* its delivery: one parked for good, or one with more retries done. The
   order matters. If any other message would do, two workers with the two copies of one
   task could each rely on the other's copy and both remove theirs.

The step proof follows a message: it persists through every step, or a worker removes
it (`MessagesPersist`), and then its task is resolved or something that superseded it
is still there (`RemovedIsSuperseded`). `TypeCorrect` holds for all submissions;
`InductiveInvariant` and `NoTaskIsLost` assume `SafeSubmissions`.

**The system is an at-least-once queue** (same module). `TaskQueueIsImplemented` shows,
for safe submissions, that each step of `TaskRegistrar` is a step of `TaskQueue` or a
stutter under `TQ`. It needs `NoTaskLost` (a task is given up by the abstract queue only if
the concrete one may) and `BusyWithKnown`: a worker is busy only with tasks that were
submitted, so that an execution is an execution of the abstract queue.
`RetriesGoThroughDelay` states `RetriesAreDelayed` from `PublishesOnward`: below
`DelayOverflow` the interval is positive.

**How often a task is tried** (`AttemptsProofs`). `AttemptsAreBounded` states
`AttemptsBounded` for any number of tasks, workers, messages and faults: a task function
with R retries is started at most R + 1 times without faults, and f faults raise this to a
binomial coefficient. The invariant, `StartsAreAllowed`, is an account: each message, each
busy worker and the client that has not submitted yet is allowed the starts it may still
cause when j more faults happen, and what was started plus the sum of what is allowed stays
within the bound *for every j*. Being for every j makes it inductive: at a fault, every
delivery is revived, which the account for j + 1 has paid for already. `Starts(r, j)`, what
a message with r starts left is worth with j - 1 faults to come, obeys Pascal's rule: one
start now, its retry's, and its own again with one fault less. Each step then moves an
allowance from one holder to another (the lemmas that end in `Pays`). The theorem assumes
finitely many messages and workers, over which the sum is taken, and `FewRetries`: every
`RetryCount` below `DelayOverflow`, past which retries are not counted and the property is
false. It does not need `SafeSubmissions`: what is lost is not started.

**What the retry interval is** (`RetryDelayProofs`). Go's integers are words of four limbs
here, and `Stands(w, x)` says that the word w is what 64 bits leave of the number x.
Addition, multiplication by doubling and the signed comparison of words are shown to be
those of numbers modulo 2^64 (`PlusStands`, `TimesStands`, `GreaterIsOrder`), with which
`AdditionsAreFibonacci` says that the loop computes what 64 bits leave of Fibonacci's
number, however many retries. `WaitsAreAsTabled` goes through the first fifty products:
49 are positive and have the tabled wait, the fiftieth is negative. That fifty is the number
that `TaskRegistrar` takes as `DelayOverflow`.

**One user per connection, no leak** (`ConnectionPoolProofs`). `Exclusive` and `NoLeak`
are inductive together with `TypeOK` and `FiredAreClosed`: a goroutine on its way to
`replaceDeadConnection` holds a connection that is closed, so that the slot it
overwrites forgets no open one. New connections are apart from all others because they
are numbered by the dials. Lemmas `Pop`, `Push`, `Replace` and `Fresh` state what the
slice operations do to the set of connections and to its freedom from duplicates.
`GoneForGood` follows in one step from the same invariant. `PoolIsBounded` counts: only a
refill of an empty pool adds connections, and then at most users - 1 are in use, because
the one that refills has none. It assumes that the users are finitely many and at least
one, without which the bound says nothing.

**Nil means stored, once, or no queue; nothing is left on a connection** (`PublishingProofs`). Each
step of `Publishing` is a step of the pool or leaves it alone, so the pool's inductive
invariant carries over to callers that behave as the code does
(`PublishingLeaksNothing`). On top of it `ReleasedClean` says that who is about to
release a connection has no channel on it (only a call that discards its connection may
leave with the channel open), and `Outcomes` ties `wire`, `copies` and `result`: what is
still on the wire is not stored yet, and a call that returns nil has read an ack, of a
message that was stored once or that RabbitMQ dropped because no queue was bound for it.
Who is in the middle of an operation on the pool holds `mutex`. The refinement of `Publication` is one lemma per action
from `Outcomes`.

**Setups and their topology** (`PoolCreationProofs`). First each program alone: what it
has dialled, checked and left open (`PoolsAreChecked`, `AllOrNoneLeftOpen`). The key is
`Named`: the environment cannot take away the name of the task queue, nor the URL of an
AMQP part, which only an accepted configuration brings; the broker, the part itself and
the size are checked on the way to the pool, and only the prefetch count is left. Then
RabbitMQ: `ServerInv` says that whatever it has was asked for by a used configuration or
has a generated name, so that it can refuse only a clash (`SetupsAreRefusedForClashes`).
`ReferenceInv` says that nothing dangles: a setup declares the exchange first, and each
queue before it binds it; and where it binds a queue without a name, which RabbitMQ takes
for the one declared last on the channel, that one is a generated queue and no other is
declared in between. From it follow `CreationKeepsItsType` (each binding joins an exchange
and a queue that exist) and what an unnamed delayed queue gets. For
`CreatedHasItsTopology` the converse is needed too: `SetupInv` says that each request of a
setup is done or still to do, and that each binding belongs to a used configuration whose
exchange exists; and RabbitMQ only grows. The theorem assumes `SeparateKeys` and
`NamedInFanout`, without either of which it is false: programs that share an exchange and a
key get each other's tasks, and a generated queue on a fanout or a headers exchange gets
all of them.

**No delivery falls between broker and workers** (`WorkerPoolProofs`).
`EveryMessageAccounted` is inductive with `LiveWhenAssigning` (the consumer holds a
message that can be acked only while it hands it to a worker, so that receiving the next
one overwrites nothing) and `ClosingInRange`. `FaultsAreSurvived` rests on `BeforeStop`: the
job channels are open, and the process is up, as long as nobody has called `Stop`.
`ConsumptionIsImplemented` adds what an invariant cannot say: a message is settled by a
step of the worker that has processed it, and by that only, while RabbitMQ waits for
it on the channel in use. The mapping gives each goroutine the message it may still ack
(`hand`); since what is held under it is exactly what RabbitMQ waits for
(`HeldIsUnacked`), a worker whose channel is gone holds nothing, and its ack is a stutter.

**Induction.** The library's induction theorems take an operator as a parameter, which none
of the provers can instantiate. `Counting` gets around that for the recursions that the
proofs need: `SetInduction` states induction for a set instead of a formula and is proved
by its least counterexample, and `Iteration` says that a step function iterated over the
numbers exists and is the only solution of its recursion. Factorials, and with them the
binomial coefficients of `AttemptsBounded`, are solved so; `RetryDelayProofs` does the like
for `Times`. A finite sum is the cardinality of a set of tokens, so that sums need no
recursion of their own.

**Only model-checked**: liveness (`EveryTaskSettles`, `Quiesces`,
`StuckOnlyAtRabbitMQ`, `CallsReturn`, `StopEnds`, `EveryMessageHandled`), since fairness and ENABLED are out of
the prover's reach. The five runs that expect a violation show behaviours, which are
nothing to prove.

## Not modelled

- The AMQP library and RabbitMQ beyond their use: channels and connections that open or
  fail are outcomes; queue limits, priorities within a queue and cluster failures are
  left out, and so are the wildcards of topic keys. Expiration is modelled for messages anywhere in a queue, though RabbitMQ
  expires them at its head.
- Two uses of one `*Signature`. Each call of the model has its own. In the code `SendTask`
  sets UUID and CreatedAt only if they are unset (task.go:306), unlocked, and `Publish`
  writes the routing key: a program that sends one signature twice, as
  example/publisher/main.go:73 does from many goroutines, sends tasks that share a
  "Unique identifier" (README.md) and the deadline of the first, and its goroutines race.
  The same holds for a task function that overran while `retryTask` changes its signature.
- What becomes of a task function that outlives its deadline: its goroutine may stay for
  ever (task.go:195), and no code ends it.
- Registering tasks while the pool runs: the registered names are a constant.
- Setting the configuration again under a pool that exists. The pool keeps the pointer of
  the global provider (workerpool.go:66), so its keys and queue names change and its
  connections do not; `TopologyIsSetUp` holds of programs that leave the configuration alone
  once they have a pool.
- The conversions of header values beyond the fields that headers lose (`Decoded`).
- MongoDB provider and backend (nothing in the repository uses them), logger,
  validation by reflection, error values, examples and benchmarks.

## Plan

Done, in this order: `RetryDelay`, `Topology`, `TaskQueue`, `TaskRegistrar`,
`ConnectionPool`, `WorkerPool`, each with its first proofs; `Publication` and `Publishing`,
the composition of the connection pool with its callers; `PoolCreation`, from the
configuration to the topology; `Consumption`; the proofs of all three refinements, of the
topology, of the attempts and of the retry interval. To come, the most useful first:

1. `SharedSignature`: concurrent `SendTask` calls on one signature.
2. Setting the configuration again under an existing pool.
3. `RegisterTasks` while the pool runs, with `Stop` before the first registration.
4. `Codec`: the conversions of header values against the fields they come from.
