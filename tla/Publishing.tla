----------------------------- MODULE Publishing -----------------------------
(***************************************************************************)
(* The users of the connection pool: goroutines that publish a message and *)
(* wait for RabbitMQ's confirm (AmqpPublishWithConfirm), and the consumer  *)
(* goroutine (the deferred calls of StartConsumer).  Each takes a          *)
(* connection, opens a channel on it, works, and gives both back.          *)
(* ConnectionPool has the pool itself, with users that do as they like;    *)
(* here each operation on the pool is a step of the code that calls it, and *)
(* connectionsMutex is held from one step to the next, for the operations  *)
(* dial and close connections under it.  RabbitMQ and the network are      *)
(* external: they store and confirm, drop or refuse messages, close        *)
(* channels, and end connections at any time.                              *)
(***************************************************************************)
EXTENDS Integers, Sequences, FiniteSets

CONSTANTS
  Call,         \* the calls of AmqpPublishWithConfirm, each by a goroutine
  Unroutable,   \* those whose exchange and key no queue is bound for
  Consumer,     \* the consumer goroutine
  PoolSize,     \* ConnectionPoolSize
  MaxDials,     \* bound of the model, see ConnectionPool
  None          \* no connection

ASSUME SizeAssumption == PoolSize \in Nat /\ PoolSize >= 1 /\ MaxDials \in Nat
ASSUME NoneAssumption == None \notin 1..MaxDials
ASSUME ConsumerAssumption == Consumer \notin Call
ASSUME UnroutableAssumption == Unroutable \subseteq Call

VARIABLES
  pool, dials, open, held, watch,   \* see ConnectionPool
  mutex,    \* who holds connectionsMutex: a user, or the goroutine of
            \* watchConnection(x), named x; None when it is free
  pc,       \* pc[u]: where u is
  chan,     \* chan[u]: the connection on which the channel of u is open
  wire,     \* wire[c]: the message of c and the confirm on its way back
  copies,   \* copies[c]: how often RabbitMQ has stored the message of c
  result    \* result[c]: what c returns

User == Call \cup {Consumer}

CP == INSTANCE ConnectionPool

poolVars == <<pool, dials, open, held, watch>>
message == <<wire, copies>>
pooling == <<poolVars, mutex>>
vars == <<pooling, pc, chan, message, result>>

Go(u, l) == pc' = [pc EXCEPT ![u] = l]
Returns(c, r) == result' = [result EXCEPT ![c] = r]

-----------------------------------------------------------------------------
(* A connection and a channel.                                             *)

(* A goroutine calls AmqpPublishWithConfirm, or StartConsumer. *)
Begin(u) ==
  /\ pc[u] = "idle"
  /\ Go(u, "called")
  /\ UNCHANGED <<pooling, chan, message, result>>

(* connectionsMutex.Lock, in each operation on the pool. *)
Lock(u) ==
  /\ pc[u] \in {"called", "leaving"}
  /\ mutex = None /\ mutex' = u
  /\ UNCHANGED <<poolVars, pc, chan, message, result>>

(* The end of an operation, with its deferred Unlock. *)
Unlocks(g) == mutex = g /\ mutex' = None

(* Where a user that gets no connection goes: a call returns the error, the *)
(* consumer sleeps and tries again.                                        *)
Connected(u) ==
  /\ pc[u] = "called"
  /\ CP!GetConnectionFromPool(u)
  /\ IF held'[u] # None
     THEN Go(u, "connected") /\ UNCHANGED result
     ELSE IF u \in Call THEN Go(u, "done") /\ Returns(u, "error")
                        ELSE Go(u, "idle") /\ UNCHANGED result
  /\ UNCHANGED <<chan, message>>

(* A mutant: the error is returned without the Unlock. *)
GetKeepingMutex(u) ==
  /\ Connected(u)
  /\ IF held'[u] # None THEN Unlocks(u) ELSE mutex = u /\ UNCHANGED mutex

GetConnection(u) == Connected(u) /\ Unlocks(u)

(* conn.Channel().  A call goes on to put the channel into confirm mode,   *)
(* the consumer to Qos and Consume, which may fail as its loop may end.    *)
OpenChannel(u) ==
  /\ pc[u] = "connected" /\ held[u] \in open
  /\ chan' = [chan EXCEPT ![u] = held[u]]
  /\ Go(u, IF u \in Call THEN "opened" ELSE "consuming")
  /\ UNCHANGED <<pooling, message, result>>

OpenChannelFails(u) ==
  /\ pc[u] = "connected"
  /\ Go(u, "leaving")
  /\ IF u \in Call THEN Returns(u, "error") ELSE UNCHANGED result
  /\ UNCHANGED <<pooling, chan, message>>

(* channel.Confirm.  When it fails CreateAmqpChannel returns no channel,    *)
(* and nobody closes the one that it opened.                               *)
ConfirmMode(c) ==
  /\ pc[c] = "opened"
  /\ \/ chan[c] # None /\ Go(c, "ready") /\ UNCHANGED result
     \/ Go(c, "leaving") /\ Returns(c, "error")
  /\ UNCHANGED <<pooling, chan, message>>

-----------------------------------------------------------------------------
(* Publishing and waiting for the confirm.                                 *)

PublishWithContext(c) ==
  /\ pc[c] = "ready" /\ chan[c] # None
  /\ wire' = [wire EXCEPT ![c] = "sent"]
  /\ Go(c, "waiting")
  /\ UNCHANGED <<pooling, chan, copies, result>>

(* The channel is closed, or a write fails, and what was written reaches   *)
(* RabbitMQ or not.                                                        *)
PublishFails(c) ==
  /\ pc[c] = "ready"
  /\ \/ chan[c] # None /\ wire' = [wire EXCEPT ![c] = "sent"]
     \/ UNCHANGED wire
  /\ Go(c, "closing") /\ Returns(c, "error")
  /\ UNCHANGED <<pooling, chan, copies>>

(* RabbitMQ answers to nobody but a call that waits at an open channel. *)
Answered(c, answer) ==
  wire' = [wire EXCEPT ![c] = IF pc[c] = "waiting" /\ chan[c] # None
                              THEN answer ELSE "over"]

(* What has been sent can be stored after the call has given up, and even  *)
(* after the connection is gone.                                           *)
BrokerStores(c) ==
  /\ wire[c] = "sent" /\ c \notin Unroutable
  /\ copies' = [copies EXCEPT ![c] = @ + 1]
  /\ Answered(c, "acked")
  /\ UNCHANGED <<pooling, pc, chan, result>>

(* The message is published with mandatory = false: one that no queue gets *)
(* is dropped, and confirmed like a stored one.                            *)
BrokerDrops(c) ==
  /\ wire[c] = "sent" /\ c \in Unroutable
  /\ Answered(c, "acked")
  /\ UNCHANGED <<pooling, pc, chan, copies, result>>

(* A message may also be refused, or lost with its connection. *)
BrokerRefuses(c) ==
  /\ wire[c] = "sent"
  /\ Answered(c, "nacked")
  /\ UNCHANGED <<pooling, pc, chan, copies, result>>

(* A case of the select: the call returns r, and reads no answer any more. *)
StopsWaiting(c, r) ==
  /\ pc[c] = "waiting"
  /\ Go(c, "closing") /\ Returns(c, r)
  /\ wire' = [wire EXCEPT ![c] = IF @ = "sent" THEN "sent" ELSE "over"]
  /\ UNCHANGED <<pooling, chan, copies>>

Acked(c) == wire[c] = "acked" /\ StopsWaiting(c, "ok")

(* A mutant: the answer is taken for a confirm whatever it says. *)
NackedAsAcked(c) == wire[c] = "nacked" /\ StopsWaiting(c, "ok")

Nacked(c) == wire[c] = "nacked" /\ StopsWaiting(c, "error")

(* A confirm that had arrived when the channel closed is in the buffer of  *)
(* confirmChan, or still on its way and lost: both cases are possible.     *)
ConfirmChannelCloses(c) == chan[c] = None /\ StopsWaiting(c, "error")

(* A mutant: there is no timer. *)
NeverTimesOut(c) == chan[c] = None /\ StopsWaiting(c, "error")

ConfirmTimesOut(c) == StopsWaiting(c, "error")

-----------------------------------------------------------------------------
(* The deferred calls: the channel is closed, then the connection given    *)
(* back.                                                                   *)

(* The consumer's loop ends: an error, a closed channel, a stop request. *)
ConsumerReturns ==
  /\ pc[Consumer] = "consuming"
  /\ Go(Consumer, "closing")
  /\ UNCHANGED <<pooling, chan, message, result>>

(* A mutant: the deferred calls run in the other order. *)
LeaveChannelOpen(u) ==
  /\ pc[u] = "closing"
  /\ Go(u, "leaving")
  /\ UNCHANGED <<pooling, chan, message, result>>

CloseAmqpChannel(u) ==
  /\ pc[u] = "closing"
  /\ chan' = [chan EXCEPT ![u] = None]
  /\ Go(u, "leaving")
  /\ UNCHANGED <<pooling, message, result>>

(* A mutant: the consumer does not come back. *)
LeftForGood(u) == Go(u, "done")

Left(u) == Go(u, IF u \in Call THEN "done" ELSE "idle")

(* publishHadError is result[u] = "error"; the consumer always releases. *)
Release(u) ==
  /\ pc[u] = "leaving" /\ (u \in Call => result[u] = "ok")
  /\ CP!ReleaseConnectionToPool(u) /\ Unlocks(u)
  /\ Left(u)
  /\ UNCHANGED <<chan, message, result>>

(* A mutant: the connection goes back to the pool after an error too. *)
DiscardNothing(c) ==
  /\ pc[c] = "leaving" /\ result[c] = "error"
  /\ CP!ReleaseConnectionToPool(c) /\ Unlocks(c)
  /\ chan' = [chan EXCEPT ![c] = None]
  /\ Left(c)
  /\ UNCHANGED <<message, result>>

(* The connection closes, under the mutex, and with it a channel that is    *)
(* still open.                                                             *)
Discard(c) ==
  /\ pc[c] = "leaving" /\ result[c] = "error"
  /\ CP!DiscardConnection(c) /\ Unlocks(c)
  /\ chan' = [chan EXCEPT ![c] = None]
  /\ Left(c)
  /\ UNCHANGED <<message, result>>

-----------------------------------------------------------------------------
(* RabbitMQ, the network, and the goroutines that watch.                   *)

ChannelCloses(u) ==
  /\ chan[u] # None
  /\ chan' = [chan EXCEPT ![u] = None]
  /\ UNCHANGED <<pooling, pc, message, result>>

ConnectionDies(x) ==
  /\ CP!ConnectionDies(x)
  /\ chan' = [u \in User |-> IF chan[u] = x THEN None ELSE chan[u]]
  /\ UNCHANGED <<mutex, pc, message, result>>

(* The goroutine of watchConnection(x) has been told that x is closed. *)
LockToReplace(x) ==
  /\ watch[x] = "fired"
  /\ mutex = None /\ mutex' = x
  /\ UNCHANGED <<poolVars, pc, chan, message, result>>

Replace(x) ==
  /\ CP!replaceDeadConnection(x) /\ Unlocks(x)
  /\ UNCHANGED <<pc, chan, message, result>>

Watch(x) ==
  /\ CP!WatchConnection(x)
  /\ UNCHANGED <<mutex, pc, chan, message, result>>

-----------------------------------------------------------------------------
Init ==
  /\ CP!Init
  /\ mutex = None
  /\ pc = [u \in User |-> "idle"]
  /\ chan = [u \in User |-> None]
  /\ wire = [c \in Call |-> "none"]
  /\ copies = [c \in Call |-> 0]
  /\ result = [c \in Call |-> "none"]

(* What a call does once it has begun. *)
CallStep(c) ==
  \/ Lock(c) \/ GetConnection(c)
  \/ OpenChannel(c) \/ OpenChannelFails(c) \/ ConfirmMode(c)
  \/ PublishWithContext(c) \/ PublishFails(c)
  \/ Acked(c) \/ Nacked(c) \/ ConfirmChannelCloses(c) \/ ConfirmTimesOut(c)
  \/ CloseAmqpChannel(c) \/ Release(c) \/ Discard(c)

ConsumerStep ==
  \/ Begin(Consumer) \/ Lock(Consumer) \/ GetConnection(Consumer)
  \/ OpenChannel(Consumer) \/ OpenChannelFails(Consumer)
  \/ ConsumerReturns \/ CloseAmqpChannel(Consumer) \/ Release(Consumer)

Next ==
  \/ \E c \in Call : \/ Begin(c) \/ CallStep(c)
                     \/ BrokerStores(c) \/ BrokerDrops(c) \/ BrokerRefuses(c)
  \/ ConsumerStep
  \/ \E u \in User : ChannelCloses(u)
  \/ \E x \in CP!Conn : \/ ConnectionDies(x)
                        \/ Watch(x) \/ LockToReplace(x) \/ Replace(x)

Spec == Init /\ [][Next]_vars

-----------------------------------------------------------------------------
(* What the code waits for.                                                *)

(* To go on u dials, writes to a channel, or makes an RPC on a channel or a *)
(* connection that is open.  None of them has a timeout: dialTimeout ends  *)
(* with the TCP connection, before the handshake.                          *)
Awaits(u) ==
  \/ pc[u] = "called" /\ mutex = u /\ (pool = <<>> \/ Head(pool) \notin open)
  \/ pc[u] = "connected" /\ held[u] \in open
  \/ pc[u] \in {"opened", "ready", "closing"} /\ chan[u] # None
  \/ /\ pc[u] = "leaving" /\ mutex = u
     /\ (held[u] \in open) = (u \in Call /\ result[u] = "error")

(* So does who holds connectionsMutex, and everybody else with it. *)
HolderAwaits ==
  \/ \E u \in User : mutex = u /\ Awaits(u)
  \/ \E x \in CP!Conn : mutex = x /\ x \in CP!Pooled

HolderStep ==
  \/ \E u \in User : GetConnection(u) \/ Release(u)
  \/ \E c \in Call : Discard(c)
  \/ \E x \in CP!Conn : Replace(x)

(* A goroutine that has begun a call is scheduled and its timer fires,     *)
(* whoever holds the mutex goes on, and sync.Mutex starves nobody: a       *)
(* waiter gets it if it becomes free again and again.  A step that awaits  *)
(* RabbitMQ need never be taken.                                           *)
FairSpec ==
  /\ Spec
  /\ \A c \in Call : WF_vars(~Awaits(c) /\ CallStep(c)) /\ SF_vars(Lock(c))
  /\ WF_vars(~HolderAwaits /\ HolderStep)

(* RabbitMQ answers a dial and an RPC and takes what is written, or the    *)
(* connection ends.  It may still never confirm a message.                 *)
Answers == WF_vars(HolderStep) /\ \A c \in Call : WF_vars(CallStep(c))

-----------------------------------------------------------------------------
(* Every variable has its type. *)
TypeOK ==
  /\ CP!TypeOK
  /\ mutex \in User \cup CP!Conn \cup {None}
  /\ pc \in [User -> {"idle", "called", "connected", "opened", "ready", "waiting",
                      "consuming", "closing", "leaving", "done"}]
  /\ \A c \in Call : pc[c] # "consuming"
  /\ pc[Consumer] \notin {"opened", "ready", "waiting", "done"}
  /\ chan \in [User -> (1..dials) \cup {None}]
  /\ wire \in [Call -> {"none", "sent", "acked", "nacked", "over"}]
  /\ copies \in [Call -> Nat]
  /\ result \in [Call -> {"none", "ok", "error"}]

(* A channel is open only on the live connection that its user holds.  The *)
(* next user of a connection finds no channel on it, and a call that has   *)
(* returned leaves neither, though nobody closes the channel that could    *)
(* not be put into confirm mode.                                           *)
ChannelsClosedFirst ==
  \A u \in User :
    /\ chan[u] # None => chan[u] = held[u] /\ held[u] \in open
    /\ held[u] = None <=> pc[u] \in {"idle", "called", "done"}

(* The connection of a call that failed never serves another one, and that *)
(* of a call that succeeded goes back to the pool if it is alive.          *)
GivenBackByResult ==
  [][\A c \in Call : held[c] # None /\ held'[c] = None
        => (held[c] \in open /\ result[c] = "ok") = (held[c] \in CP!Pooled')]_vars

(* A call returns nil only for a message that is stored, once, or that no  *)
(* queue was bound for, however connections and confirms are lost or late: *)
(* Publishing implements Publication.                                      *)
status == [c \in Call |-> IF pc[c] = "idle" THEN "idle"
                          ELSE IF pc[c] = "done" THEN result[c] ELSE "pending"]
PB == INSTANCE Publication WITH stored <- copies
ImplementsPublication == PB!Spec

(* A call that does not return is stuck at RabbitMQ: in a dial, a write or *)
(* an RPC of its own, or waiting for connectionsMutex while its holder is. *)
(* It never waits for ever for a confirm, or for the mutex alone.          *)
StuckOnlyAtRabbitMQ ==
  \A c \in Call : []<>(pc[c] \in {"idle", "done"} \/ Awaits(c) \/ HolderAwaits)

(* If RabbitMQ answers what has no timeout, every call returns, also when  *)
(* no confirm ever comes.                                                  *)
CallsReturn == Answers => \A c \in Call : pc[c] = "called" ~> pc[c] = "done"
=============================================================================
