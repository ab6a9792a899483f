--------------------------- MODULE ConnectionPool ---------------------------
(***************************************************************************)
(* The pool of RabbitMQ connections of amqpProvider.  Its users are the    *)
(* goroutines that publish, set up queues or consume: each takes a         *)
(* connection, works with it, and releases or discards it.  Connections    *)
(* die at any time, and a goroutine per watched connection replaces a dead *)
(* one in the pool.  Every operation holds connectionsMutex to its end, so *)
(* each is one action; what happens between two of them is the dying of    *)
(* connections and the progress of the watching goroutines.                *)
(***************************************************************************)
EXTENDS Integers, Sequences, FiniteSets

CONSTANTS
  User,         \* the goroutines that take connections
  PoolSize,     \* ConnectionPoolSize
  MaxDials,     \* bound of the model: the connections dialled successfully
  None          \* no connection

ASSUME SizeAssumption == PoolSize \in Nat /\ PoolSize >= 1 /\ MaxDials \in Nat
ASSUME NoneAssumption == None \notin 1..MaxDials

(* Connections are numbered in the order of their dials. *)
Conn == 1..MaxDials

VARIABLES
  pool,     \* ap.ConnectionPool
  dials,    \* how many connections have been dialled
  open,     \* the connections that are not closed
  held,     \* held[u]: the connection u took from the pool
  watch     \* watch[c]: the goroutine of watchConnection(c)

vars == <<pool, dials, open, held, watch>>

Pooled == {pool[i] : i \in DOMAIN pool}
Held == {held[u] : u \in User} \ {None}
New(k) == (dials + 1)..(dials + k)

(* The goroutine is started before it has called NotifyClose. *)
Watch(C) == [c \in Conn |-> IF c \in C THEN "spawned" ELSE watch[c]]

-----------------------------------------------------------------------------
(* GetConnectionFromPool.                                                  *)

(* A mutant: the connection goes to the end of the pool when it is taken.  *)
GetOpenRotating(u) ==
  /\ held[u] = None /\ pool # <<>> /\ Head(pool) \in open
  /\ pool' = Append(Tail(pool), Head(pool))
  /\ held' = [held EXCEPT ![u] = Head(pool)]
  /\ UNCHANGED <<dials, open, watch>>

GetOpen(u) ==
  /\ held[u] = None /\ pool # <<>> /\ Head(pool) \in open
  /\ pool' = Tail(pool)
  /\ held' = [held EXCEPT ![u] = Head(pool)]
  /\ UNCHANGED <<dials, open, watch>>

(* A closed connection is replaced, or its slot is lost with the error. *)
GetClosed(u) ==
  /\ held[u] = None /\ pool # <<>> /\ Head(pool) \notin open
  /\ pool' = Tail(pool)
  /\ \/ /\ dials < MaxDials
        /\ dials' = dials + 1
        /\ open' = open \cup {dials + 1}
        /\ held' = [held EXCEPT ![u] = dials + 1]
        /\ watch' = Watch({dials + 1})
     \/ UNCHANGED <<dials, open, held, watch>>

(* Mutants of GetRefilled: a failed refill leaves its connections open; the *)
(* new slice is made with poolSize entries, and the connections are        *)
(* appended after the nil ones.                                            *)
RefillWithoutCleanup(u) ==
  /\ held[u] = None /\ pool = <<>>
  /\ \E k \in 0..(PoolSize - 1) :
       /\ dials + k <= MaxDials
       /\ dials' = dials + k
       /\ open' = open \cup New(k)
       /\ UNCHANGED <<pool, held, watch>>

RefillAfterNil(u) ==
  /\ held[u] = None /\ pool = <<>> /\ dials + PoolSize < MaxDials
  /\ dials' = dials + PoolSize + 1
  /\ open' = open \cup New(PoolSize + 1)
  /\ pool' = [i \in 1..(2 * PoolSize - 1) |->
                IF i < PoolSize THEN None ELSE dials + 1 + i - PoolSize]
  /\ held' = [held EXCEPT ![u] = dials + PoolSize + 1]
  /\ watch' = Watch(New(PoolSize + 1))

(* refillConnectionPool, and then the first of the new connections is      *)
(* taken.  When a dial fails the k connections already made are closed.    *)
GetRefilled(u) ==
  /\ held[u] = None /\ pool = <<>>
  /\ \/ /\ dials + PoolSize <= MaxDials
        /\ dials' = dials + PoolSize
        /\ open' = open \cup New(PoolSize)
        /\ pool' = [i \in 1..(PoolSize - 1) |-> dials + 1 + i]
        /\ held' = [held EXCEPT ![u] = dials + 1]
        /\ watch' = Watch(New(PoolSize))
     \/ \E k \in 0..(PoolSize - 1) :
          /\ dials + k <= MaxDials
          /\ dials' = dials + k
          /\ UNCHANGED <<open, pool, held, watch>>

-----------------------------------------------------------------------------
(* Giving a connection back.                                               *)

(* ReleaseConnectionToPool.  For a closed connection a new one goes to the *)
(* pool, but watchConnection gets the closed one and ends at once.         *)
ReleaseConnectionToPool(u) ==
  /\ held[u] # None
  /\ held' = [held EXCEPT ![u] = None]
  /\ \/ /\ held[u] \in open
        /\ pool' = Append(pool, held[u])
        /\ UNCHANGED <<dials, open>>
     \/ /\ held[u] \notin open /\ dials < MaxDials
        /\ dials' = dials + 1
        /\ open' = open \cup {dials + 1}
        /\ pool' = Append(pool, dials + 1)
     \/ held[u] \notin open /\ UNCHANGED <<pool, dials, open>>
  /\ UNCHANGED watch

(* AmqpPublishWithConfirm discards a connection it had an error on.  A     *)
(* close by the client makes NotifyClose deliver no error.                 *)
DiscardConnection(u) ==
  /\ held[u] # None
  /\ held' = [held EXCEPT ![u] = None]
  /\ open' = open \ {held[u]}
  /\ watch' = [watch EXCEPT ![held[u]] = IF @ = "fired" THEN @ ELSE "none"]
  /\ UNCHANGED <<pool, dials>>

-----------------------------------------------------------------------------
(* Watching.                                                               *)

(* The goroutine calls NotifyClose, which on a closed connection delivers  *)
(* no error.                                                               *)
WatchConnection(c) ==
  /\ watch[c] = "spawned"
  /\ watch' = [watch EXCEPT ![c] = IF c \in open THEN "armed" ELSE "none"]
  /\ UNCHANGED <<pool, dials, open, held>>

(* RabbitMQ or the network ends a connection. *)
ConnectionDies(c) ==
  /\ c \in open
  /\ open' = open \ {c}
  /\ watch' = [watch EXCEPT ![c] = IF @ = "armed" THEN "fired" ELSE @]
  /\ UNCHANGED <<pool, dials, held>>

(* Mutants of replaceDeadConnection: the new connection is appended; a      *)
(* connection that is not in the pool is put there.                        *)
ReplaceAtTheEnd(c) ==
  /\ watch[c] = "fired" /\ c \in Pooled /\ dials < MaxDials
  /\ dials' = dials + 1
  /\ open' = open \cup {dials + 1}
  /\ pool' = Append(pool, dials + 1)
  /\ watch' = [Watch({dials + 1}) EXCEPT ![c] = "none"]
  /\ UNCHANGED held

KeepTheDead(c) ==
  /\ watch[c] = "fired" /\ c \notin Pooled
  /\ pool' = Append(pool, c)
  /\ watch' = [watch EXCEPT ![c] = "none"]
  /\ UNCHANGED <<dials, open, held>>

replaceDeadConnection(c) ==
  /\ watch[c] = "fired"
  /\ \/ /\ c \in Pooled /\ dials < MaxDials
        /\ dials' = dials + 1
        /\ open' = open \cup {dials + 1}
        /\ pool' = [i \in DOMAIN pool |-> IF pool[i] = c THEN dials + 1 ELSE pool[i]]
        /\ watch' = [Watch({dials + 1}) EXCEPT ![c] = "none"]
     \/ /\ watch' = [watch EXCEPT ![c] = "none"]
        /\ UNCHANGED <<pool, dials, open>>
  /\ UNCHANGED held

-----------------------------------------------------------------------------
(* CreateConnectionPool; if it fails there is no provider. *)
Init ==
  /\ PoolSize <= MaxDials
  /\ pool = [i \in 1..PoolSize |-> i]
  /\ dials = PoolSize
  /\ open = 1..PoolSize
  /\ held = [u \in User |-> None]
  /\ watch = [c \in Conn |-> IF c <= PoolSize THEN "spawned" ELSE "none"]

GetConnectionFromPool(u) == GetOpen(u) \/ GetClosed(u) \/ GetRefilled(u)

Next ==
  \/ \E u \in User : \/ GetConnectionFromPool(u)
                     \/ ReleaseConnectionToPool(u) \/ DiscardConnection(u)
  \/ \E c \in Conn : WatchConnection(c) \/ ConnectionDies(c) \/ replaceDeadConnection(c)

Spec == Init /\ [][Next]_vars

-----------------------------------------------------------------------------
(* Every variable has its type, and only dialled connections are named.    *)
TypeOK ==
  /\ dials \in 0..MaxDials
  /\ pool \in Seq(1..dials)
  /\ open \subseteq 1..dials
  /\ held \in [User -> (1..dials) \cup {None}]
  /\ watch \in [Conn -> {"none", "spawned", "armed", "fired"}]

(* A connection has one user at a time: no connection is in the pool twice, *)
(* in the pool while somebody uses it, or in use by two goroutines.        *)
Exclusive ==
  /\ \A i, j \in DOMAIN pool : pool[i] = pool[j] => i = j
  /\ \A u, v \in User : held[u] = held[v] /\ held[u] # None => u = v
  /\ \A u \in User : held[u] \notin Pooled

(* No connection is left open that neither the pool nor a user knows of,   *)
(* whatever dials fail and connections die.                                *)
NoLeak == open \subseteq Pooled \cup Held

(* The refill of an empty pool does not grow it without bound: at most one *)
(* connection per other user comes on top of PoolSize.                     *)
ConnectionsBounded ==
  Len(pool) + Cardinality(Held) <= PoolSize + Cardinality(User) - 1

(* A connection that was discarded, lost in a failed call or closed after  *)
(* a failed refill never comes back, however late its watching goroutine   *)
(* runs.                                                                   *)
GoneStaysGone ==
  [][\A c \in (1..dials) \ (Pooled \cup Held) : c \notin Pooled' \cup Held']_vars

-----------------------------------------------------------------------------
(* What the documentation says.                                            *)

(* Every open connection in the pool has a goroutine that replaces it when *)
(* it dies (the comments of CreateConnectionPool and refillConnectionPool, *)
(* amqp.go:305 and 432: after the pool assignment the watchers start).     *)
PooledAreWatched == \A c \in Pooled \cap open : watch[c] # "none"
=============================================================================
