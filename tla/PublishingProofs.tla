-------------------------- MODULE PublishingProofs --------------------------
(* Proofs about Publishing, for any number of calls and any pool size.  The *)
(* pool's part is ConnectionPoolProofs': every step of Publishing is a step *)
(* of the pool or leaves it alone.                                         *)
EXTENDS Publishing, TLAPS

PP == INSTANCE ConnectionPoolProofs

USE ConsumerAssumption, UnroutableAssumption

-----------------------------------------------------------------------------
(* The steps of the pool.                                                  *)

(* Two instances of one module agree. *)
LEMMA SamePool ==
  /\ UNCHANGED poolVars => UNCHANGED PP!vars
  /\ CP!Init => PP!Init
  /\ \A u \in User : /\ CP!GetConnectionFromPool(u) => PP!GetConnectionFromPool(u)
                     /\ CP!ReleaseConnectionToPool(u) => PP!ReleaseConnectionToPool(u)
                     /\ CP!DiscardConnection(u) => PP!DiscardConnection(u)
  /\ CP!Conn = PP!Conn
  /\ \A x \in PP!Conn : /\ CP!WatchConnection(x) => PP!WatchConnection(x)
                        /\ CP!ConnectionDies(x) => PP!ConnectionDies(x)
                        /\ CP!replaceDeadConnection(x) => PP!replaceDeadConnection(x)
<1>1. UNCHANGED poolVars => UNCHANGED PP!vars
  BY DEF PP!vars, poolVars
<1>2. CP!Init => PP!Init
  BY DEF CP!Init, PP!Init, CP!Conn, PP!Conn
<1>3. ASSUME NEW u \in User
      PROVE  CP!GetConnectionFromPool(u) => PP!GetConnectionFromPool(u)
  <2>1. CP!GetOpen(u) => PP!GetOpen(u)
    BY DEF CP!GetOpen, PP!GetOpen
  <2>2. CP!GetClosed(u) => PP!GetClosed(u)
    BY DEF CP!GetClosed, PP!GetClosed, CP!Watch, PP!Watch, CP!Conn, PP!Conn
  <2>3. CP!GetRefilled(u) => PP!GetRefilled(u)
    BY DEF CP!GetRefilled, PP!GetRefilled, CP!Watch, PP!Watch, CP!Conn, PP!Conn,
           CP!New, PP!New
  <2> QED
    BY <2>1, <2>2, <2>3 DEF CP!GetConnectionFromPool, PP!GetConnectionFromPool
<1>4. \A u \in User : /\ CP!ReleaseConnectionToPool(u) => PP!ReleaseConnectionToPool(u)
                      /\ CP!DiscardConnection(u) => PP!DiscardConnection(u)
  BY DEF CP!ReleaseConnectionToPool, PP!ReleaseConnectionToPool,
         CP!DiscardConnection, PP!DiscardConnection
<1>5. CP!Conn = PP!Conn
  BY DEF CP!Conn, PP!Conn
<1>6. \A x \in PP!Conn : /\ CP!WatchConnection(x) => PP!WatchConnection(x)
                         /\ CP!ConnectionDies(x) => PP!ConnectionDies(x)
  BY DEF CP!WatchConnection, PP!WatchConnection, CP!ConnectionDies, PP!ConnectionDies
<1>7. \A x \in PP!Conn : CP!replaceDeadConnection(x) => PP!replaceDeadConnection(x)
  BY DEF CP!replaceDeadConnection, PP!replaceDeadConnection, CP!Watch, PP!Watch,
         CP!Conn, PP!Conn, CP!Pooled, PP!Pooled
<1> QED
  BY <1>1, <1>2, <1>3, <1>4, <1>5, <1>6, <1>7

(* A step of Publishing is a step of the pool, or none. *)
LEMMA PoolStep == [Next]_vars => [PP!Next]_(PP!vars)
<1> SUFFICES ASSUME [Next]_vars
             PROVE  PP!Next \/ UNCHANGED PP!vars
  OBVIOUS
<1> USE SamePool
<1>1. ASSUME NEW u \in User, GetConnection(u) \/ Release(u)
      PROVE  PP!Next
  BY <1>1 DEF GetConnection, Connected, Release, PP!Next
<1>2. ASSUME NEW c \in Call, Discard(c)
      PROVE  PP!Next
  BY <1>2 DEF Discard, PP!Next, User
<1>3. ASSUME NEW x \in CP!Conn, ConnectionDies(x) \/ Watch(x) \/ Replace(x)
      PROVE  PP!Next
  BY <1>3 DEF ConnectionDies, Watch, Replace, PP!Next
<1>4. ASSUME NEW u \in User,
             \/ Begin(u) \/ Lock(u) \/ OpenChannel(u) \/ OpenChannelFails(u)
             \/ CloseAmqpChannel(u) \/ ChannelCloses(u)
      PROVE  UNCHANGED poolVars
  BY <1>4 DEF Begin, Lock, OpenChannel, OpenChannelFails, CloseAmqpChannel, ChannelCloses,
     pooling
<1>5. ASSUME NEW c \in Call,
             \/ ConfirmMode(c) \/ PublishWithContext(c) \/ PublishFails(c)
             \/ Acked(c) \/ Nacked(c) \/ ConfirmChannelCloses(c) \/ ConfirmTimesOut(c)
             \/ BrokerStores(c) \/ BrokerDrops(c) \/ BrokerRefuses(c)
      PROVE  UNCHANGED poolVars
  BY <1>5 DEF ConfirmMode, PublishWithContext, PublishFails, Acked, Nacked,
     ConfirmChannelCloses, ConfirmTimesOut, StopsWaiting, BrokerStores, BrokerDrops,
     BrokerRefuses, pooling
<1>6. /\ ConsumerReturns \/ UNCHANGED vars => UNCHANGED poolVars
      /\ \A x \in CP!Conn : LockToReplace(x) => UNCHANGED poolVars
  BY DEF ConsumerReturns, LockToReplace, vars, pooling
<1>7. Consumer \in User /\ Call \subseteq User
  BY DEF User
<1>8. ASSUME NEW c \in Call, CallStep(c)
      PROVE  PP!Next \/ UNCHANGED PP!vars
  BY <1>1, <1>2, <1>4, <1>5, <1>7, <1>8 DEF CallStep
<1>9. ASSUME ConsumerStep
      PROVE  PP!Next \/ UNCHANGED PP!vars
  BY <1>1, <1>4, <1>6, <1>7, <1>9 DEF ConsumerStep
<1> QED
  BY <1>1, <1>3, <1>4, <1>5, <1>6, <1>7, <1>8, <1>9 DEF Next

-----------------------------------------------------------------------------
(* What the operations of the pool do to connections in use.               *)

(* The connections that users hold, typed and apart. *)
HeldOK ==
  /\ dials \in Nat
  /\ held \in [User -> (1..dials) \cup {None}]
  /\ \A u, v \in User : held[u] = held[v] /\ held[u] # None => u = v

(* It is a part of the pool's inductive invariant. *)
LEMMA PoolHeld == (PP!IndInv => HeldOK) /\ (PP!IndInv' => HeldOK')
BY SizeAssumption DEF PP!IndInv, PP!PoolInv, PP!TypeOK, PP!Exclusive, HeldOK

(* A taken connection changes hands to its user only, and no operation but *)
(* Discard and the network closes one.                                     *)
LEMMA Takes ==
  ASSUME NEW u \in User, CP!GetConnectionFromPool(u), HeldOK
  PROVE  /\ held[u] = None /\ held' = [held EXCEPT ![u] = held'[u]]
         /\ open \subseteq open' /\ dials' \in Nat /\ dials <= dials'
<1> USE SizeAssumption DEF HeldOK
<1>1. CASE CP!GetOpen(u)
  BY <1>1 DEF CP!GetOpen
<1>2. CASE CP!GetClosed(u)
  BY <1>2 DEF CP!GetClosed
<1>3. CASE CP!GetRefilled(u)
  BY <1>3 DEF CP!GetRefilled
<1> QED
  BY <1>1, <1>2, <1>3 DEF CP!GetConnectionFromPool

(* A connection given back leaves its user; Discard closes it. *)
LEMMA Gives ==
  ASSUME NEW u \in User, HeldOK
  PROVE  /\ CP!ReleaseConnectionToPool(u) =>
              /\ held[u] # None /\ held' = [held EXCEPT ![u] = None]
              /\ open \subseteq open' /\ dials' \in Nat /\ dials <= dials'
         /\ CP!DiscardConnection(u) =>
              /\ held[u] # None /\ held' = [held EXCEPT ![u] = None]
              /\ open' = open \ {held[u]} /\ dials' = dials
BY SizeAssumption DEF HeldOK, CP!ReleaseConnectionToPool, CP!DiscardConnection

(* What happens to connections by themselves leaves their users alone. *)
LEMMA Watches ==
  ASSUME NEW x \in CP!Conn, HeldOK
  PROVE  /\ CP!WatchConnection(x) \/ CP!replaceDeadConnection(x) =>
              held' = held /\ open \subseteq open' /\ dials' \in Nat /\ dials <= dials'
         /\ CP!ConnectionDies(x) =>
              held' = held /\ open' = open \ {x} /\ dials' = dials
BY SizeAssumption
   DEF HeldOK, CP!WatchConnection, CP!replaceDeadConnection, CP!ConnectionDies

-----------------------------------------------------------------------------
(* The invariant.                                                          *)

(* TypeOK without the variables of the pool and its mutex. *)
LocalTypes ==
  /\ pc \in [User -> {"idle", "called", "connected", "opened", "ready", "waiting",
                      "consuming", "closing", "leaving", "done"}]
  /\ \A c \in Call : pc[c] # "consuming"
  /\ pc[Consumer] \notin {"opened", "ready", "waiting", "done"}
  /\ chan \in [User -> (1..dials) \cup {None}]
  /\ wire \in [Call -> {"none", "sent", "acked", "nacked", "over"}]
  /\ copies \in [Call -> Nat]
  /\ result \in [Call -> {"none", "ok", "error"}]

(* A connection that will be released has no channel: only a call that     *)
(* will discard its connection leaves with the channel open.               *)
ReleasedClean ==
  \A u \in User :
    pc[u] = "connected" \/ (pc[u] = "leaving" /\ (u \in Call => result[u] # "error"))
      => chan[u] = None

(* What RabbitMQ keeps of a message that it confirms. *)
Kept(c) == IF c \in Unroutable THEN 0 ELSE 1

(* A call waits for its answer until the answer is over; what it returns   *)
(* agrees with the answer, and the answer with what is stored.             *)
Outcomes ==
  \A c \in Call :
    /\ wire[c] # "none" => pc[c] \in {"waiting", "closing", "leaving", "done"}
    /\ wire[c] \in {"none", "sent", "nacked"} => copies[c] = 0
    /\ wire[c] = "acked" => copies[c] = Kept(c)
    /\ copies[c] <= Kept(c)
    /\ result[c] = "ok" => copies[c] = Kept(c) /\ wire[c] = "over"
    /\ pc[c] \in {"idle", "called", "connected", "opened", "ready", "waiting"} => result[c] = "none"
    /\ pc[c] \in {"closing", "leaving", "done"} => result[c] # "none"

CallInv == LocalTypes /\ ChannelsClosedFirst /\ ReleasedClean /\ Outcomes

(* The type of the mutex. *)
MutexOK == mutex \in User \cup CP!Conn \cup {None}

(* No call has begun. *)
LEMMA InitInv == Init => CallInv
BY SizeAssumption DEF Init, CP!Init, CallInv, LocalTypes, ChannelsClosedFirst, ReleasedClean,
                      Outcomes, Kept, User

(* Every step leaves the mutex alone, gives it to who locks it, or frees it. *)
LEMMA MutexStep == (Init => MutexOK) /\ (MutexOK /\ [Next]_vars => MutexOK')
<1>1. Init => MutexOK
  BY DEF Init, MutexOK
<1> SUFFICES ASSUME MutexOK, [Next]_vars
             PROVE  MutexOK'
  BY <1>1
<1> USE DEF MutexOK, pooling, CP!Conn
<1>2. Consumer \in User /\ Call \subseteq User
  BY DEF User
<1>3. ASSUME NEW u \in User,
             \/ Begin(u) \/ Lock(u) \/ GetConnection(u) \/ OpenChannel(u)
             \/ OpenChannelFails(u) \/ CloseAmqpChannel(u) \/ Release(u) \/ ChannelCloses(u)
      PROVE  MutexOK'
  BY <1>3 DEF Begin, Lock, GetConnection, OpenChannel, OpenChannelFails, CloseAmqpChannel,
     Release, ChannelCloses, Unlocks, User
<1>4. ASSUME NEW c \in Call,
             \/ ConfirmMode(c) \/ PublishWithContext(c) \/ PublishFails(c)
             \/ Acked(c) \/ Nacked(c) \/ ConfirmChannelCloses(c) \/ ConfirmTimesOut(c)
             \/ BrokerStores(c) \/ BrokerDrops(c) \/ BrokerRefuses(c) \/ Discard(c)
      PROVE  MutexOK'
  BY <1>4 DEF ConfirmMode, PublishWithContext, PublishFails, Acked, Nacked,
     ConfirmChannelCloses, ConfirmTimesOut, StopsWaiting, BrokerStores, BrokerDrops,
     BrokerRefuses, Discard, Unlocks, User
<1>5. ASSUME NEW x \in CP!Conn, ConnectionDies(x) \/ Watch(x) \/ LockToReplace(x) \/ Replace(x)
      PROVE  MutexOK'
  BY <1>5 DEF ConnectionDies, Watch, LockToReplace, Replace, Unlocks, User
<1>6. ConsumerReturns \/ UNCHANGED vars => MutexOK'
  BY DEF ConsumerReturns, vars, User
<1> HIDE DEF MutexOK
<1> QED
  BY <1>2, <1>3, <1>4, <1>5, <1>6 DEF Next, CallStep, ConsumerStep

-----------------------------------------------------------------------------
(* The steps.                                                              *)

(* Taking a connection. *)
LEMMA GetInv ==
  ASSUME CallInv, HeldOK, HeldOK', NEW u \in User, GetConnection(u)
  PROVE  CallInv'
<1> USE NoneAssumption DEF CallInv, HeldOK
<1>1. /\ held[u] = None /\ held' = [held EXCEPT ![u] = held'[u]]
      /\ open \subseteq open' /\ dials' \in Nat /\ dials <= dials'
  BY Takes DEF GetConnection, Connected
<1>2. pc[u] = "called" /\ chan' = chan /\ wire' = wire /\ copies' = copies
  BY DEF GetConnection, Connected, message
<1>3. \/ held'[u] # None /\ pc' = [pc EXCEPT ![u] = "connected"] /\ result' = result
      \/ /\ held'[u] = None /\ u \in Call /\ pc' = [pc EXCEPT ![u] = "done"]
         /\ result' = [result EXCEPT ![u] = "error"]
      \/ /\ held'[u] = None /\ u = Consumer /\ pc' = [pc EXCEPT ![u] = "idle"]
         /\ result' = result
  BY DEF GetConnection, Connected, Go, Returns, User
<1>4. LocalTypes'
  BY <1>1, <1>2, <1>3 DEF LocalTypes, User
<1>5. ChannelsClosedFirst'
  BY <1>1, <1>2, <1>3 DEF ChannelsClosedFirst, LocalTypes
<1>6. ReleasedClean'
  BY <1>1, <1>2, <1>3 DEF ReleasedClean, ChannelsClosedFirst, LocalTypes, User
<1>7. Outcomes'
  BY <1>2, <1>3 DEF Outcomes, LocalTypes, User
<1> QED
  BY <1>4, <1>5, <1>6, <1>7

(* A step that leaves the pool alone and moves one user at most. *)
LEMMA LocalInv ==
  ASSUME CallInv, HeldOK, UNCHANGED poolVars, NEW u \in User,
         \/ Begin(u) \/ Lock(u) \/ OpenChannel(u) \/ OpenChannelFails(u)
         \/ CloseAmqpChannel(u) \/ ChannelCloses(u) \/ (u = Consumer /\ ConsumerReturns)
  PROVE  CallInv'
<1> USE NoneAssumption DEF CallInv, HeldOK, poolVars, Go, Returns, message
<1>1. CASE OpenChannel(u)
  BY <1>1 DEF OpenChannel, LocalTypes, ChannelsClosedFirst, ReleasedClean, Outcomes, User
<1>2. CASE OpenChannelFails(u)
  BY <1>2 DEF OpenChannelFails, LocalTypes, ChannelsClosedFirst, ReleasedClean, Outcomes, User
<1>3. CASE CloseAmqpChannel(u)
  BY <1>3 DEF CloseAmqpChannel, LocalTypes, ChannelsClosedFirst, ReleasedClean, Outcomes, User
<1>4. CASE ChannelCloses(u)
  BY <1>4 DEF ChannelCloses, LocalTypes, ChannelsClosedFirst, ReleasedClean, Outcomes, User
<1>5. CASE u = Consumer /\ ConsumerReturns
  BY <1>5 DEF ConsumerReturns, LocalTypes, ChannelsClosedFirst, ReleasedClean, Outcomes, User
<1>6. CASE Begin(u)
  BY <1>6 DEF Begin, LocalTypes, ChannelsClosedFirst, ReleasedClean, Outcomes, User
<1>7. CASE Lock(u)
  BY <1>7 DEF Lock, LocalTypes, ChannelsClosedFirst, ReleasedClean, Outcomes
<1> QED
  BY <1>1, <1>2, <1>3, <1>4, <1>5, <1>6, <1>7

(* What a call does with its message, and RabbitMQ with it. *)
LEMMA MessageInv ==
  ASSUME CallInv, UNCHANGED poolVars, NEW c \in Call,
         \/ ConfirmMode(c) \/ PublishWithContext(c) \/ PublishFails(c)
         \/ Acked(c) \/ Nacked(c) \/ ConfirmChannelCloses(c) \/ ConfirmTimesOut(c)
         \/ BrokerStores(c) \/ BrokerDrops(c) \/ BrokerRefuses(c)
  PROVE  CallInv'
<1> USE NoneAssumption DEF CallInv, poolVars, Go, Returns, message
<1>1. CASE ConfirmMode(c)
  BY <1>1 DEF ConfirmMode, LocalTypes, ChannelsClosedFirst, ReleasedClean, Outcomes, User
<1>2. CASE PublishWithContext(c)
  BY <1>2 DEF PublishWithContext, LocalTypes, ChannelsClosedFirst, ReleasedClean, Outcomes, User
<1>3. CASE PublishFails(c)
  BY <1>3 DEF PublishFails, LocalTypes, ChannelsClosedFirst, ReleasedClean, Outcomes, User
<1>4. CASE Acked(c)
  BY <1>4 DEF Acked, StopsWaiting, LocalTypes, ChannelsClosedFirst, ReleasedClean, Outcomes, User
<1>5. CASE Nacked(c) \/ ConfirmChannelCloses(c) \/ ConfirmTimesOut(c)
  BY <1>5 DEF Nacked, ConfirmChannelCloses, ConfirmTimesOut, StopsWaiting, LocalTypes,
     ChannelsClosedFirst, ReleasedClean, Outcomes, User
<1>6. CASE BrokerStores(c)
  BY <1>6 DEF BrokerStores, Answered, LocalTypes, ChannelsClosedFirst, ReleasedClean, Outcomes,
     Kept, User
<1>7. CASE BrokerRefuses(c)
  BY <1>7 DEF BrokerRefuses, Answered, LocalTypes, ChannelsClosedFirst, ReleasedClean, Outcomes,
     Kept, User
<1>8. CASE BrokerDrops(c)
  BY <1>8 DEF BrokerDrops, Answered, LocalTypes, ChannelsClosedFirst, ReleasedClean, Outcomes,
     Kept, User
<1> QED
  BY <1>1, <1>2, <1>3, <1>4, <1>5, <1>6, <1>7, <1>8

(* Giving a connection back: to the pool, when no channel is on it, or by  *)
(* closing it, and no other user has a channel there.                      *)
LEMMA LeaveInv ==
  ASSUME CallInv, HeldOK, NEW u \in User, Release(u) \/ (u \in Call /\ Discard(u))
  PROVE  CallInv'
<1> USE NoneAssumption DEF CallInv, HeldOK
<1>1. CASE Release(u)
  <2>1. /\ held[u] # None /\ held' = [held EXCEPT ![u] = None]
        /\ open \subseteq open' /\ dials' \in Nat /\ dials <= dials'
    BY <1>1, Gives DEF Release
  <2>2. /\ pc[u] = "leaving" /\ (u \in Call => result[u] = "ok")
        /\ chan' = chan /\ wire' = wire /\ copies' = copies /\ result' = result
        /\ pc' = [pc EXCEPT ![u] = IF u \in Call THEN "done" ELSE "idle"]
    BY <1>1 DEF Release, Left, Go, message
  <2>3. chan[u] = None
    BY <2>2 DEF ReleasedClean
  <2>4. LocalTypes' /\ ReleasedClean' /\ Outcomes'
    BY <2>1, <2>2, <2>3 DEF LocalTypes, ReleasedClean, Outcomes, User
  <2>5. ChannelsClosedFirst'
    BY <2>1, <2>2, <2>3 DEF LocalTypes, ChannelsClosedFirst
  <2> QED
    BY <2>4, <2>5
<1>2. CASE u \in Call /\ Discard(u)
  <2>1. /\ held[u] # None /\ held' = [held EXCEPT ![u] = None]
        /\ open' = open \ {held[u]} /\ dials' = dials
    BY <1>2, Gives DEF Discard
  <2>2. /\ pc[u] = "leaving" /\ result[u] = "error"
        /\ chan' = [chan EXCEPT ![u] = None]
        /\ wire' = wire /\ copies' = copies /\ result' = result
        /\ pc' = [pc EXCEPT ![u] = "done"]
    BY <1>2 DEF Discard, Left, Go, message
  <2>3. LocalTypes' /\ ReleasedClean' /\ Outcomes'
    BY <1>2, <2>1, <2>2 DEF LocalTypes, ReleasedClean, Outcomes, User
  <2>4. ChannelsClosedFirst'
    BY <2>1, <2>2 DEF LocalTypes, ChannelsClosedFirst
  <2> QED
    BY <2>3, <2>4
<1> QED
  BY <1>1, <1>2

(* A connection dies with its channels, and the pool replaces it. *)
LEMMA NetworkInv ==
  ASSUME CallInv, HeldOK, NEW x \in CP!Conn, ConnectionDies(x) \/ Watch(x) \/ Replace(x)
  PROVE  CallInv'
<1> USE NoneAssumption DEF CallInv, HeldOK
<1>1. CASE ConnectionDies(x)
  <2>1. held' = held /\ open' = open \ {x} /\ dials' = dials
    BY <1>1, Watches DEF ConnectionDies
  <2>2. /\ chan' = [u \in User |-> IF chan[u] = x THEN None ELSE chan[u]]
        /\ UNCHANGED <<pc, wire, copies, result>>
    BY <1>1 DEF ConnectionDies, message
  <2> QED
    BY <2>1, <2>2 DEF LocalTypes, ChannelsClosedFirst, ReleasedClean, Outcomes
<1>2. CASE Watch(x) \/ Replace(x)
  <2>1. held' = held /\ open \subseteq open' /\ dials' \in Nat /\ dials <= dials'
    BY <1>2, Watches DEF Watch, Replace
  <2>2. UNCHANGED <<pc, chan, wire, copies, result>>
    BY <1>2 DEF Watch, Replace, message
  <2> QED
    BY <2>1, <2>2 DEF LocalTypes, ChannelsClosedFirst, ReleasedClean, Outcomes
<1> QED
  BY <1>1, <1>2

(* Every step preserves the invariant. *)
LEMMA StepInv == CallInv /\ HeldOK /\ HeldOK' /\ [Next]_vars => CallInv'
<1> SUFFICES ASSUME CallInv, HeldOK, HeldOK', [Next]_vars
             PROVE  CallInv'
  OBVIOUS
<1>1. ASSUME NEW u \in User, GetConnection(u)
      PROVE  CallInv'
  BY ONLY <1>1, GetInv, CallInv, HeldOK, HeldOK'
<1>2. ASSUME NEW u \in User, Release(u) \/ (u \in Call /\ Discard(u))
      PROVE  CallInv'
  BY ONLY <1>2, LeaveInv, CallInv, HeldOK
<1>3. ASSUME NEW x \in CP!Conn, ConnectionDies(x) \/ Watch(x) \/ Replace(x)
      PROVE  CallInv'
  BY ONLY <1>3, NetworkInv, CallInv, HeldOK
<1>4. ASSUME NEW u \in User,
             \/ Begin(u) \/ Lock(u) \/ OpenChannel(u) \/ OpenChannelFails(u)
             \/ CloseAmqpChannel(u) \/ ChannelCloses(u) \/ (u = Consumer /\ ConsumerReturns)
      PROVE  CallInv'
  <2>1. UNCHANGED poolVars
    BY <1>4 DEF Begin, Lock, OpenChannel, OpenChannelFails, CloseAmqpChannel, ChannelCloses,
       ConsumerReturns, pooling
  <2> QED
    BY ONLY <1>4, <2>1, LocalInv, CallInv, HeldOK
<1>5. ASSUME NEW c \in Call,
             \/ ConfirmMode(c) \/ PublishWithContext(c) \/ PublishFails(c)
             \/ Acked(c) \/ Nacked(c) \/ ConfirmChannelCloses(c) \/ ConfirmTimesOut(c)
             \/ BrokerStores(c) \/ BrokerDrops(c) \/ BrokerRefuses(c)
      PROVE  CallInv'
  <2>1. UNCHANGED poolVars
    BY <1>5 DEF ConfirmMode, PublishWithContext, PublishFails, Acked, Nacked,
       ConfirmChannelCloses, ConfirmTimesOut, StopsWaiting, BrokerStores, BrokerDrops,
       BrokerRefuses, pooling
  <2> QED
    BY ONLY <1>5, <2>1, MessageInv, CallInv
<1>6. Consumer \in User /\ Call \subseteq User
  BY DEF User
<1>7. ASSUME NEW c \in Call, CallStep(c)
      PROVE  CallInv'
  BY ONLY <1>1, <1>2, <1>4, <1>5, <1>6, <1>7 DEF CallStep
<1>8. ASSUME ConsumerStep
      PROVE  CallInv'
  BY ONLY <1>1, <1>2, <1>4, <1>6, <1>8 DEF ConsumerStep
<1>9. CASE UNCHANGED vars \/ \E x \in CP!Conn : LockToReplace(x)
  BY <1>9 DEF LockToReplace, vars, pooling, poolVars, message, CallInv, LocalTypes,
     ChannelsClosedFirst, ReleasedClean, Outcomes
<1> QED
  BY <1>1, <1>3, <1>4, <1>5, <1>6, <1>7, <1>8, <1>9 DEF Next

(* The pool's invariant with the calls'. *)
Inv == PP!IndInv /\ CallInv /\ MutexOK

(* It holds in the initial states and every step preserves it. *)
LEMMA Inductive == (Init => Inv) /\ (Inv /\ [Next]_vars => Inv')
<1>1. ASSUME Init
      PROVE  Inv
  <2>1. PP!Init
    BY ONLY <1>1, SamePool DEF Init
  <2>2. PP!PoolInv /\ PP!FiredAreClosed
    BY ONLY <2>1, PP!InitInv, PP!InitFired, SizeAssumption, NoneAssumption
  <2>3. PP!IndInv
    BY ONLY <2>2 DEF PP!IndInv, PP!PoolInv
  <2> QED
    BY ONLY <1>1, <2>3, InitInv, MutexStep DEF Inv
<1>2. ASSUME Inv, [Next]_vars
      PROVE  Inv'
  <2>1. PP!IndInv /\ CallInv /\ MutexOK
    BY ONLY <1>2 DEF Inv
  <2>2. [PP!Next]_(PP!vars)
    BY ONLY <1>2, PoolStep
  <2>3. PP!IndInv'
    BY ONLY <2>1, <2>2, PP!StepInv, SizeAssumption, NoneAssumption
  <2>4. HeldOK /\ HeldOK'
    BY ONLY <2>1, <2>3, PoolHeld
  <2>5. CallInv'
    BY ONLY <1>2, <2>1, <2>4, StepInv
  <2>6. MutexOK'
    BY ONLY <1>2, <2>1, MutexStep
  <2> QED
    BY ONLY <2>3, <2>5, <2>6 DEF Inv
<1> QED
  BY <1>1, <1>2

(* It holds in every reachable state. *)
LEMMA Invariant == Spec => []Inv
BY Inductive, PTL DEF Spec

-----------------------------------------------------------------------------
(* The theorems.                                                           *)

(* Every variable of Publishing and of the pool below it has its type. *)
THEOREM TypesAreKept == Spec => []TypeOK
<1>1. PP!TypeOK => CP!TypeOK
  BY DEF PP!TypeOK, CP!TypeOK, PP!Conn, CP!Conn
<1>2. Inv => TypeOK
  BY <1>1 DEF Inv, PP!IndInv, CallInv, LocalTypes, MutexOK, TypeOK
<1> QED
  BY <1>2, Invariant, PTL

(* No user ever finds a channel of another one on its connection, and a    *)
(* call that has returned leaves no channel, whatever failed in it.        *)
THEOREM ChannelsAreClosedFirst == Spec => []ChannelsClosedFirst
<1>1. Inv => ChannelsClosedFirst
  BY DEF Inv, CallInv
<1> QED
  BY <1>1, Invariant, PTL

(* The goroutines that publish and consume leave no connection open that   *)
(* neither they nor the pool know of.                                      *)
THEOREM PublishingLeaksNothing == Spec => []CP!NoLeak
<1>1. PP!NoLeak => CP!NoLeak
  BY DEF PP!NoLeak, CP!NoLeak, PP!Pooled, CP!Pooled, PP!Held, CP!Held
<1>2. Inv => CP!NoLeak
  BY <1>1 DEF Inv, PP!IndInv
<1> QED
  BY <1>2, Invariant, PTL

(* How the calls stand when one of them has gone on. *)
LEMMA Moves ==
  ASSUME CallInv, NEW c \in Call, NEW l, NEW r, pc' = [pc EXCEPT ![c] = l],
         result' = [result EXCEPT ![c] = r]
  PROVE  status' = [status EXCEPT ![c] = IF l = "idle" THEN "idle"
                                         ELSE IF l = "done" THEN r ELSE "pending"]
BY DEF status, CallInv, LocalTypes, User

(* A call begins; that the consumer does concerns no call. *)
LEMMA BeginRefines ==
  ASSUME CallInv, NEW u \in User, Begin(u)
  PROVE  [PB!Next]_(PB!vars)
<1>1. /\ pc[u] = "idle" /\ pc' = [pc EXCEPT ![u] = "called"]
      /\ copies' = copies /\ result' = result
  BY DEF Begin, Go, message
<1>2. CASE u \in Call
  <2>1. pc' = [pc EXCEPT ![u] = "called"] /\ result' = [result EXCEPT ![u] = result[u]]
    BY <1>1 DEF CallInv, LocalTypes
  <2>2. status' = [status EXCEPT ![u] = "pending"]
    BY <1>2, <2>1, Moves
  <2> QED
    BY <1>1, <1>2, <2>2 DEF PB!Next, PB!Begin, status
<1>3. CASE u = Consumer
  <2>1. \A c \in Call : pc'[c] = pc[c]
    BY <1>1, <1>3 DEF CallInv, LocalTypes, User
  <2> QED
    BY <1>1, <2>1 DEF PB!vars, status
<1> QED
  BY <1>2, <1>3 DEF User

(* A call without a connection fails; one with a connection goes on. *)
LEMMA GetRefines ==
  ASSUME CallInv, NEW u \in User, GetConnection(u)
  PROVE  [PB!Next]_(PB!vars)
<1>1. pc[u] = "called" /\ copies' = copies
  BY DEF GetConnection, Connected, message
<1>2. CASE u \in Call /\ held'[u] # None
  <2>1. pc' = [pc EXCEPT ![u] = "connected"] /\ result' = result
    BY <1>2 DEF GetConnection, Connected, Go
  <2>2. status' = status
    BY <1>1, <1>2, <2>1 DEF status, CallInv, LocalTypes, User
  <2> QED
    BY <1>1, <2>2 DEF PB!vars
<1>3. CASE u \in Call /\ held'[u] = None
  <2>1. pc' = [pc EXCEPT ![u] = "done"] /\ result' = [result EXCEPT ![u] = "error"]
    BY <1>3 DEF GetConnection, Connected, Go, Returns
  <2>2. status' = [status EXCEPT ![u] = "error"]
    BY <1>3, <2>1, Moves
  <2> QED
    BY <1>1, <1>3, <2>2 DEF PB!Next, PB!Fail, status
<1>4. CASE u = Consumer
  <2>1. (\A c \in Call : pc'[c] = pc[c]) /\ result' = result
    BY <1>4 DEF GetConnection, Connected, Go, CallInv, LocalTypes, User
  <2> QED
    BY <1>1, <2>1 DEF PB!vars, status
<1> QED
  BY <1>2, <1>3, <1>4 DEF User

(* A call ends: nil only after its message is stored or dropped, an error  *)
(* otherwise.                                                              *)
LEMMA LeaveRefines ==
  ASSUME CallInv, NEW u \in User, Release(u) \/ (u \in Call /\ Discard(u))
  PROVE  [PB!Next]_(PB!vars)
<1>1. CASE u \in Call
  <2>1. /\ pc[u] = "leaving" /\ copies' = copies
        /\ pc' = [pc EXCEPT ![u] = "done"] /\ result' = [result EXCEPT ![u] = result[u]]
        /\ result[u] \in {"ok", "error"}
    BY <1>1 DEF Release, Discard, Left, Go, message, CallInv, LocalTypes
  <2>2. status' = [status EXCEPT ![u] = result[u]] /\ status[u] = "pending"
    BY <1>1, <2>1, Moves DEF status
  <2>3. CASE result[u] = "ok"
    <3>1. copies[u] = 1 \/ u \in Unroutable
      BY <1>1, <2>3 DEF CallInv, Outcomes, Kept
    <3> QED
      BY <1>1, <2>1, <2>2, <2>3, <3>1 DEF PB!Next, PB!Confirm
  <2>4. CASE result[u] = "error"
    BY <1>1, <2>1, <2>2, <2>4 DEF PB!Next, PB!Fail
  <2> QED
    BY <2>1, <2>3, <2>4
<1>2. CASE u \notin Call
  <2>1. (\A c \in Call : pc'[c] = pc[c]) /\ UNCHANGED <<copies, result>>
    BY <1>2 DEF Release, Left, Go, message, CallInv, LocalTypes, User
  <2> QED
    BY <2>1 DEF PB!vars, status
<1> QED
  BY <1>1, <1>2

(* RabbitMQ stores a message once, and never after a call returned nil     *)
(* without it.                                                             *)
LEMMA StoreRefines ==
  ASSUME CallInv, NEW c \in Call, BrokerStores(c)
  PROVE  [PB!Next]_(PB!vars)
<1>1. /\ wire[c] = "sent" /\ c \notin Unroutable
      /\ copies' = [copies EXCEPT ![c] = @ + 1] /\ UNCHANGED <<pc, result>>
  BY DEF BrokerStores
<1>2. copies[c] = 0 /\ status[c] \in {"pending", "error"}
  BY <1>1 DEF CallInv, LocalTypes, Outcomes, status
<1>3. status' = status
  BY <1>1 DEF status
<1>4. copies' = [copies EXCEPT ![c] = 1]
  BY <1>1, <1>2
<1> QED
  BY <1>1, <1>2, <1>3, <1>4 DEF PB!Next, PB!Store

(* What a call does between its beginning and its end is its own affair. *)
LEMMA InsideStutters ==
  ASSUME CallInv,
         \/ \E u \in User : \/ Lock(u) \/ OpenChannel(u) \/ OpenChannelFails(u)
                           \/ CloseAmqpChannel(u) \/ ChannelCloses(u)
         \/ \E c \in Call : \/ ConfirmMode(c) \/ PublishWithContext(c) \/ PublishFails(c)
                           \/ Acked(c) \/ Nacked(c) \/ ConfirmChannelCloses(c)
                           \/ ConfirmTimesOut(c) \/ BrokerDrops(c) \/ BrokerRefuses(c)
         \/ ConsumerReturns
         \/ \E x \in CP!Conn : ConnectionDies(x) \/ Watch(x) \/ LockToReplace(x) \/ Replace(x)
         \/ UNCHANGED vars
  PROVE  UNCHANGED PB!vars
<1> SUFFICES status' = status /\ copies' = copies
  BY DEF PB!vars
<1> USE DEF CallInv, LocalTypes, status, Go, Returns, message, User
<1>1. ASSUME NEW u \in User,
             \/ Lock(u) \/ OpenChannel(u) \/ OpenChannelFails(u) \/ CloseAmqpChannel(u)
             \/ ChannelCloses(u)
      PROVE  status' = status /\ copies' = copies
  BY <1>1 DEF Lock, OpenChannel, OpenChannelFails, CloseAmqpChannel, ChannelCloses
<1>2. ASSUME NEW c \in Call,
             \/ ConfirmMode(c) \/ PublishWithContext(c) \/ PublishFails(c)
             \/ BrokerDrops(c) \/ BrokerRefuses(c)
      PROVE  status' = status /\ copies' = copies
  BY <1>2 DEF ConfirmMode, PublishWithContext, PublishFails, BrokerDrops, BrokerRefuses
<1>3. ASSUME NEW c \in Call,
             Acked(c) \/ Nacked(c) \/ ConfirmChannelCloses(c) \/ ConfirmTimesOut(c)
      PROVE  status' = status /\ copies' = copies
  BY <1>3 DEF Acked, Nacked, ConfirmChannelCloses, ConfirmTimesOut, StopsWaiting
<1>4. CASE ConsumerReturns
  BY <1>4 DEF ConsumerReturns
<1>5. ASSUME NEW x \in CP!Conn, ConnectionDies(x) \/ Watch(x) \/ LockToReplace(x) \/ Replace(x)
      PROVE  status' = status /\ copies' = copies
  BY <1>5 DEF ConnectionDies, Watch, LockToReplace, Replace
<1>6. CASE UNCHANGED vars
  BY <1>6 DEF vars
<1> QED
  BY <1>1, <1>2, <1>3, <1>4, <1>5, <1>6

(* A call that returns nil has its message stored unless no queue was      *)
(* bound for it, no call stores two, and a call that fails promises        *)
(* nothing: AmqpPublishWithConfirm keeps what Publication states, for any  *)
(* number of calls, whatever RabbitMQ and the network do.                  *)
THEOREM PublishingImplementsPublication == Spec => ImplementsPublication
<1>1. Init => PB!Init
  BY DEF Init, PB!Init, status, User
<1>2. ASSUME Inv, [Next]_vars
      PROVE  [PB!Next]_(PB!vars)
  <2>1. CallInv /\ Consumer \in User /\ Call \subseteq User
    BY <1>2 DEF Inv, User
  <2>2. CASE \E u \in User : GetConnection(u)
    BY ONLY <2>1, <2>2, GetRefines
  <2>3. CASE \E u \in User : Release(u) \/ (u \in Call /\ Discard(u))
    BY ONLY <2>1, <2>3, LeaveRefines
  <2>4. CASE \E c \in Call : BrokerStores(c)
    BY ONLY <2>1, <2>4, StoreRefines
  <2>5. CASE \/ \E u \in User : \/ Lock(u) \/ OpenChannel(u) \/ OpenChannelFails(u)
                               \/ CloseAmqpChannel(u) \/ ChannelCloses(u)
             \/ \E c \in Call : \/ ConfirmMode(c) \/ PublishWithContext(c) \/ PublishFails(c)
                               \/ Acked(c) \/ Nacked(c) \/ ConfirmChannelCloses(c)
                               \/ ConfirmTimesOut(c) \/ BrokerDrops(c) \/ BrokerRefuses(c)
             \/ ConsumerReturns
             \/ \E x \in CP!Conn : \/ ConnectionDies(x) \/ Watch(x) \/ LockToReplace(x)
                                  \/ Replace(x)
             \/ UNCHANGED vars
    BY ONLY <2>1, <2>5, InsideStutters
  <2>8. CASE \E u \in User : Begin(u)
    BY ONLY <2>1, <2>8, BeginRefines
  <2>6. ASSUME NEW c \in Call, CallStep(c)
        PROVE  [PB!Next]_(PB!vars)
    BY ONLY <2>1, <2>2, <2>3, <2>5, <2>6 DEF CallStep
  <2>7. ASSUME ConsumerStep
        PROVE  [PB!Next]_(PB!vars)
    BY ONLY <2>1, <2>2, <2>3, <2>5, <2>7, <2>8 DEF ConsumerStep
  <2> QED
    BY ONLY <1>2, <2>1, <2>4, <2>5, <2>6, <2>7, <2>8 DEF Next
<1> QED
  BY <1>1, <1>2, Invariant, PTL DEF Spec, ImplementsPublication, PB!Spec

-----------------------------------------------------------------------------
(* What becomes of a connection that is given back.                        *)

(* A connection in use is not in the pool. *)
LEMMA InUse ==
  ASSUME PP!IndInv, NEW u \in User, held[u] # None
  PROVE  /\ dials \in Nat /\ pool \in Seq(Nat) /\ held[u] \in 1..dials
         /\ held[u] \notin CP!Pooled
<1>1. dials \in Nat /\ pool \in Seq(1..dials) /\ held[u] \in 1..dials
  BY SizeAssumption DEF PP!IndInv, PP!TypeOK
<1>2. pool \in Seq(Nat)
  BY <1>1
<1>3. held[u] \notin CP!Pooled
  BY DEF PP!IndInv, PP!Exclusive, PP!Pooled, CP!Pooled
<1> QED
  BY <1>1, <1>2, <1>3

(* What is in the pool after something is put at its end. *)
LEMMA Appended ==
  ASSUME NEW s \in Seq(Nat), NEW n \in Nat, NEW x
  PROVE  LET t == Append(s, n)
         IN  x \in {t[i] : i \in DOMAIN t} <=> x = n \/ x \in {s[i] : i \in DOMAIN s}
<1> DEFINE t == Append(s, n)
<1>1. /\ Len(s) \in Nat /\ DOMAIN s = 1..Len(s) /\ DOMAIN t = 1..(Len(s) + 1)
      /\ t[Len(s) + 1] = n /\ \A i \in 1..Len(s) : t[i] = s[i]
  OBVIOUS
<1> HIDE DEF t
<1>2. \A i \in 1..(Len(s) + 1) : i = Len(s) + 1 \/ i \in 1..Len(s)
  BY <1>1
<1>3. Len(s) + 1 \in 1..(Len(s) + 1) /\ 1..Len(s) \subseteq 1..(Len(s) + 1)
  BY <1>1
<1>4. x \in {t[i] : i \in DOMAIN t} <=> x = n \/ x \in {s[i] : i \in DOMAIN s}
  BY <1>1, <1>2, <1>3
<1> QED
  BY <1>4 DEF t

(* A released connection goes to the pool if it is alive, and never if it  *)
(* is closed: what replaces it is a new one.                               *)
LEMMA Released ==
  ASSUME PP!IndInv, NEW u \in User, CP!ReleaseConnectionToPool(u)
  PROVE  held[u] \in open <=> held[u] \in CP!Pooled'
<1>1. held[u] # None
  BY DEF CP!ReleaseConnectionToPool
<1>2. dials \in Nat /\ pool \in Seq(Nat) /\ held[u] \in 1..dials /\ held[u] \notin CP!Pooled
  BY <1>1, InUse
<1>3. CASE held[u] \in open /\ pool' = Append(pool, held[u])
  BY ONLY <1>2, <1>3, Appended DEF CP!Pooled
<1>4. CASE held[u] \notin open /\ pool' = Append(pool, dials + 1)
  <2>1. dials + 1 \in Nat /\ held[u] # dials + 1
    BY <1>2
  <2> QED
    BY ONLY <1>2, <1>4, <2>1, Appended DEF CP!Pooled
<1>5. CASE held[u] \notin open /\ pool' = pool
  BY <1>2, <1>5 DEF CP!Pooled
<1> QED
  BY <1>3, <1>4, <1>5 DEF CP!ReleaseConnectionToPool

(* publishHadError decides: after an error the connection never serves     *)
(* another call, after a success it goes back if it is alive.              *)
THEOREM ConnectionsFollowResults == Spec => GivenBackByResult
<1>1. ASSUME Inv, [Next]_vars, NEW c \in Call, held[c] # None, held'[c] = None
      PROVE  (held[c] \in open /\ result[c] = "ok") = (held[c] \in CP!Pooled')
  <2>1. PP!IndInv /\ CallInv /\ HeldOK /\ Consumer \in User /\ Call \subseteq User
    BY <1>1, PoolHeld DEF Inv, User
  <2>2. ASSUME NEW u \in User,
               held' = [held EXCEPT ![u] = None] \/ held' = [held EXCEPT ![u] = held'[u]]
        PROVE  u = c
    BY <1>1, <2>1, <2>2 DEF HeldOK
  <2>3. held' # held
    BY <1>1
  <2>4. ASSUME NEW u \in User, GetConnection(u)
        PROVE  FALSE
    BY <1>1, <2>1, <2>2, <2>4, Takes DEF GetConnection, Connected
  <2>5. ASSUME NEW u \in User, Release(u)
        PROVE  (held[c] \in open /\ result[c] = "ok") = (held[c] \in CP!Pooled')
    <3>1. u = c
      BY <2>1, <2>2, <2>5, Gives DEF Release
    <3>2. result[c] = "ok" /\ CP!ReleaseConnectionToPool(c)
      BY <2>5, <3>1 DEF Release
    <3> QED
      BY <2>1, <3>2, Released
  <2>6. ASSUME NEW u \in Call, Discard(u)
        PROVE  (held[c] \in open /\ result[c] = "ok") = (held[c] \in CP!Pooled')
    <3>1. u = c
      BY <2>1, <2>2, <2>6, Gives DEF Discard
    <3>2. result[c] = "error" /\ pool' = pool
      BY <2>6, <3>1 DEF Discard, CP!DiscardConnection
    <3>3. held[c] \notin CP!Pooled
      BY <1>1, <2>1, InUse
    <3> QED
      BY <3>2, <3>3 DEF CP!Pooled
  <2>7. ASSUME NEW x \in CP!Conn, ConnectionDies(x) \/ Watch(x) \/ Replace(x)
        PROVE  FALSE
    BY <2>1, <2>3, <2>7, Watches DEF ConnectionDies, Watch, Replace
  <2>8. ASSUME UNCHANGED poolVars
        PROVE  FALSE
    BY <2>3, <2>8 DEF poolVars
  <2>9. ASSUME NEW u \in User,
               \/ Begin(u) \/ Lock(u) \/ OpenChannel(u) \/ OpenChannelFails(u)
               \/ CloseAmqpChannel(u) \/ ChannelCloses(u) \/ ConsumerReturns
        PROVE  FALSE
    BY <2>8, <2>9 DEF Begin, Lock, OpenChannel, OpenChannelFails, CloseAmqpChannel,
       ChannelCloses, ConsumerReturns, pooling
  <2>10. ASSUME NEW u \in Call,
               \/ ConfirmMode(u) \/ PublishWithContext(u) \/ PublishFails(u)
               \/ Acked(u) \/ Nacked(u) \/ ConfirmChannelCloses(u) \/ ConfirmTimesOut(u)
               \/ BrokerStores(u) \/ BrokerDrops(u) \/ BrokerRefuses(u)
         PROVE  FALSE
    BY <2>8, <2>10 DEF ConfirmMode, PublishWithContext, PublishFails, Acked, Nacked,
       ConfirmChannelCloses, ConfirmTimesOut, StopsWaiting, BrokerStores, BrokerDrops,
       BrokerRefuses, pooling
  <2>13. ASSUME NEW x \in CP!Conn, LockToReplace(x)
         PROVE  FALSE
    BY <2>8, <2>13 DEF LockToReplace
  <2>11. ASSUME NEW u \in Call, CallStep(u)
         PROVE  (held[c] \in open /\ result[c] = "ok") = (held[c] \in CP!Pooled')
    BY ONLY <2>1, <2>4, <2>5, <2>6, <2>9, <2>10, <2>11 DEF CallStep
  <2>12. ASSUME ConsumerStep
         PROVE  (held[c] \in open /\ result[c] = "ok") = (held[c] \in CP!Pooled')
    BY ONLY <2>1, <2>4, <2>5, <2>9, <2>12 DEF ConsumerStep
  <2> QED
    BY ONLY <1>1, <2>1, <2>7, <2>8, <2>9, <2>10, <2>11, <2>12, <2>13
       DEF Next, vars, pooling, poolVars
<1>2. ASSUME Inv, [Next]_vars
      PROVE  [\A c \in Call : held[c] # None /\ held'[c] = None
                => (held[c] \in open /\ result[c] = "ok") = (held[c] \in CP!Pooled')]_vars
  BY <1>1, <1>2
<1> QED
  BY <1>2, Invariant, PTL DEF Spec, GivenBackByResult
=============================================================================
