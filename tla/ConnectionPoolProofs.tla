------------------------ MODULE ConnectionPoolProofs ------------------------
(* Proofs about ConnectionPool, for any number of users and any pool size. *)
EXTENDS ConnectionPool, SequenceTheorems, FiniteSetTheorems, TLAPS

USE SizeAssumption DEF Conn

-----------------------------------------------------------------------------
(* What the operations on the slice do to the set of pooled connections.   *)

(* The connections of a slice. *)
Elems(s) == {s[i] : i \in DOMAIN s}

(* No connection is twice in the slice. *)
Distinct(s) == \A i, j \in DOMAIN s : s[i] = s[j] => i = j

(* Popping the first connection removes it, and only it. *)
LEMMA Pop ==
  ASSUME NEW S, NEW s \in Seq(S), s # <<>>, Distinct(s)
  PROVE  /\ Tail(s) \in Seq(S) /\ Head(s) \in S /\ Head(s) \in Elems(s)
         /\ Distinct(Tail(s)) /\ Elems(Tail(s)) = Elems(s) \ {Head(s)}
<1>1. /\ Len(s) \in Nat /\ Len(s) >= 1 /\ DOMAIN s = 1..Len(s)
      /\ Head(s) = s[1] /\ Head(s) \in S
      /\ Tail(s) \in Seq(S) /\ DOMAIN Tail(s) = 1..(Len(s) - 1)
      /\ \A i \in 1..(Len(s) - 1) : Tail(s)[i] = s[i + 1]
  OBVIOUS
<1>2. Distinct(Tail(s))
  BY <1>1 DEF Distinct
<1>3. ASSUME NEW x
      PROVE  x \in Elems(Tail(s)) <=> x \in Elems(s) \ {Head(s)}
  <2>1. ASSUME x \in Elems(Tail(s))
        PROVE  x \in Elems(s) \ {Head(s)}
    <3>1. PICK i \in 1..(Len(s) - 1) : x = s[i + 1]
      BY <1>1, <2>1 DEF Elems
    <3> QED
      BY <1>1, <3>1 DEF Elems, Distinct
  <2>2. ASSUME x \in Elems(s) \ {Head(s)}
        PROVE  x \in Elems(Tail(s))
    <3>1. PICK i \in 1..Len(s) : x = s[i] /\ i # 1
      BY <1>1, <2>2 DEF Elems
    <3>2. i - 1 \in 1..(Len(s) - 1) /\ Tail(s)[i - 1] = x
      BY <1>1, <3>1
    <3> QED
      BY <1>1, <3>2 DEF Elems
  <2> QED
    BY <2>1, <2>2
<1>4. Elems(Tail(s)) = Elems(s) \ {Head(s)}
  BY <1>3
<1>5. Head(s) \in Elems(s)
  BY <1>1 DEF Elems
<1> QED
  BY <1>1, <1>2, <1>4, <1>5

(* Appending a connection adds it, and keeps the others apart from it. *)
LEMMA Push ==
  ASSUME NEW S, NEW s \in Seq(S), NEW x \in S, Distinct(s), x \notin Elems(s)
  PROVE  /\ Append(s, x) \in Seq(S)
         /\ Distinct(Append(s, x)) /\ Elems(Append(s, x)) = Elems(s) \cup {x}
<1> DEFINE t == Append(s, x)
<1>1. /\ Len(s) \in Nat /\ DOMAIN s = 1..Len(s)
      /\ t \in Seq(S) /\ DOMAIN t = 1..(Len(s) + 1)
      /\ \A i \in 1..Len(s) : t[i] = s[i]
      /\ t[Len(s) + 1] = x
  OBVIOUS
<1> HIDE DEF t
<1>2. \A i \in 1..Len(s) : s[i] # x
  BY <1>1 DEF Elems
<1>3. Distinct(t)
  BY <1>1, <1>2 DEF Distinct
<1>4. \A y : y \in Elems(t) <=> y \in Elems(s) \cup {x}
  <2>1. \A y \in Elems(t) : y \in Elems(s) \cup {x}
    BY <1>1 DEF Elems
  <2>2. \A y \in Elems(s) : y \in Elems(t)
    BY <1>1 DEF Elems
  <2>3. x \in Elems(t)
    BY <1>1 DEF Elems
  <2> QED
    BY <2>1, <2>2, <2>3
<1> QED
  BY <1>1, <1>3, <1>4 DEF t

(* Replacing a connection in its place exchanges it for the new one. *)
LEMMA Replace ==
  ASSUME NEW S, NEW s \in Seq(S), NEW x \in S, NEW c \in Elems(s), NEW t,
         Distinct(s), x \notin Elems(s),
         t = [i \in DOMAIN s |-> IF s[i] = c THEN x ELSE s[i]]
  PROVE  /\ t \in Seq(S) /\ Distinct(t)
         /\ Elems(t) = (Elems(s) \ {c}) \cup {x}
<1>1. /\ Len(s) \in Nat /\ DOMAIN s = 1..Len(s) /\ DOMAIN t = 1..Len(s)
      /\ \A i \in 1..Len(s) : t[i] = IF s[i] = c THEN x ELSE s[i]
      /\ \A i \in 1..Len(s) : s[i] \in S
  OBVIOUS
<1>2. t \in Seq(S)
  <2>1. t \in [1..Len(s) -> S]
    BY <1>1
  <2> QED
    BY <1>1, <2>1, SeqDef
<1>3. Distinct(t)
  BY <1>1 DEF Distinct, Elems
<1>4. \A y : y \in Elems(t) <=> y \in (Elems(s) \ {c}) \cup {x}
  <2>1. \A y \in Elems(t) : y \in (Elems(s) \ {c}) \cup {x}
    BY <1>1 DEF Elems
  <2>2. \A y \in Elems(s) \ {c} : y \in Elems(t)
    BY <1>1 DEF Elems
  <2>3. x \in Elems(t)
    BY <1>1 DEF Elems
  <2> QED
    BY <2>1, <2>2, <2>3
<1> QED
  BY <1>2, <1>3, <1>4

(* A fresh slice of consecutive numbers. *)
LEMMA Fresh ==
  ASSUME NEW a \in Nat, NEW n \in Nat
  PROVE  LET t == [i \in 1..n |-> a + i]
         IN  /\ t \in Seq((a + 1)..(a + n)) /\ Distinct(t)
             /\ Elems(t) = (a + 1)..(a + n)
<1> DEFINE t == [i \in 1..n |-> a + i]
<1>1. t \in [1..n -> (a + 1)..(a + n)]
  OBVIOUS
<1>2. t \in Seq((a + 1)..(a + n))
  BY <1>1, SeqDef
<1>3. DOMAIN t = 1..n /\ \A i \in 1..n : t[i] = a + i
  OBVIOUS
<1> HIDE DEF t
<1>4. Distinct(t)
  BY <1>3 DEF Distinct
<1>5. \A y : y \in Elems(t) <=> y \in (a + 1)..(a + n)
  <2>1. \A y \in Elems(t) : y \in (a + 1)..(a + n)
    BY <1>3 DEF Elems
  <2>2. ASSUME NEW y \in (a + 1)..(a + n)
        PROVE  y \in Elems(t)
    <3>1. y - a \in 1..n /\ t[y - a] = y
      BY <1>3
    <3> QED
      BY <1>3, <3>1 DEF Elems
  <2> QED
    BY <2>1, <2>2
<1> QED
  BY <1>2, <1>4, <1>5 DEF t

(* The connections of a slice over a set are in that set. *)
LEMMA Contents ==
  ASSUME NEW S, NEW s \in Seq(S)
  PROVE  Elems(s) \subseteq S
BY DEF Elems

(* A sequence over a set is one over any larger set. *)
LEMMA Wider ==
  ASSUME NEW S, NEW T, S \subseteq T, NEW s \in Seq(S)
  PROVE  s \in Seq(T)
BY SeqDef

-----------------------------------------------------------------------------
(* The invariant.                                                          *)

(* A watching goroutine that runs replaceDeadConnection has seen the end of *)
(* a connection that was dialled.  Without it a replacement could leave an *)
(* open connection behind.                                                 *)
FiredAreClosed == \A c \in Conn : watch[c] = "fired" => c \in (1..dials) \ open

IndInv == TypeOK /\ Exclusive /\ NoLeak /\ FiredAreClosed

(* The part of it that the operations on the pool disturb. *)
PoolInv == TypeOK /\ Exclusive /\ NoLeak

(* The connections in the pool, as the elements of its slice. *)
LEMMA Pools == Pooled = Elems(pool) /\ Pooled' = Elems(pool)'
BY DEF Pooled, Elems

(* What PoolInv says of the parts that the actions change. *)
Apart ==
  /\ Distinct(pool)
  /\ \A u, v \in User : held[u] = held[v] /\ held[u] # None => u = v
  /\ \A u \in User : held[u] \notin Elems(pool)

(* Exclusive, stated over the slice. *)
LEMMA ApartIsExclusive == (Exclusive <=> Apart) /\ (Exclusive <=> Apart)'
BY DEF Exclusive, Apart, Distinct, Pooled, Elems

(* CreateConnectionPool establishes the invariant. *)
LEMMA InitInv == Init => PoolInv
<1> SUFFICES ASSUME Init
             PROVE  PoolInv
  OBVIOUS
<1> DEFINE t == [i \in 1..PoolSize |-> 0 + i]
<1>1. /\ t \in Seq((0 + 1)..(0 + PoolSize)) /\ Distinct(t)
      /\ Elems(t) = (0 + 1)..(0 + PoolSize)
  <2>1. 0 \in Nat /\ PoolSize \in Nat
    OBVIOUS
  <2> QED
    BY ONLY <2>1, Fresh
<1>2. pool = t
  BY DEF Init
<1> HIDE DEF t
<1>3. pool \in Seq(1..PoolSize) /\ Distinct(pool) /\ Elems(pool) = 1..PoolSize
  BY <1>1, <1>2
<1>4. dials = PoolSize /\ open = 1..PoolSize /\ held = [u \in User |-> None]
      /\ watch \in [Conn -> {"none", "spawned"}] /\ PoolSize <= MaxDials
  BY DEF Init
<1>5. TypeOK
  BY <1>3, <1>4 DEF TypeOK
<1>6. Apart
  BY <1>3, <1>4, NoneAssumption DEF Apart
<1>7. NoLeak
  BY <1>3, <1>4, Pools DEF NoLeak
<1> QED
  BY <1>5, <1>6, <1>7, ApartIsExclusive DEF PoolInv

(* What the invariant says before a step: every known connection has been  *)
(* dialled, so that a new one is unknown to the pool and to the users.     *)
LEMMA Before ==
  ASSUME PoolInv
  PROVE  /\ dials \in Nat /\ dials <= MaxDials /\ pool \in Seq(1..dials)
         /\ open \subseteq 1..dials /\ Elems(pool) \subseteq 1..dials
         /\ held \in [User -> (1..dials) \cup {None}]
         /\ watch \in [Conn -> {"none", "spawned", "armed", "fired"}]
         /\ Distinct(pool) /\ Apart
         /\ \A c \in open : c \in Elems(pool) \/ \E u \in User : held[u] = c
<1>1. pool \in Seq(1..dials)
  BY DEF PoolInv, TypeOK
<1>2. Elems(pool) \subseteq 1..dials
  BY <1>1, Contents
<1>3. \A c \in open : c \in Elems(pool) \/ \E u \in User : held[u] = c
  BY Pools DEF PoolInv, NoLeak, Held
<1> QED
  BY <1>1, <1>2, <1>3, ApartIsExclusive DEF PoolInv, TypeOK, Apart

(* What has to hold after a step. *)
LEMMA After ==
  ASSUME /\ dials' \in 0..MaxDials /\ pool' \in Seq(1..dials')
         /\ open' \subseteq 1..dials'
         /\ held' \in [User -> (1..dials') \cup {None}]
         /\ watch' \in [Conn -> {"none", "spawned", "armed", "fired"}],
         Apart',
         \A c \in open' : c \in Elems(pool') \/ \E u \in User : held'[u] = c
  PROVE  PoolInv'
<1>1. TypeOK'
  BY DEF TypeOK
<1>2. Exclusive'
  BY ApartIsExclusive
<1>3. None \notin open'
  <2>1. \A c \in open' : c \in 1..MaxDials
    OBVIOUS
  <2> QED
    BY ONLY <2>1, NoneAssumption
<1>4. NoLeak'
  BY <1>3, Pools DEF NoLeak, Held
<1> QED
  BY <1>1, <1>2, <1>4 DEF PoolInv

(* The goroutines that Watch starts keep the type of watch. *)
LEMMA Watching ==
  ASSUME watch \in [Conn -> {"none", "spawned", "armed", "fired"}], NEW C
  PROVE  Watch(C) \in [Conn -> {"none", "spawned", "armed", "fired"}]
BY DEF Watch

-----------------------------------------------------------------------------
(* One lemma per operation. *)

(* Taking an open connection keeps the invariant. *)
LEMMA GetOpenInv ==
  ASSUME PoolInv, NEW u \in User, GetOpen(u)
  PROVE  PoolInv'
<1>1. /\ Tail(pool) \in Seq(1..dials) /\ Head(pool) \in 1..dials
      /\ Head(pool) \in Elems(pool) /\ Distinct(Tail(pool))
      /\ Elems(Tail(pool)) = Elems(pool) \ {Head(pool)}
  BY Before, Pop DEF GetOpen
<1> USE DEF GetOpen
<1>2. Apart'
  BY <1>1, Before, NoneAssumption DEF Apart
<1>3. \A c \in open' : c \in Elems(pool') \/ \E v \in User : held'[v] = c
  BY <1>1, Before, NoneAssumption
<1> QED
  BY <1>1, <1>2, <1>3, Before, After

(* Replacing a closed connection as it is taken keeps the invariant. *)
LEMMA GetClosedInv ==
  ASSUME PoolInv, NEW u \in User, GetClosed(u)
  PROVE  PoolInv'
<1>1. /\ Tail(pool) \in Seq(1..dials) /\ Head(pool) \in 1..dials
      /\ Head(pool) \in Elems(pool) /\ Distinct(Tail(pool))
      /\ Elems(Tail(pool)) = Elems(pool) \ {Head(pool)}
  BY Before, Pop DEF GetClosed
<1>2. pool' = Tail(pool) /\ held[u] = None /\ Head(pool) \notin open
  BY DEF GetClosed
<1>3. CASE UNCHANGED <<dials, open, held, watch>>
  <2>1. Apart'
    BY <1>1, <1>2, <1>3, Before DEF Apart
  <2>2. \A c \in open' : c \in Elems(pool') \/ \E v \in User : held'[v] = c
    BY <1>1, <1>2, <1>3, Before
  <2> QED
    BY <1>1, <1>2, <1>3, <2>1, <2>2, Before, After
<1>4. CASE /\ dials < MaxDials /\ dials' = dials + 1
           /\ open' = open \cup {dials + 1}
           /\ held' = [held EXCEPT ![u] = dials + 1]
           /\ watch' = Watch({dials + 1})
  <2>1. pool' \in Seq(1..dials')
    BY <1>1, <1>2, <1>4, Before, Wider
  <2>2. Apart'
    BY <1>1, <1>2, <1>4, Before, NoneAssumption DEF Apart
  <2>3. \A c \in open' : c \in Elems(pool') \/ \E v \in User : held'[v] = c
    <3>1. held'[u] = dials + 1 /\ \A v \in User \ {u} : held'[v] = held[v]
      BY <1>4, Before
    <3>2. ASSUME NEW c \in open PROVE c \in Elems(pool') \/ \E v \in User : held'[v] = c
      <4>1. c # None /\ (c \in Elems(pool) \/ \E v \in User : held[v] = c)
        BY Before, NoneAssumption
      <4> QED
        BY ONLY <1>1, <1>2, <3>1, <3>2, <4>1
    <3> QED
      BY <1>4, <3>1, <3>2
  <2> QED
    BY <1>4, <2>1, <2>2, <2>3, Before, After, Watching
<1> QED
  BY <1>3, <1>4 DEF GetClosed

(* Refilling an empty pool keeps the invariant, also when it fails. *)
LEMMA GetRefilledInv ==
  ASSUME PoolInv, NEW u \in User, GetRefilled(u)
  PROVE  PoolInv'
<1>1. held[u] = None /\ pool = <<>> /\ Elems(pool) = {}
  BY DEF GetRefilled, Elems
<1>2. CASE /\ dials + PoolSize <= MaxDials
           /\ dials' = dials + PoolSize
           /\ open' = open \cup New(PoolSize)
           /\ pool' = [i \in 1..(PoolSize - 1) |-> dials + 1 + i]
           /\ held' = [held EXCEPT ![u] = dials + 1]
           /\ watch' = Watch(New(PoolSize))
  <2> DEFINE t == [i \in 1..(PoolSize - 1) |-> (dials + 1) + i]
  <2>1. dials + 1 \in Nat /\ PoolSize - 1 \in Nat
    BY Before
  <2>2. /\ t \in Seq((dials + 1 + 1)..(dials + 1 + (PoolSize - 1))) /\ Distinct(t)
        /\ Elems(t) = (dials + 1 + 1)..(dials + 1 + (PoolSize - 1))
    BY ONLY <2>1, Fresh
  <2>3. pool' = t
    BY <1>2
  <2> HIDE DEF t
  <2>4. /\ pool' \in Seq((dials + 2)..dials') /\ Distinct(pool')
        /\ Elems(pool') = (dials + 2)..dials'
    BY <2>2, <2>3, <1>2, Before
  <2>5. pool' \in Seq(1..dials')
    BY <2>4, <1>2, Before, Wider
  <2>6. Apart'
    <3>1. held' = [held EXCEPT ![u] = dials + 1]
      BY <1>2
    <3>2. dials' = dials + PoolSize /\ dials' <= MaxDials /\ dials \in Nat
      BY <1>2, Before
    <3>3. \A v \in User : held[v] = None \/ held[v] \in 1..dials
      BY Before
    <3>4. None \notin Elems(pool')
      BY <2>4, <3>2, NoneAssumption
    <3>5. \A v \in User : held'[v] \notin Elems(pool')
      <4>1. held'[u] = dials + 1 /\ \A v \in User \ {u} : held'[v] = held[v]
        BY <3>1, Before
      <4>2. (dials + 1) \notin Elems(pool') /\ \A d \in 1..dials : d \notin Elems(pool')
        BY <2>4, <3>2
      <4> QED
        BY ONLY <3>3, <3>4, <4>1, <4>2
    <3>6. \A v, w \in User : held'[v] = held'[w] /\ held'[v] # None => v = w
      BY <1>1, <3>1, <3>2, <3>3, Before DEF Apart
    <3> QED
      BY <2>4, <3>5, <3>6 DEF Apart
  <2>7. \A c \in open' : c \in Elems(pool') \/ \E v \in User : held'[v] = c
    <3>1. ASSUME NEW c \in open
          PROVE  \E v \in User : held'[v] = c
      BY <1>1, <1>2, Before, NoneAssumption
    <3>2. \A c \in New(PoolSize) : c = dials + 1 \/ c \in (dials + 2)..dials'
      BY <1>2, Before DEF New
    <3>3. held'[u] = dials + 1
      BY <1>2, Before
    <3> QED
      BY <1>2, <2>4, <3>1, <3>2, <3>3
  <2>8. open' \subseteq 1..dials' /\ dials' \in 0..MaxDials
    BY <1>2, Before DEF New
  <2>9. held' \in [User -> (1..dials') \cup {None}]
    BY <1>2, Before
  <2>10. watch' \in [Conn -> {"none", "spawned", "armed", "fired"}]
    BY <1>2, Before, Watching
  <2> QED
    BY <2>5, <2>6, <2>7, <2>8, <2>9, <2>10, After
<1>3. ASSUME NEW k \in 0..(PoolSize - 1), dials + k <= MaxDials, dials' = dials + k,
             UNCHANGED <<open, pool, held, watch>>
      PROVE  PoolInv'
  <2>1. pool' \in Seq(1..dials')
    BY <1>3, Before, Wider
  <2>2. Apart'
    BY <1>3, Before DEF Apart
  <2> QED
    BY <1>3, <2>1, <2>2, Before, After
<1> QED
  BY <1>2, <1>3 DEF GetRefilled

(* Releasing a connection keeps the invariant. *)
LEMMA ReleaseInv ==
  ASSUME PoolInv, NEW u \in User, ReleaseConnectionToPool(u)
  PROVE  PoolInv'
<1>1. held[u] # None /\ held' = [held EXCEPT ![u] = None] /\ UNCHANGED watch
  BY DEF ReleaseConnectionToPool
<1>2. ASSUME NEW c, c \notin Elems(pool), c \in 1..dials',
             \A v \in User \ {u} : held[v] # c,
             pool' = Append(pool, c), dials' \in 0..MaxDials, dials <= dials',
             open' \subseteq open \cup {c}, held[u] \in open => held[u] = c
      PROVE  PoolInv'
  <2>1. pool \in Seq(1..dials')
    <3>1. 1..dials \subseteq 1..dials'
      BY <1>2, Before
    <3> QED
      BY <3>1, Before, Wider
  <2>2. /\ pool' \in Seq(1..dials') /\ Distinct(pool')
        /\ Elems(pool') = Elems(pool) \cup {c}
    BY <1>2, <2>1, Before, Push
  <2>3. None \notin Elems(pool')
    <3>1. Elems(pool') \subseteq 1..MaxDials
      BY <1>2, <2>2, Before
    <3> QED
      BY <3>1, NoneAssumption
  <2>4. Apart'
    BY <1>1, <1>2, <2>2, <2>3, Before DEF Apart
  <2>5. \A d \in open' : d \in Elems(pool') \/ \E v \in User : held'[v] = d
    BY <1>1, <1>2, <2>2, Before
  <2>6. held' \in [User -> (1..dials') \cup {None}]
    BY <1>1, <1>2, Before
  <2>7. open' \subseteq 1..dials'
    BY <1>2, Before
  <2> QED
    BY <1>1, <1>2, <2>2, <2>4, <2>5, <2>6, <2>7, Before, After
<1>3. CASE held[u] \in open /\ pool' = Append(pool, held[u]) /\ UNCHANGED <<dials, open>>
  <2>1. held[u] \notin Elems(pool) /\ \A v \in User \ {u} : held[v] # held[u]
    BY <1>1, Before DEF Apart
  <2> QED
    BY <1>2, <1>3, <2>1, Before
<1>4. CASE /\ held[u] \notin open /\ dials < MaxDials /\ dials' = dials + 1
           /\ open' = open \cup {dials + 1} /\ pool' = Append(pool, dials + 1)
  <2>1. \A v \in User : held[v] # dials + 1
    BY <1>4, Before, NoneAssumption
  <2>2. dials + 1 \notin Elems(pool)
    BY Before
  <2> QED
    BY <1>2, <1>4, <2>1, <2>2, Before
<1>5. CASE held[u] \notin open /\ UNCHANGED <<pool, dials, open>>
  <2>1. None \notin Elems(pool)
    BY Before, NoneAssumption
  <2>2. Apart'
    BY <1>1, <1>5, <2>1, Before DEF Apart
  <2>3. \A d \in open' : d \in Elems(pool') \/ \E v \in User : held'[v] = d
    BY <1>1, <1>5, Before
  <2> QED
    BY <1>1, <1>5, <2>2, <2>3, Before, After
<1> QED
  BY <1>3, <1>4, <1>5 DEF ReleaseConnectionToPool

(* Discarding a connection keeps the invariant. *)
LEMMA DiscardInv ==
  ASSUME PoolInv, NEW u \in User, DiscardConnection(u)
  PROVE  PoolInv'
<1>1. /\ held[u] # None /\ held' = [held EXCEPT ![u] = None]
      /\ open' = open \ {held[u]} /\ UNCHANGED <<pool, dials>>
  BY DEF DiscardConnection
<1>2. None \notin Elems(pool)
  BY Before, NoneAssumption
<1>3. Apart'
  BY <1>1, <1>2, Before DEF Apart
<1>4. \A c \in open' : c \in Elems(pool') \/ \E v \in User : held'[v] = c
  BY <1>1, Before
<1>5. watch' \in [Conn -> {"none", "spawned", "armed", "fired"}]
  BY Before DEF DiscardConnection
<1> QED
  BY <1>1, <1>3, <1>4, <1>5, Before, After

(* Neither watching a connection nor its death disturbs the invariant. *)
LEMMA WatchInv ==
  ASSUME PoolInv, NEW c \in Conn, WatchConnection(c) \/ ConnectionDies(c)
  PROVE  PoolInv'
<1>1. UNCHANGED <<pool, dials, held>> /\ open' \subseteq open
  BY DEF WatchConnection, ConnectionDies
<1>2. watch' \in [Conn -> {"none", "spawned", "armed", "fired"}]
  BY Before DEF WatchConnection, ConnectionDies
<1>3. Apart'
  BY <1>1, Before DEF Apart
<1>4. \A d \in open' : d \in Elems(pool') \/ \E v \in User : held'[v] = d
  BY <1>1, Before
<1> QED
  BY <1>1, <1>2, <1>3, <1>4, Before, After

(* Replacing a dead connection in its place keeps the invariant: it is     *)
(* closed, so that the one that leaves the pool is not leaked.             *)
LEMMA ReplaceInv ==
  ASSUME PoolInv, NEW c \in Conn, replaceDeadConnection(c), c \notin open
  PROVE  PoolInv'
<1>1. CASE /\ watch' = [watch EXCEPT ![c] = "none"] /\ UNCHANGED <<pool, dials, open, held>>
  <2>1. Apart'
    BY <1>1, Before DEF Apart
  <2>2. \A d \in open' : d \in Elems(pool') \/ \E v \in User : held'[v] = d
    BY <1>1, Before
  <2> QED
    BY <1>1, <2>1, <2>2, Before, After
<1>2. CASE /\ c \in Elems(pool) /\ dials < MaxDials /\ dials' = dials + 1
           /\ open' = open \cup {dials + 1} /\ UNCHANGED held
           /\ pool' = [i \in DOMAIN pool |-> IF pool[i] = c THEN dials + 1 ELSE pool[i]]
           /\ watch' = [Watch({dials + 1}) EXCEPT ![c] = "none"]
  <2>1. /\ dials' \in 0..MaxDials /\ dials + 1 \in 1..dials'
        /\ 1..dials \subseteq 1..dials' /\ dials + 1 \notin Elems(pool)
    BY <1>2, Before
  <2>2. pool \in Seq(1..dials')
    BY <2>1, Before, Wider
  <2>3. /\ pool' \in Seq(1..dials') /\ Distinct(pool')
        /\ Elems(pool') = (Elems(pool) \ {c}) \cup {dials + 1}
    <3> DEFINE S == 1..dials'
               x == dials + 1
    <3>1. Distinct(pool) /\ c \in Elems(pool) /\ x \in S /\ x \notin Elems(pool) /\ pool \in Seq(S)
      BY <1>2, <2>1, <2>2, Before
    <3>2. pool' = [i \in DOMAIN pool |-> IF pool[i] = c THEN x ELSE pool[i]]
      BY <1>2
    <3> HIDE DEF S, x
    <3>3. /\ pool' \in Seq(S) /\ Distinct(pool')
          /\ Elems(pool') = (Elems(pool) \ {c}) \cup {x}
      BY ONLY <3>1, <3>2, Replace
    <3> QED
      BY <3>3 DEF S, x
  <2>4. \A u \in User : held[u] # dials + 1
    BY <2>1, Before, NoneAssumption
  <2>5. Apart'
    BY <1>2, <2>3, <2>4, Before DEF Apart
  <2>6. \A d \in open' : d \in Elems(pool') \/ \E v \in User : held'[v] = d
    BY <1>2, <2>3, Before
  <2>7. held' \in [User -> (1..dials') \cup {None}] /\ open' \subseteq 1..dials'
    BY <1>2, <2>1, Before
  <2>8. watch' \in [Conn -> {"none", "spawned", "armed", "fired"}]
    BY <1>2, Before, Watching
  <2> QED
    BY <2>1, <2>3, <2>5, <2>6, <2>7, <2>8, After
<1> QED
  BY <1>1, <1>2, Pools DEF replaceDeadConnection

-----------------------------------------------------------------------------
(* The watching goroutines.                                                *)

(* A watching goroutine that has an error has a closed connection, which   *)
(* no operation opens again.                                               *)
LEMMA FiredInv ==
  ASSUME IndInv, [Next]_vars
  PROVE  FiredAreClosed'
<1>1. PoolInv /\ FiredAreClosed
  BY DEF IndInv, PoolInv
<1>2. ASSUME NEW c \in Conn, watch'[c] = "fired", watch[c] = "fired",
             dials' \in Nat, dials <= dials', open' \subseteq open \cup ((dials + 1)..dials')
      PROVE  c \in (1..dials') \ open'
  BY <1>1, <1>2, Before DEF FiredAreClosed
<1>3. /\ dials' \in Nat /\ dials <= dials'
      /\ open' \subseteq open \cup ((dials + 1)..dials')
  BY <1>1, Before DEF Next, vars, GetConnectionFromPool, GetOpen, GetClosed, GetRefilled,
       ReleaseConnectionToPool, DiscardConnection, WatchConnection, ConnectionDies,
       replaceDeadConnection, New
<1>4. ASSUME NEW c \in Conn, watch'[c] = "fired"
      PROVE  watch[c] = "fired" \/ (ConnectionDies(c) /\ c \in open)
  BY <1>1, <1>4, Before DEF Next, vars, GetConnectionFromPool, GetOpen, GetClosed, GetRefilled,
       ReleaseConnectionToPool, DiscardConnection, WatchConnection, ConnectionDies,
       replaceDeadConnection, Watch
<1>5. ASSUME NEW c \in Conn, ConnectionDies(c), c \in open
      PROVE  c \in (1..dials') \ open'
  BY <1>1, <1>5, Before DEF ConnectionDies
<1> QED
  BY <1>2, <1>3, <1>4, <1>5 DEF FiredAreClosed

-----------------------------------------------------------------------------
(* Every step keeps the inductive invariant. *)
LEMMA StepInv == IndInv /\ [Next]_vars => IndInv'
<1> SUFFICES ASSUME IndInv, [Next]_vars
             PROVE  PoolInv'
  BY FiredInv DEF IndInv, PoolInv
<1>1. PoolInv /\ FiredAreClosed
  BY DEF IndInv, PoolInv
<1>2. ASSUME NEW u \in User, GetConnectionFromPool(u)
      PROVE  PoolInv'
  BY <1>1, <1>2, GetOpenInv, GetClosedInv, GetRefilledInv DEF GetConnectionFromPool
<1>3. ASSUME NEW u \in User, ReleaseConnectionToPool(u)
      PROVE  PoolInv'
  BY <1>1, <1>3, ReleaseInv
<1>4. ASSUME NEW u \in User, DiscardConnection(u)
      PROVE  PoolInv'
  BY <1>1, <1>4, DiscardInv
<1>5. ASSUME NEW c \in Conn, WatchConnection(c) \/ ConnectionDies(c)
      PROVE  PoolInv'
  BY <1>1, <1>5, WatchInv
<1>6. ASSUME NEW c \in Conn, replaceDeadConnection(c)
      PROVE  PoolInv'
  <2>1. c \notin open
    BY <1>1, <1>6 DEF FiredAreClosed, replaceDeadConnection
  <2> QED
    BY <1>1, <1>6, <2>1, ReplaceInv
<1>7. CASE UNCHANGED vars
  BY <1>1, <1>7 DEF vars, PoolInv, TypeOK, Exclusive, NoLeak, Pooled, Held
<1> QED
  BY <1>2, <1>3, <1>4, <1>5, <1>6, <1>7 DEF Next

(* At first no watching goroutine has an error. *)
LEMMA InitFired == Init => FiredAreClosed
BY DEF Init, FiredAreClosed

(* The inductive invariant holds in every reachable state. *)
LEMMA Invariant == Spec => []IndInv
<1>1. Init => IndInv
  BY InitInv, InitFired DEF IndInv, PoolInv
<1> QED
  BY <1>1, StepInv, PTL DEF Spec

(* The pool and its users never have a connection that was not dialled:    *)
(* the empty places that a failed refill leaves are gone when              *)
(* GetConnectionFromPool returns.                                          *)
THEOREM PoolKeepsItsType == Spec => []TypeOK
<1>1. IndInv => TypeOK
  BY DEF IndInv
<1> QED
  BY <1>1, Invariant, PTL

(* Whatever connections die and dials fail, in whatever order users and    *)
(* watching goroutines run: a connection has one user at a time            *)
(* (GetConnectionFromPool, ReleaseConnectionToPool, replaceDeadConnection  *)
(* of amqp.go).                                                            *)
THEOREM OneUserAtATime == Spec => []Exclusive
<1>1. IndInv => Exclusive
  BY DEF IndInv
<1> QED
  BY <1>1, Invariant, PTL

(* No open connection is forgotten: it is in the pool or somebody has it,  *)
(* after every failed refill, lost slot and late replacement.              *)
THEOREM NothingLeaks == Spec => []NoLeak
<1>1. IndInv => NoLeak
  BY DEF IndInv
<1> QED
  BY <1>1, Invariant, PTL

-----------------------------------------------------------------------------
(* What is gone.                                                           *)

(* What a slice has after something is appended. *)
LEMMA AppendedElems ==
  ASSUME NEW S, NEW s \in Seq(S), NEW x, NEW c \in Elems(Append(s, x))
  PROVE  c = x \/ c \in Elems(s)
<1>1. /\ Len(s) \in Nat /\ DOMAIN s = 1..Len(s)
      /\ DOMAIN Append(s, x) = 1..(Len(s) + 1)
      /\ Append(s, x)[Len(s) + 1] = x /\ \A i \in 1..Len(s) : Append(s, x)[i] = s[i]
  OBVIOUS
<1>2. PICK i \in 1..(Len(s) + 1) : c = Append(s, x)[i]
  BY <1>1 DEF Elems
<1>3. i = Len(s) + 1 \/ i \in 1..Len(s)
  BY <1>1
<1> QED
  BY <1>1, <1>2, <1>3 DEF Elems

(* A connection that is gone is neither taken nor given back, and a new    *)
(* one has another number.                                                 *)
LEMMA GoneStep ==
  ASSUME PoolInv, Next, NEW c \in 1..dials, c \notin Elems(pool),
         \A u \in User : held[u] # c
  PROVE  c \notin Elems(pool') /\ \A u \in User : held'[u] # c
<1>1. /\ dials \in Nat /\ pool \in Seq(1..dials) /\ Distinct(pool) /\ c # None
      /\ c # dials + 1 /\ held \in [User -> (1..dials) \cup {None}]
  BY Before, NoneAssumption
<1>2. pool # <<>> => /\ Elems(Tail(pool)) = Elems(pool) \ {Head(pool)}
                     /\ Head(pool) \in Elems(pool)
  BY <1>1, Pop
<1>3. \A x : c \in Elems(Append(pool, x)) => c = x
  BY <1>1, AppendedElems
<1>4. ASSUME NEW u \in User, GetOpen(u) \/ GetClosed(u)
      PROVE  c \notin Elems(pool') /\ \A v \in User : held'[v] # c
  BY <1>1, <1>2, <1>4 DEF GetOpen, GetClosed
<1>5. ASSUME NEW u \in User, GetRefilled(u)
      PROVE  c \notin Elems(pool') /\ \A v \in User : held'[v] # c
  <2>1. \/ pool' = pool
        \/ pool' = [i \in 1..(PoolSize - 1) |-> dials + 1 + i]
    BY <1>5 DEF GetRefilled
  <2>2. \A i \in 1..(PoolSize - 1) : c # dials + 1 + i
    BY <1>1
  <2>3. c \notin Elems(pool')
    BY <2>1, <2>2 DEF Elems
  <2>4. held' = held \/ held' = [held EXCEPT ![u] = dials + 1]
    BY <1>5 DEF GetRefilled
  <2> QED
    BY <1>1, <2>3, <2>4
<1>6. ASSUME NEW u \in User, ReleaseConnectionToPool(u) \/ DiscardConnection(u)
      PROVE  c \notin Elems(pool') /\ \A v \in User : held'[v] # c
  <2>1. held' = [held EXCEPT ![u] = None]
    BY <1>6 DEF ReleaseConnectionToPool, DiscardConnection
  <2>2. pool' = pool \/ pool' = Append(pool, held[u]) \/ pool' = Append(pool, dials + 1)
    BY <1>6 DEF ReleaseConnectionToPool, DiscardConnection
  <2> QED
    BY <1>1, <1>3, <2>1, <2>2
<1>7. ASSUME NEW x \in Conn, WatchConnection(x) \/ ConnectionDies(x)
      PROVE  c \notin Elems(pool') /\ \A v \in User : held'[v] # c
  BY <1>7 DEF WatchConnection, ConnectionDies
<1>8. ASSUME NEW x \in Conn, replaceDeadConnection(x)
      PROVE  c \notin Elems(pool') /\ \A v \in User : held'[v] # c
  <2>1. /\ held' = held
        /\ \/ pool' = pool
           \/ pool' = [i \in DOMAIN pool |-> IF pool[i] = x THEN dials + 1 ELSE pool[i]]
    BY <1>8 DEF replaceDeadConnection
  <2>2. c \notin Elems(pool')
    BY <1>1, <2>1 DEF Elems
  <2> QED
    BY <2>1, <2>2
<1> QED
  BY <1>4, <1>5, <1>6, <1>7, <1>8 DEF Next, GetConnectionFromPool

(* A connection that was discarded, lost or closed never comes back, to    *)
(* the pool or to a user, whatever the watching goroutines still do.       *)
THEOREM GoneForGood == Spec => GoneStaysGone
<1>1. ASSUME IndInv, Next, NEW c \in (1..dials) \ (Pooled \cup Held)
      PROVE  c \notin Pooled' \cup Held'
  <2>1. PoolInv /\ c \in 1..dials /\ c \notin Elems(pool) /\ \A u \in User : held[u] # c
    <3>1. PoolInv /\ c # None
      BY <1>1, Before, NoneAssumption DEF IndInv, PoolInv
    <3> QED
      BY <3>1, Pools DEF Held
  <2>2. c \notin Elems(pool') /\ \A u \in User : held'[u] # c
    BY ONLY <1>1, <2>1, GoneStep
  <2> QED
    BY <2>2 DEF Pooled, Elems, Held
<1>2. ASSUME IndInv, [Next]_vars
      PROVE  [\A c \in (1..dials) \ (Pooled \cup Held) : c \notin Pooled' \cup Held']_vars
  BY <1>1, <1>2
<1> QED
  BY <1>2, Invariant, PTL DEF Spec, GoneStaysGone

-----------------------------------------------------------------------------
(* How many connections there are.                                         *)

(* What users hold is finite, and one that holds nothing leaves room. *)
LEMMA FewHeld ==
  ASSUME IsFiniteSet(User), NEW g
  PROVE  LET H == {g[v] : v \in User} \ {None}
         IN  /\ IsFiniteSet(H) /\ Cardinality(H) \in Nat
             /\ \A u \in User : g[u] = None => Cardinality(H) <= Cardinality(User) - 1
<1> DEFINE H == {g[v] : v \in User} \ {None}
<1>1. ASSUME NEW U \in SUBSET User, H \subseteq {g[v] : v \in U}
      PROVE  IsFiniteSet(H) /\ Cardinality(H) <= Cardinality(U)
  <2> DEFINE T == {g[v] : v \in U}  f == [v \in U |-> g[v]]
  <2>1. f \in Surjection(U, T)
    BY DEF Surjection
  <2>2. IsFiniteSet(U) /\ Cardinality(U) \in Nat
    BY FS_Subset, FS_CardinalityType
  <2>3. H \in SUBSET T
    BY <1>1
  <2> HIDE DEF f, T, H
  <2>4. IsFiniteSet(T) /\ Cardinality(T) <= Cardinality(U) /\ Cardinality(T) \in Nat
    BY <2>1, <2>2, FS_Surjection, FS_CardinalityType
  <2>5. IsFiniteSet(H) /\ Cardinality(H) <= Cardinality(T) /\ Cardinality(H) \in Nat
    BY <2>3, <2>4, FS_Subset, FS_CardinalityType
  <2> QED
    BY <2>2, <2>4, <2>5
<1>2. IsFiniteSet(H)
  BY <1>1
<1>3. ASSUME NEW u \in User, g[u] = None
      PROVE  Cardinality(H) <= Cardinality(User) - 1
  <2>1. H \subseteq {g[v] : v \in User \ {u}}
    BY <1>3
  <2>2. Cardinality(H) <= Cardinality(User \ {u})
    BY <1>1, <2>1
  <2>3. Cardinality(User \ {u}) = Cardinality(User) - 1
    BY FS_RemoveElement
  <2> QED
    BY <2>2, <2>3
<1> QED
  BY <1>2, <1>3, FS_CardinalityType

(* The same of the users as they are, before a step and after it. *)
LEMMA HeldIsFinite ==
  ASSUME IsFiniteSet(User)
  PROVE  /\ IsFiniteSet(Held) /\ Cardinality(Held) \in Nat
         /\ IsFiniteSet(Held') /\ Cardinality(Held') \in Nat
         /\ \A u \in User : held[u] = None => Cardinality(Held) <= Cardinality(User) - 1
BY FewHeld DEF Held

(* Taking a connection and giving one back. *)
LEMMA HeldMoves ==
  ASSUME IsFiniteSet(User), PoolInv, NEW u \in User
  PROVE  /\ \A x : held[u] = None /\ held' = [held EXCEPT ![u] = x]
                => Cardinality(Held') <= Cardinality(Held) + 1
         /\ held[u] # None /\ held' = [held EXCEPT ![u] = None]
                => Cardinality(Held') = Cardinality(Held) - 1
<1>1. /\ held \in [User -> (1..dials) \cup {None}]
      /\ \A v, w \in User : held[v] = held[w] /\ held[v] # None => v = w
  BY Before DEF Apart
<1>2. IsFiniteSet(Held) /\ Cardinality(Held) \in Nat /\ Cardinality(Held') \in Nat
  BY HeldIsFinite
<1>3. ASSUME NEW x, held[u] = None, held' = [held EXCEPT ![u] = x]
      PROVE  Cardinality(Held') <= Cardinality(Held) + 1
  <2>1. /\ IsFiniteSet(Held \cup {x}) /\ Cardinality(Held \cup {x}) <= Cardinality(Held) + 1
        /\ Cardinality(Held \cup {x}) \in Nat
    <3> DEFINE H == Held
    <3>1. IsFiniteSet(H) /\ Cardinality(H) \in Nat
      BY <1>2
    <3> HIDE DEF H
    <3>2. /\ IsFiniteSet(H \cup {x})
          /\ Cardinality(H \cup {x}) \in {Cardinality(H), Cardinality(H) + 1}
      BY ONLY <3>1, FS_AddElement
    <3>3. /\ IsFiniteSet(H \cup {x}) /\ Cardinality(H \cup {x}) <= Cardinality(H) + 1
          /\ Cardinality(H \cup {x}) \in Nat
      BY ONLY <3>1, <3>2
    <3> QED
      BY <3>3 DEF H
  <2>2. Held' \in SUBSET (Held \cup {x})
    BY <1>1, <1>3 DEF Held
  <2>3. Cardinality(Held') <= Cardinality(Held \cup {x})
    BY <2>1, <2>2, FS_Subset
  <2> QED
    BY ONLY <1>2, <2>1, <2>3
<1>4. ASSUME held[u] # None, held' = [held EXCEPT ![u] = None]
      PROVE  Cardinality(Held') = Cardinality(Held) - 1
  <2>1. held[u] \in Held
    BY <1>4 DEF Held
  <2>2. held'[u] = None /\ \A v \in User \ {u} : held'[v] = held[v] /\ (held[v] = held[u] => FALSE)
    BY <1>1, <1>4
  <2>3. Held' = Held \ {held[u]}
    <3>1. ASSUME NEW x \in Held'
          PROVE  x \in Held \ {held[u]}
      BY <2>2 DEF Held
    <3>2. ASSUME NEW x \in Held \ {held[u]}
          PROVE  x \in Held'
      BY <2>2 DEF Held
    <3> QED
      BY <3>1, <3>2
  <2> QED
    BY <1>2, <2>1, <2>3, FS_RemoveElement
<1> QED
  BY <1>3, <1>4

(* A step adds no connection, or it refills the empty pool while its user  *)
(* takes one and at most all others hold one.                              *)
LEMMA BoundedStep ==
  ASSUME IsFiniteSet(User), PoolInv, ConnectionsBounded, [Next]_vars
  PROVE  ConnectionsBounded'
<1> DEFINE h == Cardinality(Held)  hh == Cardinality(Held')  n == Cardinality(User)
<1>1. /\ h \in Nat /\ hh \in Nat /\ n \in Nat
      /\ Len(pool) \in Nat /\ pool \in Seq(1..dials) /\ dials \in Nat
  BY HeldIsFinite, FS_CardinalityType, Before
<1>2. Len(pool) + h <= PoolSize + n - 1
  BY DEF ConnectionsBounded
<1>3. held' = held => hh = h
  BY DEF Held
<1>4. \A u \in User : /\ \A x : held[u] = None /\ held' = [held EXCEPT ![u] = x] => hh <= h + 1
                      /\ held[u] # None /\ held' = [held EXCEPT ![u] = None] => hh = h - 1
                      /\ held[u] = None => h <= n - 1
  BY HeldMoves, HeldIsFinite
<1> SUFFICES Len(pool') + hh <= PoolSize + n - 1
  BY DEF ConnectionsBounded
<1> HIDE DEF h, hh, n
<1>5. ASSUME NEW u \in User, GetOpen(u) \/ GetClosed(u)
      PROVE  Len(pool') + hh <= PoolSize + n - 1
  <2>1. /\ pool # <<>> /\ pool' = Tail(pool) /\ held[u] = None
        /\ held' = held \/ \E x : held' = [held EXCEPT ![u] = x]
    BY <1>5 DEF GetOpen, GetClosed
  <2>2. Len(pool') = Len(pool) - 1
    BY <1>1, <2>1
  <2>3. hh <= h + 1
    <3>1. held' = held \/ (held[u] = None /\ \E x : held' = [held EXCEPT ![u] = x])
      BY ONLY <2>1
    <3>2. h \in Int
      BY <1>1
    <3> QED
      BY ONLY <1>3, <1>4, <3>1, <3>2
  <2>4. h \in Int /\ hh \in Int /\ n \in Int /\ Len(pool) \in Int /\ PoolSize \in Int
    BY <1>1, SizeAssumption
  <2> QED
    BY ONLY <1>2, <2>2, <2>3, <2>4
<1>6. ASSUME NEW u \in User, GetRefilled(u)
      PROVE  Len(pool') + hh <= PoolSize + n - 1
  <2>1. CASE pool' = pool /\ held' = held
    BY ONLY <1>1, <1>2, <1>3, <2>1
  <2>2. CASE /\ held[u] = None /\ pool' = [i \in 1..(PoolSize - 1) |-> dials + 1 + i]
             /\ held' = [held EXCEPT ![u] = dials + 1]
    <3>1. Len(pool') = PoolSize - 1
      BY <2>2
    <3>2. hh <= h + 1 /\ h <= n - 1
      BY ONLY <1>4, <2>2
    <3> QED
      BY ONLY <1>1, <3>1, <3>2, SizeAssumption
  <2> QED
    BY <1>6, <2>1, <2>2 DEF GetRefilled
<1>7. ASSUME NEW u \in User, ReleaseConnectionToPool(u) \/ DiscardConnection(u)
      PROVE  Len(pool') + hh <= PoolSize + n - 1
  <2>1. held[u] # None /\ held' = [held EXCEPT ![u] = None]
    BY <1>7 DEF ReleaseConnectionToPool, DiscardConnection
  <2>2. pool' = pool \/ \E x : pool' = Append(pool, x)
    BY <1>7 DEF ReleaseConnectionToPool, DiscardConnection
  <2>3. Len(pool') <= Len(pool) + 1 /\ Len(pool') \in Nat
    BY <1>1, <2>2
  <2>4. hh = h - 1
    BY ONLY <1>4, <2>1
  <2> QED
    BY ONLY <1>1, <1>2, <2>3, <2>4, SizeAssumption
<1>8. ASSUME \/ \E c \in Conn : WatchConnection(c) \/ ConnectionDies(c) \/ replaceDeadConnection(c)
             \/ UNCHANGED vars
      PROVE  Len(pool') + hh <= PoolSize + n - 1
  <2>1. /\ held' = held
        /\ \/ pool' = pool
           \/ \E c \in Conn : pool' = [i \in DOMAIN pool |-> IF pool[i] = c THEN dials + 1 ELSE pool[i]]
    BY <1>8 DEF WatchConnection, ConnectionDies, replaceDeadConnection, vars
  <2>2. Len(pool') = Len(pool)
    BY <1>1, <2>1
  <2> QED
    BY ONLY <1>1, <1>2, <1>3, <2>1, <2>2
<1> QED
  BY <1>5, <1>6, <1>7, <1>8 DEF Next, GetConnectionFromPool

(* However many dials and deaths there are, the pool and its users never   *)
(* have more connections than PoolSize and one for each other user         *)
(* (refillConnectionPool).                                                 *)
THEOREM PoolIsBounded ==
  ASSUME IsFiniteSet(User), User # {}
  PROVE  Spec => []ConnectionsBounded
<1>1. Init => ConnectionsBounded
  <2> SUFFICES ASSUME Init
               PROVE  ConnectionsBounded
    OBVIOUS
  <2>1. Held = {} /\ pool = [i \in 1..PoolSize |-> i]
    BY DEF Init, Held
  <2>2. Len(pool) = PoolSize /\ Cardinality(Held) = 0
    BY <2>1, FS_EmptySet
  <2>3. Cardinality(User) \in Nat /\ Cardinality(User) # 0
    BY FS_CardinalityType, FS_EmptySet
  <2> QED
    BY ONLY <2>2, <2>3, SizeAssumption DEF ConnectionsBounded
<1>2. IndInv /\ ConnectionsBounded /\ [Next]_vars => ConnectionsBounded'
  BY BoundedStep DEF IndInv, PoolInv
<1> QED
  BY <1>1, <1>2, Invariant, PTL DEF Spec
=============================================================================
