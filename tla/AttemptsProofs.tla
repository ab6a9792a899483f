--------------------------- MODULE AttemptsProofs ---------------------------
(***************************************************************************)
(* How often TaskRegistrar starts the task function of a task, at most:    *)
(* RetryCount + 1 times, and f faults add what AttemptsBounded allows.     *)
(* The proof gives to every message, every busy worker and the client the  *)
(* starts it may still cause, and shows that no step lets the sum of what  *)
(* was started and what may still be started grow beyond the bound.        *)
(***************************************************************************)
EXTENDS TaskRegistrarProofs, Counting

-----------------------------------------------------------------------------
(* Starts(r, j): how often a task function can be started by a message     *)
(* with r starts left, when j - 1 faults are still to come.  A fault can   *)
(* revive every message that is not acknowledged yet, so that the message  *)
(* is worth one start, and what its retry is worth, and what itself is     *)
(* worth with one fault less: Pascal's rule.                               *)
Starts(r, j) == choose(r + j, j) - 1

(* That recursion, and its ends: with no start left, or no fault to come   *)
(* after the acknowledgement, nothing is started.                          *)
LEMMA StartsRule ==
  ASSUME NEW r \in Nat, NEW j \in Nat
  PROVE  /\ Starts(r, j) \in Nat
         /\ Starts(0, j) = 0 /\ Starts(r, 0) = 0
         /\ Starts(r + 1, j + 1) = 1 + Starts(r, j + 1) + Starts(r + 1, j)
<1>1. choose((r + 1) + (j + 1), j + 1) = choose(r + (j + 1), j + 1) + choose((r + 1) + j, j)
  BY Pascal
<1>2. /\ choose(r + (j + 1), j + 1) \in Nat \ {0} /\ choose((r + 1) + j, j) \in Nat \ {0}
      /\ choose(r + j, j) \in Nat \ {0}
      /\ choose(0 + j, j) = 1 /\ choose(r + 0, 0) = 1
  BY Pascal, r + 1 \in Nat, j + 1 \in Nat
<1> QED
  BY <1>1, <1>2 DEF Starts

(* One more fault to come never means fewer starts. *)
LEMMA StartsGrow ==
  ASSUME NEW r \in Nat, NEW j \in Nat
  PROVE  Starts(r, j) <= Starts(r, j + 1)
<1>1. CASE r = 0
  BY <1>1, StartsRule
<1>2. CASE r # 0
  <2>1. r - 1 \in Nat /\ (r - 1) + 1 = r
    BY <1>2
  <2>2. Starts(r, j + 1) = 1 + Starts(r - 1, j + 1) + Starts(r, j)
    BY <2>1, StartsRule
  <2>3. Starts(r - 1, j + 1) \in Nat /\ Starts(r, j) \in Nat
    BY <2>1, StartsRule, j + 1 \in Nat
  <2> QED
    BY <2>2, <2>3
<1> QED
  BY <1>1, <1>2

-----------------------------------------------------------------------------
(* Who may still cause starts.                                             *)

(* The retries of every signature submitted are few enough for every retry *)
(* interval to be positive, so that retryTask counts each of them.         *)
FewRetries == \A s \in Submissions : s.RetryCount < DelayOverflow

(* Starts left to a signature: the next one, and one for every retry.      *)
Left(s) == s.RetryCount + 1 - s.RetriesDone

(* A delivery whose worker is about to nack it with requeue. *)
Requeued(m) == \E w \in Worker : job[w] = m /\ pc[w] = "requeue"

(* The starts of t that message m may still cause with j - 1 faults to     *)
(* come: none when it is parked; when it is delivered, its worker answers  *)
(* for the next start, and m counts only when a fault revives it.          *)
MessageStarts(m, t, j) ==
  IF place[m] = "free" \/ place[m] \in Parking \/ sig[m].task # t THEN 0
  ELSE IF place[m] = "unacked" /\ ~Requeued(m) THEN Starts(Left(sig[m]), j - 1)
  ELSE Starts(Left(sig[m]), j)

(* The same for worker w: the start it is about to make, and those of the  *)
(* retry that it publishes.                                                *)
WorkerStarts(w, t, j) ==
  IF pc[w] = "idle" \/ wsig[w].task # t THEN 0
  ELSE IF pc[w] = "received" THEN 1 + Starts(Left(wsig[w]) - 1, j)
  ELSE IF pc[w] = "running" THEN Starts(Left(wsig[w]) - 1, j)
  ELSE IF pc[w] = "publish" /\ wsig[w].RoutingKey \notin Parking THEN Starts(Left(wsig[w]), j)
  ELSE 0

(* The same for the client. *)
ClientStarts(t, j) ==
  IF client[t] = "unsent" THEN Starts(request[t].RetryCount + 1, j) ELSE 0

Message(m) == <<"message", m>>
Busy(w) == <<"worker", w>>
Client == <<"client", None>>
Holder == {Message(m) : m \in MsgId} \cup {Busy(w) : w \in Worker} \cup {Client}

Allowed(t, j) ==
  [h \in Holder |-> IF h[1] = "message" THEN MessageStarts(h[2], t, j)
                    ELSE IF h[1] = "worker" THEN WorkerStarts(h[2], t, j)
                    ELSE ClientStarts(t, j)]

(* A signature on its way counts its retries, and never more than were     *)
(* asked for...                                                            *)
Counted(s) ==
  s \in Signature /\ s.RetryCount = request[s.task].RetryCount /\ s.RetriesDone <= s.RetryCount

CountsOK ==
  /\ \A m \in MsgId : place[m] # "free" => Counted(sig[m])
  /\ \A w \in Worker : pc[w] # "idle" => Counted(wsig[w])

(* ... and what was started and what may still be, for however many faults *)
(* to come, is never more than the client's submission allows.             *)
StartsAreAllowed ==
  \A t \in Task, j \in Nat \ {0} :
    execs[t] + Total(Allowed(t, j), Holder) <= Starts(request[t].RetryCount + 1, faults + j)

-----------------------------------------------------------------------------
(* What a signature, a message, a worker and a client may cause.           *)

(* The starts of a counted signature are numbers that obey Pascal's rule.  *)
LEMMA CountedStarts ==
  ASSUME NEW s \in Signature, s.RetriesDone <= s.RetryCount, NEW j \in Nat \ {0}
  PROVE  /\ Left(s) \in Nat /\ Left(s) - 1 \in Nat
         /\ Starts(Left(s), j - 1) \in Nat /\ Starts(Left(s), j) \in Nat
         /\ Starts(Left(s), j + 1) \in Nat
         /\ Starts(Left(s) - 1, j) \in Nat /\ Starts(Left(s) - 1, j + 1) \in Nat
         /\ Starts(Left(s), j - 1) <= Starts(Left(s), j)
         /\ Starts(Left(s), j) <= Starts(Left(s), j + 1)
         /\ Starts(Left(s) - 1, j) <= Starts(Left(s) - 1, j + 1)
         /\ Starts(Left(s), j) = 1 + Starts(Left(s) - 1, j) + Starts(Left(s), j - 1)
<1> DEFINE r == Left(s) - 1
           i == j - 1
<1>1. Left(s) \in Nat /\ r \in Nat /\ r + 1 = Left(s) /\ i \in Nat /\ i + 1 = j
  BY DEF Left, Signature
<1> HIDE DEF r, i
<1>2. /\ Starts(r + 1, i) \in Nat /\ Starts(r + 1, i + 1) \in Nat /\ Starts(r, i + 1) \in Nat
      /\ Starts(r + 1, j + 1) \in Nat /\ Starts(r, j + 1) \in Nat
  BY <1>1, StartsRule, r + 1 \in Nat, i + 1 \in Nat, j + 1 \in Nat
<1>3. /\ Starts(r + 1, i) <= Starts(r + 1, i + 1)
      /\ Starts(r + 1, j) <= Starts(r + 1, j + 1)
      /\ Starts(r, j) <= Starts(r, j + 1)
  BY <1>1, StartsGrow, r + 1 \in Nat, j \in Nat
<1>4. Starts(r + 1, i + 1) = 1 + Starts(r, i + 1) + Starts(r + 1, i)
  BY <1>1, StartsRule
<1> QED
  BY <1>1, <1>2, <1>3, <1>4 DEF r, i

(* What a request may cause is a number that grows with the faults.        *)
LEMMA RequestStarts ==
  ASSUME TypeOK, NEW t \in Task, NEW j \in Nat
  PROVE  /\ request[t].RetryCount \in Nat
         /\ Starts(request[t].RetryCount + 1, j) \in Nat
         /\ Starts(request[t].RetryCount + 1, j) <= Starts(request[t].RetryCount + 1, j + 1)
<1>1. request[t].RetryCount \in Nat /\ request[t].RetryCount + 1 \in Nat
  BY SubmissionsAssumption DEF TypeOK
<1> QED
  BY <1>1, StartsRule, StartsGrow

(* The starts allowed to each holder are numbers, in every state and in    *)
(* the next one.                                                           *)
LEMMA AllowedType ==
  ASSUME NEW t \in Task, NEW j \in Nat \ {0}
  PROVE  /\ TypeOK /\ CountsOK => \A h \in Holder : Allowed(t, j)[h] \in Nat
         /\ TypeOK' /\ CountsOK' => \A h \in Holder : Allowed(t, j)'[h] \in Nat
<1>1. ASSUME TypeOK, CountsOK
      PROVE  /\ \A m \in MsgId : MessageStarts(m, t, j) \in Nat
             /\ \A w \in Worker : WorkerStarts(w, t, j) \in Nat
             /\ ClientStarts(t, j) \in Nat
  <2>1. ASSUME NEW m \in MsgId PROVE MessageStarts(m, t, j) \in Nat
    BY <1>1, <2>1, CountedStarts DEF CountsOK, Counted, MessageStarts
  <2>2. ASSUME NEW w \in Worker PROVE WorkerStarts(w, t, j) \in Nat
    BY <1>1, <2>2, CountedStarts DEF CountsOK, Counted, WorkerStarts
  <2>3. ClientStarts(t, j) \in Nat
    BY <1>1, RequestStarts DEF ClientStarts
  <2> QED
    BY <2>1, <2>2, <2>3
<1>2. ASSUME TypeOK', CountsOK'
      PROVE  /\ \A m \in MsgId : MessageStarts(m, t, j)' \in Nat
             /\ \A w \in Worker : WorkerStarts(w, t, j)' \in Nat
             /\ ClientStarts(t, j)' \in Nat
  <2>1. ASSUME NEW m \in MsgId PROVE MessageStarts(m, t, j)' \in Nat
    BY <1>2, <2>1, CountedStarts DEF CountsOK, Counted, MessageStarts
  <2>2. ASSUME NEW w \in Worker PROVE WorkerStarts(w, t, j)' \in Nat
    <3>1. CASE pc'[w] # "idle"
      <4>1. wsig'[w] \in Signature /\ wsig'[w].RetriesDone <= wsig'[w].RetryCount
        BY <1>2, <3>1 DEF CountsOK, Counted
      <4>2. Starts(Left(wsig'[w]), j) \in Nat /\ Starts(Left(wsig'[w]) - 1, j) \in Nat
        BY <4>1, CountedStarts
      <4> QED
        BY <3>1, <4>2 DEF WorkerStarts
    <3> QED
      BY <3>1 DEF WorkerStarts
  <2>3. request'[t].RetryCount + 1 \in Nat
    BY <1>2, SubmissionsAssumption DEF TypeOK
  <2>4. ClientStarts(t, j)' \in Nat
    BY <2>3, StartsRule DEF ClientStarts
  <2> QED
    BY <2>1, <2>2, <2>4
<1> QED
  BY <1>1, <1>2 DEF Allowed, Holder, Message, Busy, Client

(* The holders, and what each is allowed. *)
LEMMA Holders ==
  /\ \A m \in MsgId : Message(m) \in Holder
  /\ \A w \in Worker : Busy(w) \in Holder
  /\ Client \in Holder
  /\ \A m \in MsgId, w \in Worker : Message(m) # Busy(w) /\ Message(m) # Client /\ Busy(w) # Client
  /\ \A t, j : /\ \A m \in MsgId : Allowed(t, j)[Message(m)] = MessageStarts(m, t, j)
               /\ \A w \in Worker : Allowed(t, j)[Busy(w)] = WorkerStarts(w, t, j)
               /\ Allowed(t, j)[Client] = ClientStarts(t, j)
  /\ \A t, j : /\ \A m \in MsgId : Allowed(t, j)'[Message(m)] = MessageStarts(m, t, j)'
               /\ \A w \in Worker : Allowed(t, j)'[Busy(w)] = WorkerStarts(w, t, j)'
               /\ Allowed(t, j)'[Client] = ClientStarts(t, j)'
BY DEF Holder, Message, Busy, Client, Allowed

(* There are finitely many holders. *)
LEMMA HolderFinite ==
  ASSUME IsFiniteSet(MsgId), IsFiniteSet(Worker)
  PROVE  IsFiniteSet(Holder)
<1>1. Holder = (({"message"} \X MsgId) \cup ({"worker"} \X Worker)) \cup {Client}
  BY DEF Holder, Message, Busy
<1>2. IsFiniteSet({"message"}) /\ IsFiniteSet({"worker"}) /\ IsFiniteSet({Client})
  BY FS_Singleton
<1>3. IsFiniteSet({"message"} \X MsgId) /\ IsFiniteSet({"worker"} \X Worker)
  BY <1>2, FS_Product
<1>4. IsFiniteSet(({"message"} \X MsgId) \cup ({"worker"} \X Worker))
  BY <1>3, FS_Union
<1> QED
  BY <1>1, <1>2, <1>4, FS_Union
-----------------------------------------------------------------------------
(* What a step does to the sum.                                            *)

(* The sum over the starts made and the starts allowed does not grow, when *)
(* k - j faults happen in the step.                                        *)
Pays(t, j, k) ==
  execs'[t] + Total(Allowed(t, j), Holder)' <= execs[t] + Total(Allowed(t, k), Holder)

(* A message that stays where it is, and is not about to be requeued when  *)
(* it was not, is allowed no more.                                         *)
LEMMA MessageKept ==
  ASSUME CountsOK, UNCHANGED cfg, NEW t \in Task, NEW j \in Nat \ {0}, NEW k \in {j, j + 1},
         NEW m \in MsgId, place'[m] = place[m], sig'[m] = sig[m],
         k = j + 1 \/ place[m] # "unacked" \/ (Requeued(m)' => Requeued(m))
  PROVE  MessageStarts(m, t, j)' <= MessageStarts(m, t, k)
<1>1. Parking' = Parking
  BY DEF Parking
<1>2. CASE place[m] = "free" \/ place[m] \in Parking \/ sig[m].task # t
  BY <1>1, <1>2 DEF MessageStarts
<1>3. CASE ~(place[m] = "free" \/ place[m] \in Parking \/ sig[m].task # t)
  <2> DEFINE l == Left(sig[m])
  <2>1. /\ Starts(l, j - 1) \in Nat /\ Starts(l, j) \in Nat /\ Starts(l, j + 1) \in Nat
        /\ Starts(l, j - 1) <= Starts(l, j) /\ Starts(l, j) <= Starts(l, j + 1)
    BY <1>3, CountedStarts DEF CountsOK, Counted
  <2>2. /\ MessageStarts(m, t, j)' = IF place[m] = "unacked" /\ ~Requeued(m)' THEN Starts(l, j - 1)
                                     ELSE Starts(l, j)
        /\ MessageStarts(m, t, k) = IF place[m] = "unacked" /\ ~Requeued(m) THEN Starts(l, k - 1)
                                    ELSE Starts(l, k)
    BY <1>1, <1>3 DEF MessageStarts
  <2> HIDE DEF l
  <2>3. CASE k = j
    BY <2>1, <2>2, <2>3
  <2>4. CASE k = j + 1
    <3>1. k - 1 = j
      BY <2>4
    <3> QED
      BY <2>1, <2>2, <2>4, <3>1
  <2> QED
    BY <2>3, <2>4
<1> QED
  BY <1>2, <1>3

(* No message is allowed more than its signature is. *)
LEMMA MessageAtMost ==
  ASSUME CountsOK', NEW t \in Task, NEW j \in Nat \ {0}, NEW m \in MsgId
  PROVE  /\ place'[m] # "free" /\ sig'[m].task = t =>
              MessageStarts(m, t, j)' <= Starts(Left(sig'[m]), j)
         /\ place'[m] = "free" \/ sig'[m].task # t => MessageStarts(m, t, j)' = 0
<1>1. CASE place'[m] # "free" /\ sig'[m].task = t
  <2>1. sig'[m] \in Signature /\ sig'[m].RetriesDone <= sig'[m].RetryCount
    BY <1>1 DEF CountsOK, Counted
  <2>2. /\ Starts(Left(sig'[m]), j) \in Nat
        /\ Starts(Left(sig'[m]), j - 1) <= Starts(Left(sig'[m]), j)
    BY <2>1, CountedStarts
  <2> QED
    BY <1>1, <2>2 DEF MessageStarts
<1> QED
  BY <1>1 DEF MessageStarts

(* A worker that stays where it is is allowed no more. *)
LEMMA WorkerKept ==
  ASSUME CountsOK, UNCHANGED cfg, NEW t \in Task, NEW j \in Nat \ {0}, NEW k \in {j, j + 1},
         NEW w \in Worker, pc'[w] = pc[w], wsig'[w] = wsig[w]
  PROVE  WorkerStarts(w, t, j)' <= WorkerStarts(w, t, k)
<1>1. Parking' = Parking
  BY DEF Parking
<1>2. CASE pc[w] = "idle" \/ wsig[w].task # t
  BY <1>2 DEF WorkerStarts
<1>3. CASE ~(pc[w] = "idle" \/ wsig[w].task # t)
  <2> DEFINE l == Left(wsig[w])
  <2>1. /\ Starts(l, j) \in Nat /\ Starts(l, j + 1) \in Nat /\ Starts(l, j) <= Starts(l, j + 1)
        /\ Starts(l - 1, j) \in Nat /\ Starts(l - 1, j + 1) \in Nat
        /\ Starts(l - 1, j) <= Starts(l - 1, j + 1)
    BY <1>3, CountedStarts DEF CountsOK, Counted
  <2>2. Starts(l, j) <= Starts(l, k) /\ Starts(l - 1, j) <= Starts(l - 1, k)
        /\ Starts(l, k) \in Nat /\ Starts(l - 1, k) \in Nat
    <3> HIDE DEF l
    <3> QED
      BY <2>1
  <2>3. \A i : WorkerStarts(w, t, i) = IF pc[w] = "received" THEN 1 + Starts(l - 1, i)
                  ELSE IF pc[w] = "running" THEN Starts(l - 1, i)
                  ELSE IF pc[w] = "publish" /\ wsig[w].RoutingKey \notin Parking THEN Starts(l, i)
                  ELSE 0
    BY <1>3 DEF WorkerStarts
  <2>4. WorkerStarts(w, t, j)' = WorkerStarts(w, t, j)
    BY <1>1 DEF WorkerStarts
  <2> HIDE DEF l
  <2> QED
    BY <2>1, <2>2, <2>3, <2>4
<1> QED
  BY <1>2, <1>3

(* So is the client, whatever it is told. *)
LEMMA ClientKept ==
  ASSUME TypeOK, UNCHANGED request, NEW t \in Task, NEW j \in Nat \ {0}, NEW k \in {j, j + 1},
         client'[t] = "unsent" => client[t] = "unsent"
  PROVE  ClientStarts(t, j)' <= ClientStarts(t, k)
<1> DEFINE r == request[t].RetryCount + 1
<1>1. Starts(r, j) \in Nat /\ Starts(r, j + 1) \in Nat /\ Starts(r, j) <= Starts(r, j + 1)
  BY RequestStarts, j + 1 \in Nat
<1>2. /\ ClientStarts(t, j)' = IF client'[t] = "unsent" THEN Starts(r, j) ELSE 0
      /\ ClientStarts(t, k) = IF client[t] = "unsent" THEN Starts(r, k) ELSE 0
  BY DEF ClientStarts
<1> HIDE DEF r
<1> QED
  BY <1>1, <1>2

(* A step pays when nobody is allowed more and nothing is started... *)
LEMMA PaysPointwise ==
  ASSUME IsFiniteSet(MsgId), IsFiniteSet(Worker), TypeOK, CountsOK, TypeOK', CountsOK',
         NEW t \in Task, NEW j \in Nat \ {0}, NEW k \in {j, j + 1}, execs'[t] = execs[t],
         \A m \in MsgId : MessageStarts(m, t, j)' <= MessageStarts(m, t, k),
         \A w \in Worker : WorkerStarts(w, t, j)' <= WorkerStarts(w, t, k),
         ClientStarts(t, j)' <= ClientStarts(t, k)
  PROVE  Pays(t, j, k)
<1> DEFINE F == Allowed(t, k)
           G == Allowed(t, j)'
<1>0. k \in Nat \ {0}
  OBVIOUS
<1>1. \A h \in Holder : F[h] \in Nat /\ G[h] \in Nat
  BY <1>0, AllowedType
<1>2. \A h \in Holder : G[h] <= F[h]
  BY Holders DEF Holder
<1>3. IsFiniteSet(Holder)
  BY HolderFinite
<1> HIDE DEF F, G
<1>4. Total(G, Holder) <= Total(F, Holder) /\ Total(G, Holder) \in Nat /\ Total(F, Holder) \in Nat
  BY <1>1, <1>2, <1>3, MonotoneTotal, FiniteTokens
<1>5. Total(Allowed(t, j), Holder)' = Total(G, Holder)
  BY DEF Total, Tokens, Holder, Message, Busy, Client, G
<1>6. execs[t] \in Nat
  BY DEF TypeOK
<1> QED
  BY <1>4, <1>5, <1>6 DEF Pays, F

(* ... or when two holders between them lose what is started. *)
LEMMA PaysShifted ==
  ASSUME IsFiniteSet(MsgId), IsFiniteSet(Worker), TypeOK, CountsOK, TypeOK', CountsOK',
         NEW t \in Task, NEW j \in Nat \ {0}, NEW k \in {j, j + 1},
         NEW x \in Holder, NEW y \in Holder, x # y,
         NEW e \in Nat, execs'[t] = execs[t] + e,
         Allowed(t, j)'[x] + Allowed(t, j)'[y] + e <= Allowed(t, k)[x] + Allowed(t, k)[y],
         \A m \in MsgId : Message(m) \notin {x, y} =>
           MessageStarts(m, t, j)' <= MessageStarts(m, t, k),
         \A w \in Worker : Busy(w) \notin {x, y} =>
           WorkerStarts(w, t, j)' <= WorkerStarts(w, t, k),
         Client \notin {x, y} => ClientStarts(t, j)' <= ClientStarts(t, k)
  PROVE  Pays(t, j, k)
<1> DEFINE F == Allowed(t, k)
           G == Allowed(t, j)'
<1>0. k \in Nat \ {0}
  OBVIOUS
<1>1. \A h \in Holder : F[h] \in Nat /\ G[h] \in Nat
  BY <1>0, AllowedType
<1>2. \A h \in Holder \ {x, y} : G[h] <= F[h]
  BY Holders DEF Holder
<1>3. IsFiniteSet(Holder)
  BY HolderFinite
<1>4. G[x] + G[y] + e <= F[x] + F[y]
  OBVIOUS
<1> HIDE DEF F, G
<1>5. Total(G, Holder) + e <= Total(F, Holder)
  BY <1>1, <1>2, <1>3, <1>4, ShiftTotal
<1>6. Total(G, Holder) \in Nat /\ Total(F, Holder) \in Nat
  BY <1>1, <1>3, FiniteTokens
<1>7. Total(Allowed(t, j), Holder)' = Total(G, Holder)
  BY DEF Total, Tokens, Holder, Message, Busy, Client, G
<1>8. execs[t] \in Nat
  BY DEF TypeOK
<1> QED
  BY <1>5, <1>6, <1>7, <1>8 DEF Pays, F
-----------------------------------------------------------------------------
(* Every signature on its way counts its retries.                          *)

(* A step that changes no signature but by storing a counted one leaves    *)
(* every message counted.                                                  *)
LEMMA StoreCounts ==
  ASSUME TypeOK, CountsOK, UNCHANGED request, NEW s, Counted(s), Store(s) \/ UNCHANGED broker
  PROVE  \A m \in MsgId : place'[m] # "free" => Counted(sig[m])'
<1>1. CASE UNCHANGED broker
  BY <1>1 DEF CountsOK, Counted, broker
<1>2. ASSUME NEW n \in MsgId, Stored(s, n), NEW m \in MsgId, place'[m] # "free"
      PROVE  Counted(sig[m])'
  <2>1. CASE m = n
    BY <1>2, <2>1 DEF TypeOK, Stored, Counted
  <2>2. CASE m # n
    BY <1>2, <2>2 DEF TypeOK, Stored, CountsOK, Counted
  <2> QED
    BY <2>1, <2>2
<1> QED
  BY <1>1, <1>2, StoreEffect

(* What retryTask makes of a counted signature is counted; when it counts  *)
(* a retry, the signature has one start less left.                         *)
LEMMA RetryCounts ==
  ASSUME TypeOK, CountsOK, NEW w \in Worker, pc[w] = "running", retryTask(w)
  PROVE  /\ Counted(wsig'[w]) /\ wsig'[w].task = wsig[w].task
         /\ FewRetries => \/ pc'[w] = "ack"
                          \/ pc'[w] = "publish" /\ wsig'[w].RoutingKey \in Parking
                          \/ pc'[w] = "publish" /\ Left(wsig'[w]) = Left(wsig[w]) - 1
<1> DEFINE s == wsig[w]
           f == [s EXCEPT !.RoutingKey = cfg.FailedQueue]
<1>1. Counted(s) /\ s \in Signature /\ cfg \in Configs
  BY DEF TypeOK, CountsOK, Counted
<1>2. pc \in [Worker -> {"idle", "received", "running", "publish", "ack", "requeue", "drop"}]
      /\ wsig \in [Worker -> Signature \cup {None}]
  BY DEF TypeOK
<1>3. CASE exhausted(s) /\ cfg.FailedQueue = ""
  <2>1. pc' = [pc EXCEPT ![w] = "ack"] /\ wsig' = wsig
    BY <1>3 DEF retryTask
  <2> QED
    BY <1>1, <1>2, <2>1
<1>4. CASE exhausted(s) /\ cfg.FailedQueue # ""
  <2>1. pc' = [pc EXCEPT ![w] = "publish"] /\ wsig' = [wsig EXCEPT ![w] = f]
    BY <1>4 DEF retryTask
  <2>2. /\ f \in Signature /\ f.task = s.task /\ f.RetryCount = s.RetryCount
        /\ f.RetriesDone = s.RetriesDone /\ f.RoutingKey = cfg.FailedQueue
    <3>1. cfg.FailedQueue \in STRING
      BY <1>1, Names DEF Config
    <3>2. f \in Signature
      BY <1>1, <3>1, RedirectedSignature
    <3> QED
      BY <1>1, <3>2 DEF Signature
  <2>3. cfg.FailedQueue \in Parking
    BY <1>4 DEF Parking
  <2> HIDE DEF f
  <2>4. pc'[w] = "publish" /\ wsig'[w] = f
    BY <1>2, <2>1
  <2> QED
    BY <1>1, <2>2, <2>3, <2>4 DEF Counted
<1>5. CASE ~exhausted(s)
  <2>1. pc'[w] = "publish"
    BY <1>2, <1>5 DEF retryTask
  <2>2. s.RetriesDone \in Nat /\ s.RetryCount \in Nat /\ s.RetriesDone + 1 <= s.RetryCount
    BY <1>1, <1>5 DEF exhausted, Signature
  <2>3. CASE wsig' = [wsig EXCEPT ![w] = Retried(s)]
    <3>1. /\ wsig'[w] = Retried(s) /\ Retried(s) \in Signature /\ Retried(s).task = s.task
          /\ Retried(s).RetryCount = s.RetryCount
          /\ Retried(s).RetriesDone = s.RetriesDone + 1
      BY <1>1, <1>2, <2>3, RetriedSignature
    <3>2. Left(Retried(s)) = Left(s) - 1
      BY <2>2, <3>1 DEF Left
    <3> QED
      BY <1>1, <2>1, <2>2, <3>1, <3>2 DEF Counted
  <2>4. CASE ~retryIntervalPositive(s.RetriesDone + 1)
    <3>1. wsig' = wsig
      BY <1>5, <2>4 DEF retryTask
    <3>2. ~FewRetries
      <4>1. s.RetryCount = request[s.task].RetryCount /\ s.task \in Task
        BY <1>1 DEF Counted, Signature
      <4>2. request[s.task] \in Submissions
        BY <4>1 DEF TypeOK
      <4> QED
        BY <2>2, <2>4, <4>1, <4>2, BoundsAssumption DEF FewRetries, retryIntervalPositive
    <3> QED
      BY <1>1, <3>1, <3>2
  <2> QED
    BY <1>5, <2>3, <2>4 DEF retryTask
<1> QED
  BY <1>3, <1>4, <1>5

(* The request is fixed. *)
LEMMA RequestFixed ==
  ASSUME Next
  PROVE  UNCHANGED fixed
BY DEF Next, SendTask, StartDeadlinePasses, Deliver, Decide, RejectDelivery,
       pushToTimeoutAmqpQueue, ExecuteTask, TaskEnds, TaskSucceeds, TaskFails,
       ExecutionTimesOut, PublishAgain, Settle, Expire, ChannelCloses, Crash

(* Every step keeps the signatures counted. *)
LEMMA CountsStep ==
  ASSUME TypeOK, HeldOnce, CountsOK, Next
  PROVE  CountsOK'
<1> USE DEF fixed, worker, ghosts
<1>0. UNCHANGED request /\ UNCHANGED cfg /\ cfg \in Configs
  BY RequestFixed DEF TypeOK
<1> DEFINE Messages == \A m \in MsgId : place'[m] # "free" => Counted(sig[m])'
           Workers == \A w \in Worker : pc'[w] # "idle" => Counted(wsig[w])'
<1>1. Messages /\ Workers => CountsOK'
  BY DEF CountsOK
<1>2. \A s : Counted(s)' <=> Counted(s)
  BY <1>0 DEF Counted
<1>3. UNCHANGED <<pc, wsig>> => Workers
  BY <1>0 DEF CountsOK, Counted
<1>4. UNCHANGED broker => Messages
  BY <1>0 DEF CountsOK, Counted, broker
<1>5. ASSUME NEW t \in Task, SendTask(t) PROVE CountsOK'
  <2>1. Counted(AsSent(t))
    <3>1. AsSent(t).RetriesDone = 0
      BY DEF AsSent
    <3> QED
      BY <3>1, SentSignature DEF Counted, Signature
  <2>2. Messages
    BY <1>0, <1>5, <2>1, StoreCounts DEF SendTask, PublishOk, PublishFails
  <2> QED
    BY <1>1, <1>3, <1>5, <2>2 DEF SendTask
<1>6. ASSUME NEW t \in Task, StartDeadlinePasses(t) PROVE CountsOK'
  BY <1>1, <1>3, <1>4, <1>6 DEF StartDeadlinePasses, broker
<1>7. ASSUME NEW w \in Worker, NEW m \in MsgId, Deliver(w, m) PROVE CountsOK'
  <2>1. place[m] # "free" /\ place[m] = cfg.TaskQueueName
    BY <1>0, <1>7, Names DEF Deliver
  <2>2. Messages
    BY <1>0, <1>7, <2>1 DEF Deliver, TypeOK, CountsOK, Counted
  <2>3. PICK eta \in Aged(sig[m].ETA) :
          wsig' = [wsig EXCEPT ![w] = [Decoded(sig[m]) EXCEPT !.ETA = eta]]
    BY <1>7 DEF Deliver
  <2> DEFINE d == [Decoded(sig[m]) EXCEPT !.ETA = eta]
  <2>4. Counted(sig[m]) /\ sig[m] \in Signature
    BY <2>1 DEF CountsOK, Counted
  <2>5. /\ d \in Signature /\ d.task = sig[m].task
        /\ d.RetryCount = sig[m].RetryCount /\ d.RetriesDone = sig[m].RetriesDone
    BY <2>4, DecodedSignature
  <2> HIDE DEF d
  <2>6. Counted(d)
    BY <2>4, <2>5 DEF Counted
  <2>7. /\ wsig'[w] = d /\ \A v \in Worker \ {w} : wsig'[v] = wsig[v] /\ pc'[v] = pc[v]
    BY <1>7, <2>3 DEF TypeOK, Deliver, d
  <2>8. Workers
    BY <1>2, <2>6, <2>7, <1>0 DEF CountsOK, Counted
  <2> QED
    BY <1>1, <2>2, <2>8
<1>8. ASSUME NEW w \in Worker, pc[w] # "idle", UNCHANGED broker, Counted(wsig'[w]),
             \A v \in Worker \ {w} : wsig'[v] = wsig[v] /\ pc'[v] = pc[v]
      PROVE  CountsOK'
  <2>1. Workers
    BY <1>0, <1>8 DEF CountsOK, Counted
  <2> QED
    BY <1>1, <1>4, <1>8, <2>1
<1>9. ASSUME NEW w \in Worker, Decide(w) PROVE CountsOK'
  <2>1. pc[w] # "idle" /\ UNCHANGED broker
    BY <1>9 DEF Decide, RejectDelivery, pushToTimeoutAmqpQueue, ExecuteTask
  <2>2. \A v \in Worker \ {w} : wsig'[v] = wsig[v] /\ pc'[v] = pc[v]
    BY <1>9, WorkerMoves DEF Moves
  <2>3. Counted(wsig[w]) /\ wsig[w] \in Signature
    BY <2>1 DEF CountsOK, Counted
  <2>4. Counted(wsig'[w])
    <3>1. CASE UNCHANGED wsig
      BY <2>3, <3>1
    <3>2. CASE pushToTimeoutAmqpQueue(w) /\ ~UNCHANGED wsig
      <4> DEFINE d == [wsig[w] EXCEPT !.TaskTimeOut = FALSE, !.RoutingKey = cfg.TimeoutQueue]
      <4>1. wsig' = [wsig EXCEPT ![w] = d]
        BY <3>2 DEF pushToTimeoutAmqpQueue
      <4>2. d \in Signature
        BY <1>0, <2>3, RedirectedSignature, Names DEF Config
      <4>3. /\ d.task = wsig[w].task /\ d.RetryCount = wsig[w].RetryCount
            /\ d.RetriesDone = wsig[w].RetriesDone
        BY <2>3 DEF Signature
      <4> HIDE DEF d
      <4>4. wsig'[w] = d
        BY <4>1 DEF TypeOK
      <4> QED
        BY <2>3, <4>2, <4>3, <4>4 DEF Counted
    <3> QED
      BY <1>9, <3>1, <3>2 DEF Decide, RejectDelivery, ExecuteTask
  <2> QED
    BY <1>8, <2>1, <2>2, <2>4
<1>10. ASSUME NEW w \in Worker, TaskEnds(w) PROVE CountsOK'
  <2>1. pc[w] = "running" /\ UNCHANGED broker
    BY <1>10 DEF TaskEnds, TaskSucceeds, TaskFails, ExecutionTimesOut
  <2>2. \A v \in Worker \ {w} : wsig'[v] = wsig[v] /\ pc'[v] = pc[v]
    BY <1>10, WorkerMoves DEF Moves
  <2>3. Counted(wsig'[w])
    <3>1. CASE TaskSucceeds(w)
      BY <2>1, <3>1 DEF TaskSucceeds, CountsOK
    <3>2. CASE retryTask(w)
      BY <2>1, <3>2, RetryCounts
    <3> QED
      BY <1>10, <3>1, <3>2 DEF TaskEnds, TaskFails, ExecutionTimesOut
  <2> QED
    BY <1>8, <2>1, <2>2, <2>3
<1>11. ASSUME NEW w \in Worker, PublishAgain(w) PROVE CountsOK'
  <2>1. pc[w] = "publish" /\ UNCHANGED wsig /\ (Store(wsig[w]) \/ UNCHANGED broker)
    BY <1>11 DEF PublishAgain, PublishOk, PublishFails
  <2>2. Counted(wsig[w])
    BY <2>1 DEF CountsOK
  <2>3. Messages
    BY <1>0, <2>1, <2>2, StoreCounts
  <2>4. \A v \in Worker \ {w} : pc'[v] = pc[v]
    BY <1>11, WorkerMoves DEF Moves
  <2>5. Workers
    BY <1>0, <2>1, <2>2, <2>4 DEF CountsOK, Counted
  <2> QED
    BY <1>1, <2>3, <2>5
<1>12. ASSUME NEW w \in Worker, Settle(w) PROVE CountsOK'
  <2>1. \A v \in Worker : pc'[v] # "idle" => pc'[v] = pc[v] /\ wsig'[v] = wsig[v]
    BY <1>12 DEF TypeOK, Settle, Finish
  <2>2. Workers
    BY <1>0, <2>1 DEF CountsOK, Counted
  <2>3. ASSUME NEW m \in MsgId, place'[m] # "free"
        PROVE  place[m] # "free" /\ sig'[m] = sig[m]
    <3>1. CASE job[w] = None
      BY <1>12, <2>3, <3>1 DEF Settle, broker
    <3>2. CASE job[w] # None /\ pc[w] = "requeue"
      BY <1>12, <2>3, <3>2 DEF TypeOK, HeldOnce, Settle
    <3>3. CASE job[w] # None /\ pc[w] # "requeue"
      BY <1>12, <2>3, <3>3 DEF TypeOK, Settle, Remove
    <3> QED
      BY <3>1, <3>2, <3>3
  <2>5. Messages
    BY <1>0, <2>3 DEF CountsOK, Counted
  <2> QED
    BY <1>1, <2>2, <2>5
<1>13. ASSUME NEW m \in MsgId, Expire(m) PROVE CountsOK'
  <2>1. Messages
    <3>1. \A n \in MsgId \ {m} : place'[n] = place[n] /\ sig'[n] = sig[n]
      BY <1>13 DEF TypeOK, Expire, Remove
    <3>2. ASSUME place'[m] # "free" PROVE Counted(sig'[m])
      <4> DEFINE eta == IF ttl[m] = "eta" THEN "past" ELSE sig[m].ETA
                 d == [sig[m] EXCEPT !.ETA = eta]
      <4>1. place[m] # "free"
        BY <1>0, <1>13, ConfigsAssumption DEF Expire, Queues, ConfigOK
      <4>2. sig'[m] = d
        BY <1>13, <3>2 DEF Expire, Remove, TypeOK
      <4>3. Counted(sig[m]) /\ sig[m] \in Signature
        BY <4>1 DEF CountsOK, Counted
      <4>4. eta \in ETAs
        BY <4>3 DEF Signature, ETAs
      <4> HIDE DEF eta
      <4>5. /\ d \in Signature /\ d.task = sig[m].task
            /\ d.RetryCount = sig[m].RetryCount /\ d.RetriesDone = sig[m].RetriesDone
        BY <4>3, <4>4 DEF Signature
      <4> QED
        BY <4>2, <4>3, <4>5 DEF Counted
    <3> QED
      BY <1>0, <3>1, <3>2 DEF CountsOK, Counted
  <2> QED
    BY <1>1, <1>3, <1>13, <2>1 DEF Expire
<1>14. ASSUME ChannelCloses \/ Crash PROVE CountsOK'
  <2>1. UNCHANGED sig /\ \A m \in MsgId : place'[m] # "free" => place[m] # "free"
    BY <1>14 DEF ChannelCloses, Crash, RequeueUnacked
  <2>2. Messages
    BY <1>0, <2>1 DEF CountsOK, Counted
  <2>3. \A w \in Worker : pc'[w] # "idle" => pc'[w] = pc[w] /\ wsig'[w] = wsig[w]
    BY <1>14 DEF ChannelCloses, Crash
  <2>4. Workers
    BY <1>0, <2>3 DEF CountsOK, Counted
  <2> QED
    BY <1>1, <2>2, <2>4
<1> QED
  BY <1>5, <1>6, <1>7, <1>9, <1>10, <1>11, <1>12, <1>13, <1>14 DEF Next
-----------------------------------------------------------------------------
(* Every step pays.                                                        *)

(* What the lemmas about the steps assume: a step between two good states, *)
(* a task, and a number of faults to come.                                 *)
Step ==
  /\ IsFiniteSet(MsgId) /\ IsFiniteSet(Worker) /\ UNCHANGED fixed
  /\ TypeOK /\ HeldOnce /\ CountsOK /\ TypeOK' /\ HeldOnce' /\ CountsOK'

(* Storing changes no message but a new one, whose signature answers for   *)
(* it; and no delivery is requeued by it.                                  *)
LEMMA StoredKeeps ==
  ASSUME Step, NEW t \in Task, NEW j \in Nat \ {0}, NEW k \in {j, j + 1},
         NEW s, NEW n \in MsgId, Stored(s, n),
         k = j + 1 \/ \A m \in MsgId : Requeued(m)' => Requeued(m)
  PROVE  /\ \A m \in MsgId \ {n} : MessageStarts(m, t, j)' <= MessageStarts(m, t, k)
         /\ MessageStarts(n, t, k) = 0
         /\ s.task = t => MessageStarts(n, t, j)' <= Starts(Left(s), j)
         /\ s.task # t \/ Destination(PublishKey(s)) \in Parking => MessageStarts(n, t, j)' = 0
<1>1. /\ place[n] = "free" /\ place'[n] = Destination(PublishKey(s)) /\ sig'[n] = s
      /\ place'[n] # "free"
      /\ \A m \in MsgId \ {n} : place'[m] = place[m] /\ sig'[m] = sig[m]
  BY DEF Step, TypeOK, Stored
<1>2. \A m \in MsgId \ {n} : MessageStarts(m, t, j)' <= MessageStarts(m, t, k)
  BY <1>1, MessageKept DEF Step, fixed
<1>3. MessageStarts(n, t, k) = 0
  BY <1>1 DEF MessageStarts
<1>4. Parking' = Parking
  BY DEF Step, fixed, Parking
<1>5. Destination(PublishKey(s)) \in Parking => MessageStarts(n, t, j)' = 0
  BY <1>1, <1>4 DEF MessageStarts
<1> QED
  BY <1>1, <1>2, <1>3, <1>5, MessageAtMost DEF Step

(* A client's submission: the message takes over what the client was       *)
(* allowed.                                                                *)
LEMMA SendTaskPays ==
  ASSUME Step, NEW t \in Task, NEW j \in Nat \ {0}, NEW k \in {j, j + 1},
         NEW u \in Task, SendTask(u)
  PROVE  Pays(t, j, k)
<1> USE DEF worker, ghosts
<1>1. /\ UNCHANGED <<pc, job, wsig, execs, cfg, request>> /\ client[u] = "unsent"
      /\ client'[u] # "unsent" /\ \A v \in Task \ {u} : client'[v] = client[v]
      /\ Store(AsSent(u)) \/ UNCHANGED broker
  BY DEF Step, fixed, TypeOK, SendTask, PublishOk, PublishFails
<1>2. \A m \in MsgId : Requeued(m)' => Requeued(m)
  BY <1>1 DEF Requeued
<1>3. \A w \in Worker : WorkerStarts(w, t, j)' <= WorkerStarts(w, t, k)
  BY <1>1, WorkerKept DEF Step
<1>4. ClientStarts(t, j)' <= ClientStarts(t, k)
  BY <1>1, ClientKept DEF Step
<1>5. CASE UNCHANGED broker
  <2>1. \A m \in MsgId : MessageStarts(m, t, j)' <= MessageStarts(m, t, k)
    BY <1>1, <1>2, <1>5, MessageKept DEF Step, broker
  <2> QED
    BY <1>1, <1>3, <1>4, <2>1, PaysPointwise DEF Step
<1>6. ASSUME NEW n \in MsgId, Stored(AsSent(u), n)
      PROVE  Pays(t, j, k)
  <2> DEFINE s == AsSent(u)
  <2>1. /\ s.task = u /\ Left(s) = request[u].RetryCount + 1
    <3>1. s.task = u /\ s.RetryCount = request[u].RetryCount /\ s.RetriesDone = 0
      BY DEF AsSent
    <3>2. request[u].RetryCount \in Nat
      BY RequestStarts DEF Step
    <3> QED
      BY <3>1, <3>2 DEF Left
  <2> HIDE DEF s
  <2>2. /\ \A m \in MsgId \ {n} : MessageStarts(m, t, j)' <= MessageStarts(m, t, k)
        /\ MessageStarts(n, t, k) = 0
        /\ s.task = t => MessageStarts(n, t, j)' <= Starts(Left(s), j)
        /\ s.task # t => MessageStarts(n, t, j)' = 0
    BY <1>2, <1>6, StoredKeeps DEF s
  <2>3. MessageStarts(n, t, j)' + ClientStarts(t, j)' <= MessageStarts(n, t, k) + ClientStarts(t, k)
    <3>1. CASE t = u
      <4> DEFINE r == request[u].RetryCount + 1
      <4>1. ClientStarts(t, j)' = 0 /\ ClientStarts(t, k) = Starts(r, k)
        BY <1>1, <3>1 DEF ClientStarts
      <4>2. Starts(r, j) <= Starts(r, k) /\ Starts(r, j) \in Nat /\ Starts(r, k) \in Nat
        BY RequestStarts, j + 1 \in Nat DEF Step
      <4>3. MessageStarts(n, t, j)' \in Nat
        BY AllowedType, Holders DEF Step
      <4> HIDE DEF r
      <4> QED
        BY <2>1, <2>2, <3>1, <4>1, <4>2, <4>3 DEF r
    <3>2. CASE t # u
      <4>1. ClientStarts(t, j)' \in Nat /\ ClientStarts(t, k) \in Nat
        BY AllowedType, Holders, k \in Nat \ {0} DEF Step
      <4> QED
        BY <1>4, <2>1, <2>2, <3>2, <4>1
    <3> QED
      BY <3>1, <3>2
  <2>4. execs'[t] = execs[t] + 0
    BY <1>1 DEF Step, TypeOK
  <2>5. Allowed(t, j)'[Message(n)] + Allowed(t, j)'[Client] + 0
          <= Allowed(t, k)[Message(n)] + Allowed(t, k)[Client]
    <3>1. /\ MessageStarts(n, t, j)' \in Nat /\ ClientStarts(t, j)' \in Nat
      BY AllowedType, Holders DEF Step
    <3>2. /\ Allowed(t, j)'[Message(n)] = MessageStarts(n, t, j)'
          /\ Allowed(t, j)'[Client] = ClientStarts(t, j)'
          /\ Allowed(t, k)[Message(n)] = MessageStarts(n, t, k)
          /\ Allowed(t, k)[Client] = ClientStarts(t, k)
      BY Holders
    <3> QED
      BY <2>3, <3>1, <3>2
  <2>6. Message(n) \in Holder /\ Client \in Holder /\ Message(n) # Client
    BY DEF Holder, Message, Client
  <2>7. \A m \in MsgId : Message(m) \notin {Message(n), Client} => m # n
    OBVIOUS
  <2> QED
    BY <1>3, <2>2, <2>4, <2>5, <2>6, <2>7, PaysShifted DEF Step
<1> QED
  BY <1>1, <1>5, <1>6, StoreEffect

(* A step that leaves messages, workers and clients alone.                 *)
LEMMA SamePays ==
  ASSUME Step, NEW t \in Task, NEW j \in Nat \ {0},
         UNCHANGED <<client, broker, worker, execs>>
  PROVE  Pays(t, j, j)
<1>1. \A m \in MsgId : MessageStarts(m, t, j)' <= MessageStarts(m, t, j)
  <2>1. \A m \in MsgId : Requeued(m)' => Requeued(m)
    BY DEF Requeued, worker
  <2> QED
    BY <2>1, MessageKept DEF Step, fixed, broker
<1>2. \A w \in Worker : WorkerStarts(w, t, j)' <= WorkerStarts(w, t, j)
  BY WorkerKept DEF Step, fixed, worker
<1>3. ClientStarts(t, j)' <= ClientStarts(t, j)
  BY ClientKept DEF Step, fixed
<1> QED
  BY <1>1, <1>2, <1>3, PaysPointwise DEF Step

(* A worker that moves on, with the broker and the deliveries as they      *)
(* were, pays for what it starts with what it was allowed.                 *)
LEMMA WorkerPays ==
  ASSUME Step, NEW t \in Task, NEW j \in Nat \ {0}, NEW w \in Worker,
         UNCHANGED <<broker, job, client>>, pc[w] # "requeue", pc'[w] # "requeue",
         \A v \in Worker \ {w} : pc'[v] = pc[v] /\ wsig'[v] = wsig[v],
         NEW e \in Nat, execs'[t] = execs[t] + e,
         WorkerStarts(w, t, j)' + e <= WorkerStarts(w, t, j)
  PROVE  Pays(t, j, j)
<1>1. \A m \in MsgId : Requeued(m)' => Requeued(m)
  BY DEF Requeued
<1>2. \A m \in MsgId : MessageStarts(m, t, j)' <= MessageStarts(m, t, j)
  BY <1>1, MessageKept DEF Step, broker, fixed
<1>3. \A v \in Worker \ {w} : WorkerStarts(v, t, j)' <= WorkerStarts(v, t, j)
  BY WorkerKept DEF Step, fixed
<1>4. ClientStarts(t, j)' <= ClientStarts(t, j)
  BY ClientKept DEF Step, fixed
<1>5. /\ Busy(w) \in Holder /\ Client \in Holder /\ Busy(w) # Client
      /\ \A v \in Worker : Busy(v) \notin {Busy(w), Client} => v # w
  BY DEF Holder, Busy, Client
<1>6. Allowed(t, j)'[Busy(w)] + Allowed(t, j)'[Client] + e
        <= Allowed(t, j)[Busy(w)] + Allowed(t, j)[Client]
  <2>1. /\ WorkerStarts(w, t, j)' \in Nat /\ ClientStarts(t, j)' \in Nat
        /\ WorkerStarts(w, t, j) \in Nat /\ ClientStarts(t, j) \in Nat
    BY AllowedType, Holders DEF Step
  <2>2. /\ Allowed(t, j)'[Busy(w)] = WorkerStarts(w, t, j)'
        /\ Allowed(t, j)'[Client] = ClientStarts(t, j)'
        /\ Allowed(t, j)[Busy(w)] = WorkerStarts(w, t, j)
        /\ Allowed(t, j)[Client] = ClientStarts(t, j)
    BY Holders
  <2> QED
    BY <1>4, <2>1, <2>2
<1> QED
  BY <1>2, <1>3, <1>5, <1>6, PaysShifted DEF Step

(* A message and a worker that change together, and nothing is started.    *)
LEMMA MessageAndWorkerPay ==
  ASSUME Step, NEW t \in Task, NEW j \in Nat \ {0}, NEW k \in {j, j + 1},
         NEW n \in MsgId, NEW w \in Worker, UNCHANGED <<client, execs>>,
         \A m \in MsgId \ {n} : MessageStarts(m, t, j)' <= MessageStarts(m, t, k),
         \A v \in Worker \ {w} : pc'[v] = pc[v] /\ wsig'[v] = wsig[v],
         MessageStarts(n, t, j)' + WorkerStarts(w, t, j)'
           <= MessageStarts(n, t, k) + WorkerStarts(w, t, k)
  PROVE  Pays(t, j, k)
<1>1. \A v \in Worker \ {w} : WorkerStarts(v, t, j)' <= WorkerStarts(v, t, k)
  BY WorkerKept DEF Step, fixed
<1>2. ClientStarts(t, j)' <= ClientStarts(t, k)
  BY ClientKept DEF Step, fixed
<1>3. /\ Message(n) \in Holder /\ Busy(w) \in Holder /\ Message(n) # Busy(w)
      /\ \A m \in MsgId : Message(m) \notin {Message(n), Busy(w)} => m # n
      /\ \A v \in Worker : Busy(v) \notin {Message(n), Busy(w)} => v # w
  BY DEF Holder, Message, Busy
<1>4. Allowed(t, j)'[Message(n)] + Allowed(t, j)'[Busy(w)] + 0
        <= Allowed(t, k)[Message(n)] + Allowed(t, k)[Busy(w)]
  <2>1. MessageStarts(n, t, j)' \in Nat /\ WorkerStarts(w, t, j)' \in Nat
    BY AllowedType, Holders DEF Step
  <2>2. /\ Allowed(t, j)'[Message(n)] = MessageStarts(n, t, j)'
        /\ Allowed(t, j)'[Busy(w)] = WorkerStarts(w, t, j)'
        /\ Allowed(t, k)[Message(n)] = MessageStarts(n, t, k)
        /\ Allowed(t, k)[Busy(w)] = WorkerStarts(w, t, k)
    BY Holders
  <2> QED
    BY <2>1, <2>2
<1>5. execs'[t] = execs[t] + 0
  BY DEF Step, TypeOK
<1> QED
  BY <1>1, <1>2, <1>3, <1>4, <1>5, PaysShifted DEF Step

(* A delivery: Pascal's rule shares what the message was allowed between   *)
(* the worker and the message that a fault may revive.                     *)
LEMMA DeliverPays ==
  ASSUME Step, NEW t \in Task, NEW j \in Nat \ {0},
         NEW w \in Worker, NEW n \in MsgId, Deliver(w, n)
  PROVE  Pays(t, j, j)
<1>1. /\ pc[w] = "idle" /\ place[n] = cfg.TaskQueueName /\ UNCHANGED <<client, sig, execs, cfg>>
      /\ place' = [place EXCEPT ![n] = "unacked"] /\ pc' = [pc EXCEPT ![w] = "received"]
      /\ job' = [job EXCEPT ![w] = n]
  BY DEF Deliver, ghosts, fixed
<1>2. cfg \in Configs /\ place[n] \notin {"free", "unacked"} /\ place[n] \notin Parking
      /\ "unacked" \notin Parking
  BY <1>1, Names DEF Step, TypeOK
<1>3. PICK eta \in Aged(sig[n].ETA) :
        wsig' = [wsig EXCEPT ![w] = [Decoded(sig[n]) EXCEPT !.ETA = eta]]
  BY DEF Deliver
<1> DEFINE d == [Decoded(sig[n]) EXCEPT !.ETA = eta]
<1>4. sig[n] \in Signature /\ sig[n].RetriesDone <= sig[n].RetryCount
  BY <1>2 DEF Step, CountsOK, Counted
<1>5. d.task = sig[n].task /\ Left(d) = Left(sig[n])
  BY <1>4, DecodedSignature DEF Left
<1> HIDE DEF d
<1>6. /\ wsig'[w] = d /\ pc'[w] = "received" /\ place'[n] = "unacked"
      /\ \A v \in Worker \ {w} : pc'[v] = pc[v] /\ wsig'[v] = wsig[v] /\ job'[v] = job[v]
      /\ \A m \in MsgId \ {n} : place'[m] = place[m] /\ sig'[m] = sig[m]
  BY <1>1, <1>3 DEF Step, TypeOK, d
<1>7. \A m \in MsgId : Requeued(m)' => Requeued(m)
  BY <1>6 DEF Requeued
<1>8. ~Requeued(n)
  BY <1>2, NoneAssumption DEF Requeued, Step, HeldOnce
<1>9. \A m \in MsgId \ {n} : MessageStarts(m, t, j)' <= MessageStarts(m, t, j)
  BY <1>1, <1>6, <1>7, MessageKept DEF Step
<1>10. MessageStarts(n, t, j)' + WorkerStarts(w, t, j)'
         <= MessageStarts(n, t, j) + WorkerStarts(w, t, j)
  <2>1. WorkerStarts(w, t, j) = 0
    BY <1>1 DEF WorkerStarts
  <2>2. CASE sig[n].task = t
    <3>1. MessageStarts(n, t, j) = Starts(Left(sig[n]), j)
      BY <1>2, <2>2 DEF MessageStarts
    <3>2. Parking' = Parking /\ ~Requeued(n)'
      BY <1>1, <1>7, <1>8 DEF Parking
    <3>3. MessageStarts(n, t, j)' = Starts(Left(sig[n]), j - 1)
      BY <1>1, <1>2, <1>6, <2>2, <3>2 DEF MessageStarts
    <3>4. WorkerStarts(w, t, j)' = 1 + Starts(Left(sig[n]) - 1, j)
      BY <1>5, <1>6, <2>2 DEF WorkerStarts
    <3>5. /\ Starts(Left(sig[n]), j) = 1 + Starts(Left(sig[n]) - 1, j) + Starts(Left(sig[n]), j - 1)
          /\ Starts(Left(sig[n]) - 1, j) \in Nat /\ Starts(Left(sig[n]), j - 1) \in Nat
      BY <1>4, CountedStarts
    <3> QED
      BY <2>1, <3>1, <3>3, <3>4, <3>5
  <2>3. CASE sig[n].task # t
    BY <1>1, <1>5, <1>6, <2>3 DEF MessageStarts, WorkerStarts
  <2> QED
    BY <2>2, <2>3
<1> QED
  BY <1>1, <1>6, <1>9, <1>10, MessageAndWorkerPay

(* A decision: only ExecuteTask starts anything, once, with the start that *)
(* the worker is allowed for it.                                           *)
LEMMA DecidePays ==
  ASSUME Step, NEW t \in Task, NEW j \in Nat \ {0}, NEW w \in Worker, Decide(w)
  PROVE  Pays(t, j, j)
<1> USE DEF ghosts
<1>1. /\ pc[w] = "received" /\ UNCHANGED <<client, broker, job>>
  BY DEF Decide, RejectDelivery, pushToTimeoutAmqpQueue, ExecuteTask
<1>2. /\ \A v \in Worker \ {w} : pc'[v] = pc[v] /\ wsig'[v] = wsig[v]
      /\ wsig'[w].task = wsig[w].task
      /\ pc \in [Worker -> {"idle", "received", "running", "publish", "ack", "requeue", "drop"}]
  BY WorkerMoves DEF Moves, Step, TypeOK
<1>3. wsig[w] \in Signature /\ wsig[w].RetriesDone <= wsig[w].RetryCount
  BY <1>1 DEF Step, CountsOK, Counted
<1>4. /\ Starts(Left(wsig[w]) - 1, j) \in Nat
      /\ WorkerStarts(w, t, j) = IF wsig[w].task = t THEN 1 + Starts(Left(wsig[w]) - 1, j) ELSE 0
  BY <1>1, <1>3, CountedStarts DEF WorkerStarts
<1>5. execs \in [Task -> Nat]
  BY DEF Step, TypeOK
<1>6. CASE RejectDelivery(w)
  <2>1. pc'[w] = "drop" /\ UNCHANGED execs
    BY <1>2, <1>6 DEF RejectDelivery
  <2>2. WorkerStarts(w, t, j)' = 0
    BY <2>1 DEF WorkerStarts
  <2>3. execs'[t] = execs[t] + 0 /\ WorkerStarts(w, t, j)' + 0 <= WorkerStarts(w, t, j)
    BY <1>4, <1>5, <2>1, <2>2
  <2> QED
    BY <1>1, <1>2, <2>1, <2>3, WorkerPays
<1>7. CASE pushToTimeoutAmqpQueue(w)
  <2>1. UNCHANGED execs /\ \/ pc'[w] = "ack"
                           \/ pc'[w] = "publish" /\ wsig'[w].RoutingKey \in Parking
    <3>1. CASE cfg.TimeoutQueue = ""
      BY <1>2, <1>7, <3>1 DEF pushToTimeoutAmqpQueue
    <3>2. CASE cfg.TimeoutQueue # ""
      <4> DEFINE d == [wsig[w] EXCEPT !.TaskTimeOut = FALSE, !.RoutingKey = cfg.TimeoutQueue]
      <4>1. d.RoutingKey = cfg.TimeoutQueue
        BY <1>3 DEF Signature
      <4> HIDE DEF d
      <4>2. pc' = [pc EXCEPT ![w] = "publish"] /\ wsig' = [wsig EXCEPT ![w] = d] /\ UNCHANGED execs
        BY <1>7, <3>2 DEF pushToTimeoutAmqpQueue, d
      <4>3. pc'[w] = "publish" /\ wsig'[w] = d
        BY <4>2 DEF Step, TypeOK
      <4> QED
        BY <3>2, <4>1, <4>2, <4>3 DEF Parking
    <3> QED
      BY <3>1, <3>2
  <2>2. WorkerStarts(w, t, j)' = 0
    <3>1. Parking' = Parking
      BY DEF Step, fixed, Parking
    <3> QED
      BY <2>1, <3>1 DEF WorkerStarts
  <2>3. execs'[t] = execs[t] + 0 /\ WorkerStarts(w, t, j)' + 0 <= WorkerStarts(w, t, j)
    BY <1>4, <1>5, <2>1, <2>2
  <2> QED
    BY <1>1, <1>2, <2>1, <2>3, WorkerPays
<1>8. CASE ExecuteTask(w)
  <2>1. pc'[w] = "running" /\ UNCHANGED wsig /\ execs' = [execs EXCEPT ![wsig[w].task] = @ + 1]
    BY <1>2, <1>8 DEF ExecuteTask
  <2>2. WorkerStarts(w, t, j)' = IF wsig[w].task = t THEN Starts(Left(wsig[w]) - 1, j) ELSE 0
    BY <2>1 DEF WorkerStarts
  <2> DEFINE e == IF wsig[w].task = t THEN 1 ELSE 0
  <2>3. e \in Nat /\ execs'[t] = execs[t] + e /\ WorkerStarts(w, t, j)' + e <= WorkerStarts(w, t, j)
    BY <1>4, <1>5, <2>1, <2>2
  <2> HIDE DEF e
  <2> QED
    BY <1>1, <1>2, <2>1, <2>3, WorkerPays
<1> QED
  BY <1>6, <1>7, <1>8 DEF Decide

(* The end of a task function: the retry takes over what the worker was    *)
(* allowed for it.                                                         *)
LEMMA TaskEndsPays ==
  ASSUME Step, FewRetries, NEW t \in Task, NEW j \in Nat \ {0}, NEW w \in Worker, TaskEnds(w)
  PROVE  Pays(t, j, j)
<1> USE DEF ghosts
<1>1. /\ pc[w] = "running" /\ UNCHANGED <<client, broker, job, execs>>
  BY DEF TaskEnds, TaskSucceeds, TaskFails, ExecutionTimesOut
<1>2. /\ \A v \in Worker \ {w} : pc'[v] = pc[v] /\ wsig'[v] = wsig[v]
      /\ wsig'[w].task = wsig[w].task
  BY WorkerMoves DEF Moves, Step
<1>3. \/ pc'[w] = "ack"
      \/ pc'[w] = "publish" /\ wsig'[w].RoutingKey \in Parking
      \/ pc'[w] = "publish" /\ Left(wsig'[w]) = Left(wsig[w]) - 1
  <2>1. CASE TaskSucceeds(w)
    BY <2>1 DEF TaskSucceeds, Step, TypeOK
  <2>2. CASE retryTask(w)
    BY <1>1, <2>2, RetryCounts DEF Step
  <2> QED
    BY <2>1, <2>2 DEF TaskEnds, TaskFails, ExecutionTimesOut
<1>4. wsig[w] \in Signature /\ wsig[w].RetriesDone <= wsig[w].RetryCount
  BY <1>1 DEF Step, CountsOK, Counted
<1>5. /\ Starts(Left(wsig[w]) - 1, j) \in Nat
      /\ WorkerStarts(w, t, j) = IF wsig[w].task = t THEN Starts(Left(wsig[w]) - 1, j) ELSE 0
  BY <1>1, <1>4, CountedStarts DEF WorkerStarts
<1>6. Parking' = Parking
  BY DEF Step, fixed, Parking
<1>7. WorkerStarts(w, t, j)' <= WorkerStarts(w, t, j)
  BY <1>2, <1>3, <1>5, <1>6 DEF WorkerStarts
<1>8. /\ execs'[t] = execs[t] + 0 /\ WorkerStarts(w, t, j)' + 0 <= WorkerStarts(w, t, j)
  <2>1. WorkerStarts(w, t, j)' \in Nat
    BY AllowedType, Holders DEF Step
  <2>2. execs[t] \in Nat
    BY DEF Step, TypeOK
  <2> QED
    BY <1>1, <1>5, <1>7, <2>1, <2>2
<1> QED
  BY <1>1, <1>2, <1>3, <1>8, WorkerPays

(* The second publish of a delivery: the new message takes over what the   *)
(* worker was allowed, and a fault lets the delivery be requeued.          *)
LEMMA PublishAgainPays ==
  ASSUME Step, NEW t \in Task, NEW j \in Nat \ {0}, NEW k \in {j, j + 1}, NEW w \in Worker,
         PublishAgain(w), k = j + 1 \/ pc'[w] = "ack"
  PROVE  Pays(t, j, k)
<1> USE DEF ghosts
<1>1. /\ pc[w] = "publish" /\ pc'[w] \in {"ack", "requeue"} /\ UNCHANGED <<client, execs, wsig, job>>
      /\ Store(wsig[w]) \/ UNCHANGED broker
      /\ \A v \in Worker \ {w} : pc'[v] = pc[v] /\ wsig'[v] = wsig[v]
  BY DEF Step, TypeOK, PublishAgain, PublishOk, PublishFails
<1>2. k = j + 1 \/ \A m \in MsgId : Requeued(m)' => Requeued(m)
  BY <1>1 DEF Requeued
<1>3. wsig[w] \in Signature /\ wsig[w].RetriesDone <= wsig[w].RetryCount /\ cfg \in Configs
  BY <1>1 DEF Step, CountsOK, Counted, TypeOK
<1>4. /\ Starts(Left(wsig[w]), j) \in Nat /\ Starts(Left(wsig[w]), k) \in Nat
      /\ Starts(Left(wsig[w]), j) <= Starts(Left(wsig[w]), k)
  BY <1>3, CountedStarts
<1>5. /\ WorkerStarts(w, t, j)' = 0
      /\ WorkerStarts(w, t, k) = IF wsig[w].task = t /\ wsig[w].RoutingKey \notin Parking
                                 THEN Starts(Left(wsig[w]), k) ELSE 0
  BY <1>1 DEF WorkerStarts
<1>6. CASE UNCHANGED broker
  <2>1. \A m \in MsgId : MessageStarts(m, t, j)' <= MessageStarts(m, t, k)
    BY <1>2, <1>6, MessageKept DEF Step, fixed, broker
  <2>2. \A v \in Worker \ {w} : WorkerStarts(v, t, j)' <= WorkerStarts(v, t, k)
    BY <1>1, WorkerKept DEF Step, fixed
  <2>3. ClientStarts(t, j)' <= ClientStarts(t, k)
    BY <1>1, ClientKept DEF Step, fixed
  <2>4. WorkerStarts(w, t, j)' <= WorkerStarts(w, t, k)
    BY <1>4, <1>5
  <2> QED
    BY <1>1, <2>1, <2>2, <2>3, <2>4, PaysPointwise DEF Step
<1>7. ASSUME NEW n \in MsgId, Stored(wsig[w], n)
      PROVE  Pays(t, j, k)
  <2>1. /\ \A m \in MsgId \ {n} : MessageStarts(m, t, j)' <= MessageStarts(m, t, k)
        /\ MessageStarts(n, t, k) = 0
        /\ wsig[w].task = t => MessageStarts(n, t, j)' <= Starts(Left(wsig[w]), j)
        /\ wsig[w].task # t \/ Destination(PublishKey(wsig[w])) \in Parking
             => MessageStarts(n, t, j)' = 0
    BY <1>2, <1>7, StoredKeeps
  <2>2. wsig[w].RoutingKey \in Parking => Destination(PublishKey(wsig[w])) \in Parking
    <3>1. ASSUME wsig[w].RoutingKey \in Parking PROVE PublishKey(wsig[w]) = wsig[w].RoutingKey
      BY <1>3, <3>1, Names DEF PublishKey
    <3> QED
      BY <1>3, <3>1, Routing
  <2>3. MessageStarts(n, t, j)' \in Nat
    BY AllowedType, Holders DEF Step
  <2>4. MessageStarts(n, t, j)' + WorkerStarts(w, t, j)'
          <= MessageStarts(n, t, k) + WorkerStarts(w, t, k)
    BY <1>4, <1>5, <2>1, <2>2, <2>3
  <2> QED
    BY <1>1, <2>1, <2>4, MessageAndWorkerPay
<1> QED
  BY <1>1, <1>6, <1>7, StoreEffect

(* The end of a delivery: a message that is nacked with requeue may be     *)
(* started again, as it could be before; one that is removed may not.      *)
LEMMA SettlePays ==
  ASSUME Step, NEW t \in Task, NEW j \in Nat \ {0}, NEW w \in Worker, Settle(w)
  PROVE  Pays(t, j, j)
<1>1. /\ pc[w] \in {"ack", "requeue", "drop"} /\ UNCHANGED <<client, execs, cfg>>
      /\ pc'[w] = "idle" /\ job'[w] = None
      /\ \A v \in Worker \ {w} : pc'[v] = pc[v] /\ wsig'[v] = wsig[v] /\ job'[v] = job[v]
  BY DEF Step, TypeOK, Settle, Finish, ghosts, fixed
<1>2. WorkerStarts(w, t, j)' = 0 /\ WorkerStarts(w, t, j) = 0
  BY <1>1 DEF WorkerStarts
<1>3. \A v \in Worker : WorkerStarts(v, t, j)' <= WorkerStarts(v, t, j)
  <2>1. \A v \in Worker \ {w} : WorkerStarts(v, t, j)' <= WorkerStarts(v, t, j)
    BY <1>1, WorkerKept DEF Step
  <2> QED
    BY <1>2, <2>1
<1>4. ClientStarts(t, j)' <= ClientStarts(t, j)
  BY <1>1, ClientKept DEF Step, fixed
<1>5. \A m \in MsgId : Requeued(m)' => Requeued(m)
  BY <1>1, NoneAssumption DEF Requeued
<1>6. \A m \in MsgId : MessageStarts(m, t, j)' <= MessageStarts(m, t, j)
  <2>1. ASSUME NEW m \in MsgId, m # job[w]
        PROVE  MessageStarts(m, t, j)' <= MessageStarts(m, t, j)
    <3>1. place'[m] = place[m] /\ sig'[m] = sig[m]
      BY <2>1 DEF Step, TypeOK, Settle, Remove, broker
    <3> QED
      BY <1>1, <1>5, <3>1, MessageKept DEF Step
  <2>2. ASSUME NEW m \in MsgId, m = job[w]
        PROVE  MessageStarts(m, t, j)' <= MessageStarts(m, t, j)
    <3>1. place[m] = "unacked" /\ m # None /\ cfg \in Configs
      BY <2>2, NoneAssumption DEF Step, TypeOK, HeldOnce
    <3>2. MessageStarts(m, t, j) \in Nat
      BY <2>2, AllowedType, Holders DEF Step
    <3>3. CASE pc[w] = "requeue"
      <4>1. place'[m] # "free" /\ UNCHANGED sig /\ Requeued(m)
        <5>1. place' = [place EXCEPT ![m] = cfg.TaskQueueName] /\ UNCHANGED sig
          BY <2>2, <3>1, <3>3 DEF Settle
        <5>2. place'[m] = cfg.TaskQueueName
          BY <5>1 DEF Step, TypeOK
        <5> QED
          BY <2>2, <3>1, <3>3, <5>1, <5>2, Names DEF Requeued
      <4>2. CASE sig[m].task = t
        <5>1. MessageStarts(m, t, j)' <= Starts(Left(sig[m]), j)
          BY <2>2, <4>1, <4>2, MessageAtMost DEF Step
        <5>2. MessageStarts(m, t, j) = Starts(Left(sig[m]), j)
          BY <3>1, <4>1, <4>2, Names DEF MessageStarts
        <5> QED
          BY <5>1, <5>2
      <4>3. CASE sig[m].task # t
        BY <2>2, <3>2, <4>1, <4>3, MessageAtMost DEF Step
      <4> QED
        BY <4>2, <4>3
    <3>4. CASE pc[w] # "requeue"
      <4>1. place'[m] = "free"
        BY <2>2, <3>1, <3>4 DEF Step, TypeOK, Settle, Remove
      <4>2. MessageStarts(m, t, j)' = 0
        BY <2>2, <4>1, MessageAtMost DEF Step
      <4> QED
        BY <3>2, <4>2
    <3> QED
      BY <3>3, <3>4
  <2> QED
    BY <2>1, <2>2
<1> QED
  BY <1>1, <1>3, <1>4, <1>6, PaysPointwise DEF Step

(* Expiry: a message that is dead-lettered keeps what it is allowed.       *)
LEMMA ExpirePays ==
  ASSUME Step, NEW t \in Task, NEW j \in Nat \ {0}, NEW n \in MsgId, Expire(n)
  PROVE  Pays(t, j, j)
<1>1. /\ UNCHANGED <<client, execs, pc, job, wsig, cfg>> /\ place[n] \in Queues
      /\ \A m \in MsgId \ {n} : place'[m] = place[m] /\ sig'[m] = sig[m]
  BY DEF Step, TypeOK, Expire, Remove, ghosts, worker, fixed
<1>2. \A m \in MsgId : Requeued(m)' => Requeued(m)
  BY <1>1 DEF Requeued
<1>3. \A v \in Worker : WorkerStarts(v, t, j)' <= WorkerStarts(v, t, j)
  BY <1>1, WorkerKept DEF Step
<1>4. ClientStarts(t, j)' <= ClientStarts(t, j)
  BY <1>1, ClientKept DEF Step, fixed
<1>5. \A m \in MsgId \ {n} : MessageStarts(m, t, j)' <= MessageStarts(m, t, j)
  BY <1>1, <1>2, MessageKept DEF Step
<1>6. MessageStarts(n, t, j)' <= MessageStarts(n, t, j)
  <2>1. MessageStarts(n, t, j) \in Nat
    BY AllowedType, Holders DEF Step
  <2>2. CASE place'[n] = "free"
    BY <2>1, <2>2, MessageAtMost DEF Step
  <2>3. CASE place'[n] # "free"
    <3> DEFINE eta == IF ttl[n] = "eta" THEN "past" ELSE sig[n].ETA
               d == [sig[n] EXCEPT !.ETA = eta]
    <3>1. place[n] = cfg.DelayedQueue /\ sig' = [sig EXCEPT ![n] = d]
      BY <2>3 DEF Step, TypeOK, Expire, Remove
    <3>2. place[n] \notin {"free", "unacked"} /\ place[n] \notin Parking
      BY <3>1, Names DEF Step, TypeOK
    <3>3. sig[n] \in Signature
      BY <3>2 DEF Step, TypeOK
    <3>4. d.task = sig[n].task /\ Left(d) = Left(sig[n])
      BY <3>3 DEF Signature, Left
    <3> HIDE DEF d
    <3>5. sig'[n] = d
      BY <3>1 DEF Step, TypeOK
    <3>6. CASE sig[n].task = t
      <4>1. MessageStarts(n, t, j)' <= Starts(Left(sig[n]), j)
        BY <2>3, <3>4, <3>5, <3>6, MessageAtMost DEF Step
      <4>2. MessageStarts(n, t, j) = Starts(Left(sig[n]), j)
        BY <3>2, <3>6 DEF MessageStarts
      <4> QED
        BY <4>1, <4>2
    <3>7. CASE sig[n].task # t
      BY <2>1, <3>4, <3>5, <3>7, MessageAtMost DEF Step
    <3> QED
      BY <3>6, <3>7
  <2> QED
    BY <2>2, <2>3
<1> QED
  BY <1>1, <1>3, <1>4, <1>5, <1>6, PaysPointwise DEF Step, ghosts

(* A closing channel or a crash revives every delivery: with one fault     *)
(* less to come, each is allowed what it was allowed for this.             *)
LEMMA RevivalPays ==
  ASSUME Step, NEW t \in Task, NEW j \in Nat \ {0}, ChannelCloses \/ Crash
  PROVE  Pays(t, j, j + 1)
<1>1. /\ UNCHANGED <<client, execs, cfg, sig>>
      /\ place' = [m \in MsgId |-> IF place[m] = "unacked" THEN cfg.TaskQueueName ELSE place[m]]
      /\ \A w \in Worker : pc'[w] # "idle" => pc'[w] = pc[w] /\ wsig'[w] = wsig[w]
  <2>1. CASE ChannelCloses
    BY <2>1 DEF ChannelCloses, RequeueUnacked, ghosts, fixed
  <2>2. CASE Crash
    BY <2>2 DEF Crash, RequeueUnacked, ghosts, fixed
  <2> QED
    BY <2>1, <2>2
<1>2. j + 1 \in {j, j + 1} /\ j + 1 \in Nat \ {0} /\ (j + 1) - 1 = j
  OBVIOUS
<1>3. \A w \in Worker : WorkerStarts(w, t, j)' <= WorkerStarts(w, t, j + 1)
  <2>1. ASSUME NEW w \in Worker, pc'[w] = "idle"
        PROVE  WorkerStarts(w, t, j)' <= WorkerStarts(w, t, j + 1)
    <3>1. WorkerStarts(w, t, j)' = 0
      BY <2>1 DEF WorkerStarts
    <3>2. WorkerStarts(w, t, j + 1) \in Nat
      BY <1>2, AllowedType, Holders DEF Step
    <3> QED
      BY <3>1, <3>2
  <2> QED
    BY <1>1, <1>2, <2>1, WorkerKept DEF Step
<1>4. ClientStarts(t, j)' <= ClientStarts(t, j + 1)
  BY <1>1, <1>2, ClientKept DEF Step, fixed
<1>5. \A m \in MsgId : MessageStarts(m, t, j)' <= MessageStarts(m, t, j + 1)
  <2>1. ASSUME NEW m \in MsgId, place[m] # "unacked"
        PROVE  MessageStarts(m, t, j)' <= MessageStarts(m, t, j + 1)
    BY <1>1, <1>2, <2>1, MessageKept DEF Step
  <2>2. ASSUME NEW m \in MsgId, place[m] = "unacked"
        PROVE  MessageStarts(m, t, j)' <= MessageStarts(m, t, j + 1)
    <3>1. place'[m] # "free" /\ place[m] \notin Parking
      <4>1. cfg \in Configs /\ place'[m] = cfg.TaskQueueName
        BY <1>1, <2>2 DEF Step, TypeOK
      <4> QED
        BY <2>2, <4>1, Names
    <3>2. MessageStarts(m, t, j + 1) \in Nat
      BY <1>2, AllowedType, Holders DEF Step
    <3>3. CASE sig[m].task = t
      <4>1. MessageStarts(m, t, j)' <= Starts(Left(sig[m]), j)
        BY <1>1, <3>1, <3>3, MessageAtMost DEF Step
      <4>2. MessageStarts(m, t, j + 1) \in {Starts(Left(sig[m]), j), Starts(Left(sig[m]), j + 1)}
        BY <1>2, <2>2, <3>1, <3>3 DEF MessageStarts
      <4>3. /\ Starts(Left(sig[m]), j) <= Starts(Left(sig[m]), j + 1)
            /\ Starts(Left(sig[m]), j) \in Nat /\ Starts(Left(sig[m]), j + 1) \in Nat
        BY <2>2, CountedStarts DEF Step, CountsOK, Counted
      <4>4. MessageStarts(m, t, j)' \in Nat
        BY AllowedType, Holders DEF Step
      <4> QED
        BY <4>1, <4>2, <4>3, <4>4
    <3>4. CASE sig[m].task # t
      BY <1>1, <3>2, <3>4, MessageAtMost DEF Step
    <3> QED
      BY <3>3, <3>4
  <2> QED
    BY <2>1, <2>2
<1> QED
  BY <1>1, <1>2, <1>3, <1>4, <1>5, PaysPointwise DEF Step

(* Every step pays, for the faults that happen in it.                      *)
LEMMA StepPays ==
  ASSUME Step, FewRetries, Next, NEW t \in Task, NEW j \in Nat \ {0}
  PROVE  \/ faults' = faults /\ Pays(t, j, j)
         \/ faults' = faults + 1 /\ Pays(t, j, j + 1)
<1>1. ASSUME NEW u \in Task, SendTask(u)
      PROVE  \/ faults' = faults /\ Pays(t, j, j)
             \/ faults' = faults + 1 /\ Pays(t, j, j + 1)
  BY <1>1, SendTaskPays DEF SendTask, PublishOk, PublishFails, Fault
<1>2. ASSUME NEW u \in Task, StartDeadlinePasses(u)
      PROVE  faults' = faults /\ Pays(t, j, j)
  BY <1>2, SamePays DEF StartDeadlinePasses, ghosts, worker
<1>3. ASSUME NEW w \in Worker, NEW m \in MsgId, Deliver(w, m)
      PROVE  faults' = faults /\ Pays(t, j, j)
  BY <1>3, DeliverPays DEF Deliver
<1>4. ASSUME NEW w \in Worker, Decide(w)
      PROVE  faults' = faults /\ Pays(t, j, j)
  BY <1>4, DecidePays DEF Decide, RejectDelivery, pushToTimeoutAmqpQueue, ExecuteTask
<1>5. ASSUME NEW w \in Worker, TaskEnds(w)
      PROVE  faults' = faults /\ Pays(t, j, j)
  BY <1>5, TaskEndsPays DEF TaskEnds, TaskSucceeds, TaskFails, ExecutionTimesOut
<1>6. ASSUME NEW w \in Worker, PublishAgain(w)
      PROVE  \/ faults' = faults /\ Pays(t, j, j)
             \/ faults' = faults + 1 /\ Pays(t, j, j + 1)
  <2>1. \/ faults' = faults /\ pc'[w] = "ack"
        \/ faults' = faults + 1
    BY <1>6 DEF Step, TypeOK, PublishAgain, PublishOk, PublishFails, Fault
  <2> QED
    BY <1>6, <2>1, PublishAgainPays
<1>7. ASSUME NEW w \in Worker, Settle(w)
      PROVE  faults' = faults /\ Pays(t, j, j)
  BY <1>7, SettlePays DEF Settle
<1>8. ASSUME NEW m \in MsgId, Expire(m)
      PROVE  faults' = faults /\ Pays(t, j, j)
  BY <1>8, ExpirePays DEF Expire
<1>9. ASSUME ChannelCloses \/ Crash
      PROVE  faults' = faults + 1 /\ Pays(t, j, j + 1)
  BY <1>9, RevivalPays DEF ChannelCloses, Crash, Fault
<1> QED
  BY <1>1, <1>2, <1>3, <1>4, <1>5, <1>6, <1>7, <1>8, <1>9 DEF Next

(* So the bound stays the bound.                                           *)
LEMMA AllowedStep ==
  ASSUME Step, FewRetries, Next, StartsAreAllowed
  PROVE  StartsAreAllowed'
<1> SUFFICES ASSUME NEW t \in Task, NEW j \in Nat \ {0}
    PROVE  execs'[t] + Total(Allowed(t, j), Holder)'
             <= Starts(request'[t].RetryCount + 1, faults' + j)
  BY DEF StartsAreAllowed
<1> DEFINE r == request[t].RetryCount + 1
           T(i) == execs[t] + Total(Allowed(t, i), Holder)
           N == execs'[t] + Total(Allowed(t, j), Holder)'
<1>1. \A i \in Nat \ {0} : T(i) <= Starts(r, faults + i)
  BY DEF StartsAreAllowed
<1>2. request' = request /\ faults \in Nat
  BY BoundsAssumption DEF Step, fixed, TypeOK
<1>3. \A i \in Nat \ {0} : T(i) \in Nat /\ Starts(r, faults + i) \in Nat
  <2> SUFFICES ASSUME NEW i \in Nat \ {0} PROVE T(i) \in Nat /\ Starts(r, faults + i) \in Nat
    OBVIOUS
  <2>1. Total(Allowed(t, i), Holder) \in Nat
    BY AllowedType, HolderFinite, FiniteTokens DEF Step
  <2>2. execs[t] \in Nat
    BY DEF Step, TypeOK
  <2>3. faults + i \in Nat
    BY <1>2
  <2> QED
    BY <2>1, <2>2, <2>3, RequestStarts DEF Step
<1>4. N \in Nat
  <2>1. /\ \A h \in Holder : Allowed(t, j)'[h] \in Nat
        /\ IsFiniteSet(Holder)
    BY AllowedType, HolderFinite DEF Step
  <2>2. Total(Allowed(t, j)', Holder) \in Nat
    BY <2>1, FiniteTokens
  <2>3. Total(Allowed(t, j), Holder)' = Total(Allowed(t, j)', Holder)
    BY DEF Total, Tokens, Holder, Message, Busy, Client
  <2>4. execs'[t] \in Nat
    BY DEF Step, TypeOK
  <2> QED
    BY <2>2, <2>3, <2>4
<1>5. \/ faults' = faults /\ N <= T(j)
      \/ faults' = faults + 1 /\ N <= T(j + 1)
  BY StepPays DEF Pays
<1> HIDE DEF T, N, r
<1>6. ASSUME faults' = faults, N <= T(j)
      PROVE  N <= Starts(r, faults' + j)
  BY <1>1, <1>3, <1>4, <1>6
<1>7. ASSUME faults' = faults + 1, N <= T(j + 1)
      PROVE  N <= Starts(r, faults' + j)
  <2>1. faults + (j + 1) = faults' + j /\ j + 1 \in Nat \ {0}
    BY <1>2, <1>7
  <2> QED
    BY <1>1, <1>3, <1>4, <1>7, <2>1
<1>8. N <= Starts(r, faults' + j)
  BY <1>5, <1>6, <1>7
<1> QED
  BY <1>2, <1>8 DEF N, r

(* Before anything happens, only the clients are allowed anything.         *)
LEMMA AllowedInit ==
  ASSUME IsFiniteSet(MsgId), IsFiniteSet(Worker), Init
  PROVE  CountsOK /\ StartsAreAllowed
<1>1. CountsOK
  BY DEF Init, CountsOK
<1>2. TypeOK
  BY BoundsAssumption, NoneAssumption DEF Init, TypeOK, TTLs
<1>3. ASSUME NEW t \in Task, NEW j \in Nat \ {0}
      PROVE  execs[t] + Total(Allowed(t, j), Holder) <= Starts(request[t].RetryCount + 1, faults + j)
  <2> DEFINE F == Allowed(t, j)
  <2>1. \A h \in Holder : F[h] \in Nat
    BY <1>1, <1>2, AllowedType
  <2>2. IsFiniteSet(Holder) /\ Client \in Holder
    BY HolderFinite, Holders
  <2>3. F[Client] = Starts(request[t].RetryCount + 1, j)
    <3>1. F[Client] = ClientStarts(t, j)
      BY Holders
    <3> QED
      BY <3>1 DEF ClientStarts, Init
  <2>4. \A h \in Holder \ {Client} : F[h] = 0
    <3>1. \A m \in MsgId : F[Message(m)] = MessageStarts(m, t, j)
      BY Holders
    <3>2. \A w \in Worker : F[Busy(w)] = WorkerStarts(w, t, j)
      BY Holders
    <3>3. \A m \in MsgId : MessageStarts(m, t, j) = 0
      BY DEF Init, MessageStarts
    <3>4. \A w \in Worker : WorkerStarts(w, t, j) = 0
      BY DEF Init, WorkerStarts
    <3> QED
      BY <3>1, <3>2, <3>3, <3>4 DEF Holder
  <2> HIDE DEF F
  <2>5. Total(F, Holder) = Total(F, Holder \ {Client}) + F[Client]
    BY <2>1, <2>2, SplitTotal
  <2>6. Total(F, Holder \ {Client}) = 0
    BY <2>4, ZeroTotal
  <2>7. execs[t] = 0 /\ faults = 0
    BY DEF Init
  <2>8. Starts(request[t].RetryCount + 1, j) \in Nat
    BY <1>2, RequestStarts
  <2> QED
    BY <2>3, <2>5, <2>6, <2>7, <2>8 DEF F
<1> QED
  BY <1>1, <1>3 DEF StartsAreAllowed

-----------------------------------------------------------------------------
(* A task is started at most RetryCount + 1 times, and by faults at most   *)
(* as often as AttemptsBounded says, for any number of tasks, workers,     *)
(* messages and faults, when retryTask can count every retry: what         *)
(* amqpProcessSignature, retryTask and the acknowledgements do together.   *)
THEOREM AttemptsAreBounded ==
  ASSUME IsFiniteSet(MsgId), IsFiniteSet(Worker), FewRetries
  PROVE  Spec => []AttemptsBounded
<1> DEFINE Inv == CountsOK /\ StartsAreAllowed
<1>1. Init => Inv
  BY AllowedInit
<1>2. /\ TypeOK /\ HeldOnce /\ Inv /\ [Next]_vars /\ TypeOK' /\ HeldOnce'
      => Inv'
  <2> SUFFICES ASSUME TypeOK, HeldOnce, Inv, [Next]_vars, TypeOK', HeldOnce'
               PROVE  Inv'
    OBVIOUS
  <2>1. CASE Next
    <3>1. CountsOK'
      BY <2>1, CountsStep
    <3>2. Step
      BY <2>1, <3>1, RequestFixed DEF Step
    <3> QED
      BY <2>1, <3>1, <3>2, AllowedStep
  <2>2. CASE UNCHANGED vars
    <3> USE <2>2 DEF vars, fixed, broker, worker, ghosts
    <3>1. CountsOK'
      BY DEF CountsOK, Counted
    <3>2. \A t, j : Allowed(t, j)' = Allowed(t, j)
      BY DEF Allowed, MessageStarts, WorkerStarts, ClientStarts, Requeued, Parking
    <3>3. StartsAreAllowed'
      BY <3>2 DEF StartsAreAllowed, Total, Tokens, Holder, Message, Busy, Client
    <3> QED
      BY <3>1, <3>3
  <2> QED
    BY <2>1, <2>2
<1>3. TypeOK /\ Inv => AttemptsBounded
  <2> SUFFICES ASSUME TypeOK, Inv, NEW t \in Task
               PROVE  execs[t] < choose(request[t].RetryCount + faults + 2, faults + 1)
    BY DEF AttemptsBounded
  <2> DEFINE r == request[t].RetryCount + 1
             T == Total(Allowed(t, 1), Holder)
  <2>1. execs[t] + T <= Starts(r, faults + 1)
    BY DEF StartsAreAllowed
  <2>2. T \in Nat
    BY AllowedType, HolderFinite, FiniteTokens
  <2>3. /\ execs[t] \in Nat /\ faults \in Nat /\ request[t].RetryCount \in Nat
    BY RequestStarts, BoundsAssumption DEF TypeOK
  <2>4. Starts(r, faults + 1) \in Nat
    BY <2>3, RequestStarts, faults + 1 \in Nat
  <2>5. Starts(r, faults + 1) = choose(request[t].RetryCount + faults + 2, faults + 1) - 1
    <3>1. r + (faults + 1) = request[t].RetryCount + faults + 2
      BY <2>3
    <3> QED
      BY <3>1 DEF Starts
  <2>6. choose(request[t].RetryCount + faults + 2, faults + 1) \in Nat
    <3>1. r + (faults + 1) = request[t].RetryCount + faults + 2 /\ r \in Nat /\ faults + 1 \in Nat
      BY <2>3
    <3> QED
      BY <3>1, Pascal
  <2> HIDE DEF r, T
  <2> QED
    BY <2>1, <2>2, <2>3, <2>4, <2>5, <2>6
<1> HIDE DEF Inv
<1> QED
  BY <1>1, <1>2, <1>3, TypeCorrect, PTL DEF Spec
=============================================================================
