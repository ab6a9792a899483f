-------------------------- MODULE WorkerPoolProofs --------------------------
(* Proofs about WorkerPool, for any number of workers, messages and losses. *)
EXTENDS WorkerPool, TLAPS

(* The consumer is live only while it is assigning, and a stopper closes   *)
(* channels only while there are any left.                                 *)
LiveWhenAssigning == Consumer \in live => consumer = "assigning"
ClosingInRange ==
  \A s \in Stopper : /\ stop[s] = "closing" => next[s] \in Worker
                     /\ stop[s] \in {"uncalled", "checked"} => next[s] = 0

IndInv == TypeOK /\ EveryMessageAccounted /\ LiveWhenAssigning /\ ClosingInRange

-----------------------------------------------------------------------------
(* The variables of Stop and of the consumer loop.                         *)

(* The round robin index and the next channel to close stay in range. *)
LEMMA Indices == 0 \in Worker /\ Consumer \notin Worker
                 /\ \A i \in Worker : (i + 1) % Concurrency \in Worker
                                      /\ i + 1 \in 0..Concurrency
                                      /\ (i + 1 # Concurrency => i + 1 \in Worker)
BY SizesAssumption DEF Worker, Consumer

(* The invariant holds before the pool is started. *)
LEMMA InitInv == Init => IndInv
<1> SUFFICES ASSUME Init
             PROVE  IndInv
  OBVIOUS
<1>1. TypeOK
  <2>1. 0 \in 0..Concurrency /\ 0 \in 0..MaxLosses /\ 0 \in Worker
    BY Indices, SizesAssumption
  <2>2. job \in [Worker \cup {Consumer} -> Message \cup {None}]
    BY DEF Init
  <2> QED
    BY <2>1, <2>2 DEF Init, TypeOK
<1>2. EveryMessageAccounted
  BY DEF Init, EveryMessageAccounted, Dropped
<1> QED
  BY <1>1, <1>2 DEF Init, IndInv, LiveWhenAssigning, ClosingInRange

(* The actions that leave the messages alone. *)
Elsewhere ==
  \/ Start \/ Connect \/ ConnectFails \/ AssignJobPanics \/ SeeChannelClosed
  \/ Sleep \/ Exit \/ Wake
  \/ \E s \in Stopper : CallStop(s) \/ StopStep(s) \/ TakeStopRequest(s)

(* A step that moves no message keeps the invariant. *)
LEMMA ElsewhereInv ==
  ASSUME IndInv, Elsewhere
  PROVE  IndInv'
<1> USE DEF StopStep, CallStop, ClearStarted, CloseJobChannel, CloseTwice, TakeStopRequest,
        Start, Connect, ConnectFails, AssignJobPanics, SeeChannelClosed, Sleep, Exit, Wake,
        pool, group, broker
<1>1. /\ UNCHANGED <<job, live, queue, unacked, settled, last, losses>>
      /\ up' \in BOOLEAN /\ started' \in BOOLEAN
      /\ process' \in {"running", "exited", "panicked"}
  BY DEF Elsewhere, IndInv, TypeOK
<1>2. consumer' \in {"none", "connecting", "selecting", "assigning", "confirming",
                     "returned", "sleeping"}
  BY DEF Elsewhere, IndInv, TypeOK
<1>3. /\ stop' \in [Stopper -> {"uncalled", "checked", "closing", "requesting", "waiting", "ended"}]
      /\ next' \in [Stopper -> 0..Concurrency] /\ closed' \subseteq Worker
      /\ ClosingInRange'
  <2> USE DEF IndInv, TypeOK, ClosingInRange
  <2>1. CASE Start \/ Connect \/ ConnectFails \/ AssignJobPanics \/ SeeChannelClosed
             \/ Sleep \/ Exit \/ Wake
    BY <2>1
  <2>2. ASSUME NEW s \in Stopper, CallStop(s) \/ TakeStopRequest(s) \/ CloseTwice(s)
        PROVE  <1>3!:
    BY <2>2
  <2>3. ASSUME NEW s \in Stopper, ClearStarted(s)
        PROVE  <1>3!:
    BY <2>3, Indices
  <2>4. ASSUME NEW s \in Stopper, CloseJobChannel(s)
        PROVE  <1>3!:
    BY <2>4, Indices
  <2> QED
    BY <2>1, <2>2, <2>3, <2>4 DEF Elsewhere
<1>4. LiveWhenAssigning'
  BY <1>1 DEF Elsewhere, IndInv, LiveWhenAssigning
<1>5. EveryMessageAccounted'
  BY <1>1 DEF IndInv, EveryMessageAccounted, Dropped
<1>6. TypeOK'
  BY <1>1, <1>2, <1>3 DEF IndInv, TypeOK
<1> QED
  BY <1>3, <1>4, <1>5, <1>6 DEF IndInv

-----------------------------------------------------------------------------
(* The actions that move messages.                                         *)

(* What they leave alone. *)
LEMMA Messages ==
  ASSUME IndInv, UNCHANGED <<started, process, stop, next, closed>>,
         consumer' \in {"selecting", "assigning", "returned", consumer}, last' \in Worker,
         job' \in [Worker \cup {Consumer} -> Message \cup {None}],
         live' \subseteq Worker \cup {Consumer}, up' \in BOOLEAN,
         queue' \subseteq Message, unacked' \subseteq Message, settled' \subseteq Message,
         losses' \in 0..MaxLosses,
         EveryMessageAccounted', LiveWhenAssigning'
  PROVE  IndInv'
<1>1. TypeOK'
  BY DEF IndInv, TypeOK
<1>2. ClosingInRange'
  BY DEF IndInv, ClosingInRange
<1> QED
  BY <1>1, <1>2 DEF IndInv

(* When a channel is closed everything unacked is ready again. *)
LEMMA Closing ==
  ASSUME IndInv, CloseChannel, settled' = settled
  PROVE  /\ EveryMessageAccounted' /\ LiveWhenAssigning'
         /\ queue' \subseteq Message /\ unacked' \subseteq Message
         /\ live' \subseteq Worker \cup {Consumer} /\ up' \in BOOLEAN
BY DEF IndInv, TypeOK, CloseChannel, EveryMessageAccounted, Dropped, LiveWhenAssigning

(* Receiving a message with a body keeps the invariant. *)
LEMMA ReceiveJobInv ==
  ASSUME IndInv, NEW m \in Message, ReceiveJob(m)
  PROVE  IndInv'
<1> USE DEF ReceiveJob, Delivered
<1>1. Consumer \notin live /\ m \notin unacked /\ m \notin settled
  BY DEF IndInv, LiveWhenAssigning, EveryMessageAccounted
<1>2. /\ job \in [Worker \cup {Consumer} -> Message \cup {None}]
      /\ live \subseteq Worker \cup {Consumer}
      /\ job'[Consumer] = m /\ \A w \in live : job'[w] = job[w]
  BY <1>1 DEF IndInv, TypeOK
<1>3. EveryMessageAccounted'
  <2>1. \A n \in unacked' : \E h \in live' : job'[h] = n
    BY <1>1, <1>2 DEF IndInv, EveryMessageAccounted
  <2>2. \A h \in live : job[h] \in unacked
    BY DEF IndInv, EveryMessageAccounted
  <2>3. \A g, h \in live' : job'[g] = job'[h] => g = h
    BY <1>1, <1>2, <2>2 DEF IndInv, EveryMessageAccounted
  <2>4. \A h \in live' : job'[h] \in unacked'
    BY <1>2, <2>2
  <2>5. /\ queue' \cap unacked' = {} /\ (queue' \cup unacked') \cap settled' = {}
        /\ Dropped' \subseteq Empty
    BY <1>1 DEF IndInv, EveryMessageAccounted, Dropped
  <2> QED
    BY <2>1, <2>3, <2>4, <2>5 DEF EveryMessageAccounted
<1>4. last' \in Worker
  BY Indices DEF IndInv, TypeOK
<1>5. /\ job' \in [Worker \cup {Consumer} -> Message \cup {None}]
      /\ live' \subseteq Worker \cup {Consumer}
      /\ queue' \subseteq Message /\ unacked' \subseteq Message /\ settled' \subseteq Message
      /\ up' \in BOOLEAN /\ losses' \in 0..MaxLosses
  BY <1>2 DEF IndInv, TypeOK
<1>6. LiveWhenAssigning' /\ consumer' = "assigning"
      /\ UNCHANGED <<started, process, stop, next, closed>>
  BY DEF LiveWhenAssigning, pool
<1> QED
  BY <1>3, <1>4, <1>5, <1>6, Messages

(* Receiving an empty message drops that message only. *)
LEMMA ReceiveEmptyInv ==
  ASSUME IndInv, NEW m \in Message, ReceiveEmpty(m)
  PROVE  IndInv'
<1> USE DEF ReceiveEmpty, Delivered
<1>1. EveryMessageAccounted' /\ LiveWhenAssigning'
  BY DEF IndInv, EveryMessageAccounted, Dropped, LiveWhenAssigning
<1>2. /\ UNCHANGED <<started, process, stop, next, closed, last, job, settled, losses>>
      /\ consumer' = "returned" /\ live' = {} /\ up' = FALSE
      /\ queue' \subseteq Message /\ unacked' = {}
  BY DEF IndInv, TypeOK, pool
<1> QED
  BY <1>1, <1>2, Messages DEF IndInv, TypeOK

(* Handing a message to an idle worker keeps the invariant. *)
LEMMA AssignJobInv ==
  ASSUME IndInv, AssignJob
  PROVE  IndInv'
<1>1. /\ last \in Worker /\ last # Consumer /\ last \in Worker \cup {Consumer}
      /\ job[last] = None /\ last \notin live
      /\ job \in [Worker \cup {Consumer} -> Message \cup {None}]
      /\ live \subseteq Worker \cup {Consumer}
  <2>1. \A h \in live : job[h] \in Message
    BY DEF IndInv, TypeOK, EveryMessageAccounted
  <2> QED
    BY <2>1, Indices, MessagesAssumption DEF IndInv, TypeOK, AssignJob
<1>2. /\ job' = [job EXCEPT ![last] = job[Consumer], ![Consumer] = None]
      /\ live' = (live \ {Consumer}) \cup (IF Consumer \in live THEN {last} ELSE {})
      /\ UNCHANGED <<unacked, queue, settled>> /\ consumer' = "selecting"
  BY DEF AssignJob, broker
<1>3. /\ \A h \in Worker \cup {Consumer} : h # last /\ h # Consumer => job'[h] = job[h]
      /\ job'[last] = job[Consumer]
      /\ job' \in [Worker \cup {Consumer} -> Message \cup {None}]
  BY <1>1, <1>2
<1>4. /\ \A m \in unacked : \E h \in live : job[h] = m
      /\ \A g, h \in live : job[g] = job[h] => g = h
      /\ \A h \in live : job[h] \in unacked
  BY DEF IndInv, EveryMessageAccounted
<1>5. EveryMessageAccounted'
  <2>1. ASSUME NEW m \in unacked
        PROVE  \E h \in live' : job'[h] = m
    <3>1. PICK h \in live : job[h] = m
      BY <1>4
    <3>2. CASE h = Consumer
      BY <1>1, <1>2, <1>3, <3>1, <3>2
    <3>3. CASE h # Consumer
      BY <1>1, <1>2, <1>3, <3>1, <3>3
    <3> QED
      BY <3>2, <3>3
  <2>2. \A g, h \in live' : job'[g] = job'[h] => g = h
    BY <1>1, <1>2, <1>3, <1>4
  <2>3. \A h \in live' : job'[h] \in unacked
    BY <1>1, <1>2, <1>3, <1>4
  <2>4. /\ queue' \cap unacked' = {} /\ (queue' \cup unacked') \cap settled' = {}
        /\ Dropped' \subseteq Empty
    BY <1>2 DEF IndInv, EveryMessageAccounted, Dropped
  <2>5. unacked' = unacked
    BY <1>2
  <2> QED
    BY <2>1, <2>2, <2>3, <2>4, <2>5 DEF EveryMessageAccounted
<1>6. Consumer \notin live' /\ live' \subseteq Worker \cup {Consumer}
  BY <1>1, <1>2
<1>7. UNCHANGED <<started, process, stop, next, closed, last, up, queue, unacked, settled, losses>>
  BY DEF AssignJob, pool, broker
<1>8. LiveWhenAssigning'
  BY <1>6 DEF LiveWhenAssigning
<1> QED
  BY <1>1, <1>2, <1>3, <1>5, <1>6, <1>7, <1>8, Messages DEF IndInv, TypeOK

(* A worker that ends its job keeps the invariant. *)
LEMMA WorkInv ==
  ASSUME IndInv, NEW w \in Worker, Work(w)
  PROVE  IndInv'
<1>1. /\ job \in [Worker \cup {Consumer} -> Message \cup {None}]
      /\ live \subseteq Worker \cup {Consumer} /\ w \in Worker \cup {Consumer}
  BY DEF IndInv, TypeOK
<1>2. /\ job' = [job EXCEPT ![w] = None] /\ live' = live \ {w} /\ UNCHANGED queue
      /\ \A h \in live' : job'[h] = job[h]
  BY <1>1 DEF Work
<1>3. job' \in [Worker \cup {Consumer} -> Message \cup {None}]
  BY <1>1, <1>2
<1>4. /\ \A m \in unacked : \E h \in live : job[h] = m
      /\ \A g, h \in live : job[g] = job[h] => g = h
      /\ \A h \in live : job[h] \in unacked
  BY DEF IndInv, EveryMessageAccounted
<1>5. /\ EveryMessageAccounted'
      /\ unacked' \subseteq Message /\ settled' \subseteq Message
  <2>1. CASE w \in live
    <3>1. job[w] \in unacked /\ unacked \subseteq Message
      BY <1>4, <2>1 DEF IndInv, TypeOK
    <3>2. unacked' = unacked \ {job[w]} /\ settled' = settled \cup {job[w]}
      BY <2>1 DEF Work
    <3>3. \A m \in unacked' : \E h \in live' : job'[h] = m
      BY <1>2, <1>4, <3>2
    <3>4. \A g, h \in live' : job'[g] = job'[h] => g = h
      BY <1>2, <1>4
    <3>5. \A h \in live' : job'[h] \in unacked'
      BY <1>2, <1>4, <2>1, <3>2
    <3> QED
      BY <1>2, <3>1, <3>2, <3>3, <3>4, <3>5 DEF IndInv, TypeOK, EveryMessageAccounted, Dropped
  <2>2. CASE w \notin live
    <3>1. UNCHANGED <<unacked, settled>> /\ live' = live
      BY <1>2, <2>2 DEF Work
    <3> QED
      BY <1>2, <1>4, <3>1 DEF IndInv, TypeOK, EveryMessageAccounted, Dropped
  <2> QED
    BY <2>1, <2>2
<1>6. /\ UNCHANGED <<started, process, stop, next, closed, consumer, last, up, queue, losses>>
      /\ LiveWhenAssigning'
  BY <1>2 DEF Work, pool, IndInv, LiveWhenAssigning
<1> QED
  BY <1>1, <1>2, <1>3, <1>5, <1>6, Messages DEF IndInv, TypeOK

(* One that gives its job back does, too. *)
LEMMA RequeueInv ==
  ASSUME IndInv, NEW w \in Worker, WorkRequeues(w)
  PROVE  IndInv'
<1>1. /\ job \in [Worker \cup {Consumer} -> Message \cup {None}]
      /\ live \subseteq Worker \cup {Consumer} /\ w \in Worker \cup {Consumer}
  BY DEF IndInv, TypeOK
<1>2. /\ job' = [job EXCEPT ![w] = None] /\ live' = live \ {w} /\ UNCHANGED settled
      /\ \A h \in live' : job'[h] = job[h]
  BY <1>1 DEF WorkRequeues
<1>3. job' \in [Worker \cup {Consumer} -> Message \cup {None}]
  BY <1>1, <1>2
<1>4. /\ \A m \in unacked : \E h \in live : job[h] = m
      /\ \A g, h \in live : job[g] = job[h] => g = h
      /\ \A h \in live : job[h] \in unacked
  BY DEF IndInv, EveryMessageAccounted
<1>5. /\ EveryMessageAccounted'
      /\ unacked' \subseteq Message /\ queue' \subseteq Message
  <2>1. CASE w \in live
    <3>1. job[w] \in unacked /\ unacked \subseteq Message
      BY <1>4, <2>1 DEF IndInv, TypeOK
    <3>2. unacked' = unacked \ {job[w]} /\ queue' = queue \cup {job[w]}
      BY <2>1 DEF WorkRequeues
    <3>3. \A m \in unacked' : \E h \in live' : job'[h] = m
      BY <1>2, <1>4, <3>2
    <3>4. \A g, h \in live' : job'[g] = job'[h] => g = h
      BY <1>2, <1>4
    <3>5. \A h \in live' : job'[h] \in unacked'
      BY <1>2, <1>4, <2>1, <3>2
    <3> QED
      BY <1>2, <3>1, <3>2, <3>3, <3>4, <3>5 DEF IndInv, TypeOK, EveryMessageAccounted, Dropped
  <2>2. CASE w \notin live
    <3>1. UNCHANGED <<unacked, queue>> /\ live' = live
      BY <1>2, <2>2 DEF WorkRequeues
    <3> QED
      BY <1>2, <1>4, <3>1 DEF IndInv, TypeOK, EveryMessageAccounted, Dropped
  <2> QED
    BY <2>1, <2>2
<1>6. /\ UNCHANGED <<started, process, stop, next, closed, consumer, last, up, settled, losses>>
      /\ LiveWhenAssigning'
  BY <1>2 DEF WorkRequeues, pool, IndInv, LiveWhenAssigning
<1> QED
  BY <1>1, <1>2, <1>3, <1>5, <1>6, Messages DEF IndInv, TypeOK

(* A channel that closes keeps the invariant. *)
LEMMA CloseInv ==
  ASSUME IndInv, LoseChannel \/ \E s \in Stopper : ConfirmStop(s)
  PROVE  IndInv'
<1>1. CASE LoseChannel
  <2>1. /\ UNCHANGED <<started, process, stop, next, closed, consumer, last, job, settled>>
        /\ CloseChannel /\ losses' \in 0..MaxLosses
    BY <1>1, SizesAssumption DEF LoseChannel, pool, IndInv, TypeOK
  <2> QED
    BY <2>1, Closing, Messages DEF IndInv, TypeOK
<1>2. ASSUME NEW s \in Stopper, ConfirmStop(s)
      PROVE  IndInv'
  <2>1. /\ UNCHANGED <<started, process, next, closed, last, job, settled, losses>>
        /\ CloseChannel /\ stop' = [stop EXCEPT ![s] = "ended"] /\ consumer' = "returned"
    BY <1>2 DEF ConfirmStop
  <2>2. TypeOK'
    BY <2>1, Closing DEF IndInv, TypeOK
  <2>3. ClosingInRange'
    BY <2>1 DEF IndInv, TypeOK, ClosingInRange
  <2> QED
    BY <2>1, <2>2, <2>3, Closing DEF IndInv
<1> QED
  BY <1>1, <1>2

-----------------------------------------------------------------------------
(* Every step keeps the inductive invariant. *)
LEMMA StepInv == IndInv /\ [Next]_vars => IndInv'
<1> SUFFICES ASSUME IndInv, [Next]_vars
             PROVE  IndInv'
  OBVIOUS
<1>1. CASE Elsewhere
  BY <1>1, ElsewhereInv
<1>2. ASSUME NEW m \in Message, ReceiveJob(m) \/ ReceiveEmpty(m)
      PROVE  IndInv'
  BY <1>2, ReceiveJobInv, ReceiveEmptyInv
<1>3. CASE AssignJob
  BY <1>3, AssignJobInv
<1>4. ASSUME NEW w \in Worker, Work(w) \/ WorkRequeues(w)
      PROVE  IndInv'
  BY <1>4, WorkInv, RequeueInv
<1>5. CASE LoseChannel \/ \E s \in Stopper : ConfirmStop(s)
  BY <1>5, CloseInv
<1>6. CASE UNCHANGED vars
  BY <1>6 DEF vars, pool, group, broker, IndInv, TypeOK, EveryMessageAccounted, Dropped,
       LiveWhenAssigning, ClosingInRange
<1> QED
  BY <1>1, <1>2, <1>3, <1>4, <1>5, <1>6 DEF Next, ConsumerStep, Elsewhere

(* Whatever the workers, stoppers and lost channels do, in any order: a    *)
(* message that RabbitMQ waits to see acked is in the hands of exactly one *)
(* goroutine that can ack it, and no message with a body is dropped        *)
(* (StartConsumer, processDelivery, AssignJob and the loop of Start).      *)
THEOREM NothingDropped == Spec => []EveryMessageAccounted
<1>1. Init => IndInv
  BY InitInv
<1>2. IndInv => EveryMessageAccounted
  BY DEF IndInv
<1> QED
  BY <1>1, <1>2, StepInv, PTL DEF Spec

(* The index of the worker that is next stays one of a worker, and every   *)
(* goroutine has a message or none (AssignJob, Stop).                      *)
THEOREM PoolKeepsItsType == Spec => []TypeOK
<1>1. Init => IndInv
  BY InitInv
<1>2. IndInv => TypeOK
  BY DEF IndInv
<1> QED
  BY <1>1, <1>2, StepInv, PTL DEF Spec

-----------------------------------------------------------------------------
(* The end of the process.                                                 *)

(* Before the first call of Stop no channel of a worker is closed, and the *)
(* consumer that runs finds `started' set.                                 *)
BeforeStop ==
  (\A s \in Stopper : stop[s] = "uncalled")
    => process = "running" /\ closed = {} /\ (consumer # "none" => started)

(* Nobody takes back a call of Stop, and without one no step ends the      *)
(* process, closes a channel or clears `started'.                          *)
LEMMA BeforeStopStep == IndInv /\ BeforeStop /\ [Next]_vars => BeforeStop'
<1> SUFFICES ASSUME IndInv, BeforeStop, [Next]_vars, \A s \in Stopper : stop'[s] = "uncalled"
             PROVE  process' = "running" /\ closed' = {} /\ (consumer' # "none" => started')
  BY DEF BeforeStop
<1>1. stop \in [Stopper -> {"uncalled", "checked", "closing", "requesting", "waiting", "ended"}]
  BY DEF IndInv, TypeOK
<1> USE DEF pool
<1>2. ASSUME NEW s \in Stopper,
             \/ CallStop(s) \/ ClearStarted(s) \/ CloseJobChannel(s)
             \/ TakeStopRequest(s) \/ ConfirmStop(s)
      PROVE  FALSE
  <2>1. stop[s] # "uncalled" => stop'[s] # "uncalled"
    BY <1>1, <1>2 DEF CallStop, ClearStarted, CloseJobChannel, TakeStopRequest, ConfirmStop
  <2>2. CASE CallStop(s)
    BY <1>1, <2>2 DEF CallStop
  <2>3. CASE ~CallStop(s)
    BY <1>2, <2>1, <2>3 DEF ClearStarted, CloseJobChannel, TakeStopRequest, ConfirmStop
  <2> QED
    BY <2>2, <2>3
<1>3. ASSUME stop' = stop
      PROVE  process = "running" /\ closed = {} /\ (consumer # "none" => started)
  BY <1>3 DEF BeforeStop
<1>4. ASSUME NEW s \in Stopper, CloseTwice(s)
      PROVE  FALSE
  BY <1>4 DEF CloseTwice
<1>5. CASE Start
  BY <1>3, <1>5 DEF Start
<1>6. CASE Connect \/ ConnectFails \/ SeeChannelClosed \/ Sleep \/ Wake \/ AssignJob
  BY <1>3, <1>6 DEF Connect, ConnectFails, SeeChannelClosed, Sleep, Wake, AssignJob
<1>7. CASE Exit \/ AssignJobPanics
  BY <1>3, <1>7 DEF Exit, AssignJobPanics
<1>8. ASSUME NEW m \in Message, ReceiveJob(m) \/ ReceiveEmpty(m)
      PROVE  process' = "running" /\ closed' = {} /\ (consumer' # "none" => started')
  BY <1>3, <1>8 DEF ReceiveJob, ReceiveEmpty, Delivered
<1>9. ASSUME NEW w \in Worker, Work(w) \/ WorkRequeues(w)
      PROVE  process' = "running" /\ closed' = {} /\ (consumer' # "none" => started')
  BY <1>3, <1>9 DEF Work, WorkRequeues
<1>10. CASE LoseChannel
  BY <1>3, <1>10 DEF LoseChannel
<1>11. CASE UNCHANGED vars
  BY <1>3, <1>11 DEF vars
<1> QED
  BY <1>2, <1>4, <1>5, <1>6, <1>7, <1>8, <1>9, <1>10, <1>11 DEF Next, ConsumerStep, StopStep

(* Lost channels, failed dials, empty messages and busy workers, in any    *)
(* number and order, never end the process (the loop of Start, AssignJob): *)
(* only a call of Stop does.                                               *)
THEOREM FaultsAreSurvived == Spec => []SurvivesFaults
<1>1. Init => IndInv /\ BeforeStop
  BY InitInv DEF Init, BeforeStop
<1>2. BeforeStop => SurvivesFaults
  BY DEF BeforeStop, SurvivesFaults
<1> QED
  BY <1>1, <1>2, StepInv, BeforeStopStep, PTL DEF Spec

-----------------------------------------------------------------------------
(* The refinement of Consumption.                                          *)

(* What the live holders hold is what RabbitMQ waits to see acked. *)
LEMMA HeldIsUnacked ==
  ASSUME IndInv
  PROVE  /\ CO!Held = unacked
         /\ \A h \in Worker \cup {Consumer} : hand[h] # None <=> h \in live
         /\ \A h \in live : h \in Worker \cup {Consumer} /\ hand[h] = job[h]
         /\ hand[Consumer] # None => consumer = "assigning"
<1>1. /\ \A m \in unacked : \E h \in live : job[h] = m
      /\ \A h \in live : job[h] \in unacked
      /\ live \subseteq Worker \cup {Consumer} /\ None \notin unacked
      /\ Consumer \in live => consumer = "assigning"
  BY MessagesAssumption DEF IndInv, TypeOK, EveryMessageAccounted, LiveWhenAssigning
<1>2. \A h \in Worker \cup {Consumer} : hand[h] = IF h \in live THEN job[h] ELSE None
  BY DEF hand
<1>3. \A h \in Worker \cup {Consumer} : hand[h] # None <=> h \in live
  BY <1>1, <1>2
<1>4. \A m : m \in CO!Held <=> m \in unacked
  BY <1>1, <1>2 DEF CO!Held
<1> QED
  BY <1>1, <1>2, <1>3, <1>4

(* Consumption counts as WorkerPool does. *)
LEMMA Counts == \A S : CO!Cardinality(S) = Cardinality(S)
BY DEF CO!Cardinality, Cardinality

(* A message with a body is received. *)
LEMMA ReceiveJobRefines ==
  ASSUME IndInv, NEW m \in Message, ReceiveJob(m)
  PROVE  CO!Receive(m)
<1>1. CO!Held = unacked /\ hand[Consumer] = None
  BY HeldIsUnacked DEF ReceiveJob, Delivered
<1>2. CO!Delivered(m) /\ m \notin Empty /\ queue' = queue \ {m} /\ settled' = settled
  BY <1>1, Counts DEF ReceiveJob, Delivered, CO!Delivered
<1>3. hand' = [hand EXCEPT ![Consumer] = m]
  BY DEF ReceiveJob, hand, IndInv, TypeOK
<1> QED
  BY <1>1, <1>2, <1>3 DEF CO!Receive

(* An empty one is dropped. *)
LEMMA ReceiveEmptyRefines ==
  ASSUME IndInv, NEW m \in Message, ReceiveEmpty(m)
  PROVE  CO!Drop(m)
<1>1. CO!Held = unacked
  BY HeldIsUnacked
<1>2. hand' = CO!Nothing
  BY DEF ReceiveEmpty, hand, CO!Nothing
<1> QED
  BY <1>1, <1>2, Counts DEF ReceiveEmpty, Delivered, CO!Drop, CO!Delivered

(* A live message changes hands; one that is not is in nobody's. *)
LEMMA AssignJobRefines ==
  ASSUME IndInv, AssignJob
  PROVE  CO!Assign(last) \/ UNCHANGED CO!vars
<1>1. /\ last \in Worker /\ last # Consumer /\ last \notin live
      /\ job \in [Worker \cup {Consumer} -> Message \cup {None}]
      /\ queue' = queue /\ settled' = settled
      /\ job' = [job EXCEPT ![last] = job[Consumer], ![Consumer] = None]
      /\ live' = (live \ {Consumer}) \cup (IF Consumer \in live THEN {last} ELSE {})
  <2>1. job[last] = None /\ last \in Worker
    BY DEF AssignJob, IndInv, TypeOK
  <2>2. last \notin live
    BY <2>1, HeldIsUnacked
  <2> QED
    BY <2>1, <2>2, Indices DEF AssignJob, IndInv, TypeOK, broker
<1>2. CASE Consumer \in live
  <2>1. hand[Consumer] = job[Consumer] /\ hand[Consumer] # None /\ hand[last] = None
    BY <1>1, <1>2, HeldIsUnacked
  <2>2. hand' = [hand EXCEPT ![last] = hand[Consumer], ![Consumer] = None]
    BY <1>1, <1>2, <2>1 DEF hand
  <2> QED
    BY <1>1, <2>1, <2>2 DEF CO!Assign
<1>3. CASE Consumer \notin live
  <2>1. hand' = hand
    BY <1>1, <1>3 DEF hand
  <2> QED
    BY <1>1, <2>1 DEF CO!vars
<1> QED
  BY <1>2, <1>3

(* A worker settles what it may settle, and nothing else. *)
LEMMA WorkRefines ==
  ASSUME IndInv, NEW w \in Worker, Work(w)
  PROVE  CO!Settle(w) \/ UNCHANGED CO!vars
<1>1. /\ job \in [Worker \cup {Consumer} -> Message \cup {None}] /\ queue' = queue
      /\ job' = [job EXCEPT ![w] = None] /\ live' = live \ {w}
  BY DEF Work, IndInv, TypeOK
<1>2. hand' = [hand EXCEPT ![w] = None]
  BY <1>1 DEF hand
<1>3. CASE w \in live
  <2>1. hand[w] = job[w] /\ hand[w] # None
    BY <1>3, HeldIsUnacked
  <2>2. settled' = settled \cup {job[w]}
    BY <1>3 DEF Work
  <2> QED
    BY <1>1, <1>2, <2>1, <2>2 DEF CO!Settle
<1>4. CASE w \notin live
  <2>1. hand' = hand
    BY <1>1, <1>4 DEF hand
  <2> QED
    BY <1>1, <1>4, <2>1 DEF Work, CO!vars
<1> QED
  BY <1>3, <1>4

(* So it is with what it gives back. *)
LEMMA RequeueRefines ==
  ASSUME IndInv, NEW w \in Worker, WorkRequeues(w)
  PROVE  CO!GiveBack(w) \/ UNCHANGED CO!vars
<1>1. /\ job \in [Worker \cup {Consumer} -> Message \cup {None}] /\ settled' = settled
      /\ job' = [job EXCEPT ![w] = None] /\ live' = live \ {w}
  BY DEF WorkRequeues, IndInv, TypeOK
<1>2. hand' = [hand EXCEPT ![w] = None]
  BY <1>1 DEF hand
<1>3. CASE w \in live
  <2>1. hand[w] = job[w] /\ hand[w] # None
    BY <1>3, HeldIsUnacked
  <2>2. queue' = queue \cup {job[w]}
    BY <1>3 DEF WorkRequeues
  <2> QED
    BY <1>1, <1>2, <2>1, <2>2 DEF CO!GiveBack
<1>4. CASE w \notin live
  <2>1. hand' = hand
    BY <1>1, <1>4 DEF hand
  <2> QED
    BY <1>1, <1>4, <2>1 DEF WorkRequeues, CO!vars
<1> QED
  BY <1>3, <1>4

(* A channel that closes gives everything back. *)
LEMMA CloseRefines ==
  ASSUME IndInv, CloseChannel, settled' = settled
  PROVE  CO!GiveAllBack
<1>1. hand' = CO!Nothing
  BY DEF CloseChannel, hand, CO!Nothing
<1> QED
  BY <1>1, HeldIsUnacked DEF CloseChannel, CO!GiveAllBack

(* Every step of the pool is a step of Consumption or moves no message. *)
LEMMA StepRefines == IndInv /\ [Next]_vars => [CO!Next]_CO!vars
<1> SUFFICES ASSUME IndInv, [Next]_vars
             PROVE  [CO!Next]_CO!vars
  OBVIOUS
<1>1. ASSUME NEW m \in Message, ReceiveJob(m) \/ ReceiveEmpty(m)
      PROVE  CO!Next
  BY <1>1, ReceiveJobRefines, ReceiveEmptyRefines DEF CO!Next
<1>2. CASE AssignJob
  <2>1. last \in Worker
    BY DEF IndInv, TypeOK
  <2> QED
    BY <1>2, <2>1, AssignJobRefines DEF CO!Next
<1>3. ASSUME NEW w \in Worker, Work(w) \/ WorkRequeues(w)
      PROVE  CO!Next \/ UNCHANGED CO!vars
  BY <1>3, WorkRefines, RequeueRefines DEF CO!Next
<1>4. CASE LoseChannel \/ \E s \in Stopper : ConfirmStop(s)
  <2>1. CloseChannel /\ settled' = settled
    BY <1>4 DEF LoseChannel, ConfirmStop
  <2> QED
    BY <2>1, CloseRefines DEF CO!Next
<1>5. CASE Elsewhere
  <2>1. UNCHANGED <<job, live, queue, settled>>
    BY <1>5 DEF Elsewhere, StopStep, CallStop, ClearStarted, CloseJobChannel, CloseTwice,
       TakeStopRequest, Start, Connect, ConnectFails, AssignJobPanics, SeeChannelClosed,
       Sleep, Exit, Wake, pool, group, broker
  <2> QED
    BY <2>1 DEF CO!vars, hand
<1>6. CASE UNCHANGED vars
  BY <1>6 DEF vars, group, broker, CO!vars, hand
<1> QED
  BY <1>1, <1>2, <1>3, <1>4, <1>5, <1>6 DEF Next, ConsumerStep, Elsewhere

(* Whatever the workers, the stoppers and lost channels do: a message is   *)
(* settled by a worker that has processed it and that RabbitMQ waits for,  *)
(* never by one whose channel is gone (Processor and its Ack and Nack,     *)
(* AssignJob, StartConsumer and the channels it closes).                   *)
THEOREM ConsumptionIsImplemented == Spec => ImplementsConsumption
<1>1. Init => CO!Init
  <2>1. Init => hand = CO!Nothing
    BY DEF Init, hand, CO!Nothing
  <2> QED
    BY <2>1 DEF Init, CO!Init
<1>2. Init => IndInv
  BY InitInv
<1> QED
  BY <1>1, <1>2, StepInv, StepRefines, PTL DEF Spec, ImplementsConsumption, CO!Spec
=============================================================================
