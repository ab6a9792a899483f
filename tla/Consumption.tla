---------------------------- MODULE Consumption ----------------------------
(***************************************************************************)
(* What a consumer promises RabbitMQ: a message is settled only by the     *)
(* worker that it was handed to, after that worker took it and while it    *)
(* still may; until then it is in one pair of hands, or ready for others,  *)
(* and at most a window of messages are not.  An empty message is dropped. *)
(***************************************************************************)
EXTENDS FiniteSets, Integers

CONSTANTS Message, Empty, Worker, Consumer, Window, None

VARIABLES
  ready,   \* the messages in the queue
  hand,    \* hand[h]: the message that the worker or the consumer h may settle
  done     \* the messages that are settled

vars == <<ready, hand, done>>

Nothing == [h \in Worker \cup {Consumer} |-> None]
Held == {hand[h] : h \in Worker \cup {Consumer}} \ {None}

Init == ready = Message /\ hand = Nothing /\ done = {}

Delivered(m) == m \in ready /\ Cardinality(Held) < Window

Receive(m) ==
  /\ Delivered(m) /\ m \notin Empty /\ hand[Consumer] = None
  /\ ready' = ready \ {m}
  /\ hand' = [hand EXCEPT ![Consumer] = m]
  /\ UNCHANGED done

(* The message and the hands that are open are given back together.        *)
Drop(m) ==
  /\ Delivered(m) /\ m \in Empty
  /\ ready' = (ready \cup Held) \ {m}
  /\ hand' = Nothing
  /\ UNCHANGED done

Assign(w) ==
  /\ hand[Consumer] # None /\ hand[w] = None
  /\ hand' = [hand EXCEPT ![w] = hand[Consumer], ![Consumer] = None]
  /\ UNCHANGED <<ready, done>>

Settle(w) ==
  /\ hand[w] # None
  /\ hand' = [hand EXCEPT ![w] = None]
  /\ done' = done \cup {hand[w]}
  /\ UNCHANGED ready

GiveBack(w) ==
  /\ hand[w] # None
  /\ hand' = [hand EXCEPT ![w] = None]
  /\ ready' = ready \cup {hand[w]}
  /\ UNCHANGED done

(* The channel is gone, and with it the right to settle what came over it. *)
GiveAllBack ==
  /\ ready' = ready \cup Held
  /\ hand' = Nothing
  /\ UNCHANGED done

Next ==
  \/ GiveAllBack
  \/ \E m \in Message : Receive(m) \/ Drop(m)
  \/ \E w \in Worker : Assign(w) \/ Settle(w) \/ GiveBack(w)

Spec == Init /\ [][Next]_vars
=============================================================================
