---------------------------- MODULE Publication ----------------------------
(***************************************************************************)
(* What AmqpPublishWithConfirm promises the goroutines that call it: nil   *)
(* only for a message that RabbitMQ has stored or that no queue was bound  *)
(* for, and never two messages for one call.  After an error the message   *)
(* may be stored all the same, and it may be stored after the call has     *)
(* returned.                                                               *)
(***************************************************************************)
EXTENDS Naturals

CONSTANTS
  Call,         \* the calls, each made once
  Unroutable    \* those whose message no queue is bound for

VARIABLES
  status,   \* status[c]: "idle", "pending", or what the call has returned
  stored    \* stored[c]: how many messages of c RabbitMQ has stored

vars == <<status, stored>>

Init ==
  /\ status = [c \in Call |-> "idle"]
  /\ stored = [c \in Call |-> 0]

Begin(c) ==
  /\ status[c] = "idle"
  /\ status' = [status EXCEPT ![c] = "pending"]
  /\ UNCHANGED stored

Store(c) ==
  /\ c \notin Unroutable
  /\ status[c] \in {"pending", "error"} /\ stored[c] = 0
  /\ stored' = [stored EXCEPT ![c] = 1]
  /\ UNCHANGED status

Confirm(c) ==
  /\ status[c] = "pending" /\ (stored[c] = 1 \/ c \in Unroutable)
  /\ status' = [status EXCEPT ![c] = "ok"]
  /\ UNCHANGED stored

Fail(c) ==
  /\ status[c] = "pending"
  /\ status' = [status EXCEPT ![c] = "error"]
  /\ UNCHANGED stored

Next == \E c \in Call : Begin(c) \/ Store(c) \/ Confirm(c) \/ Fail(c)

Spec == Init /\ [][Next]_vars
=============================================================================
