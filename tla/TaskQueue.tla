----------------------------- MODULE TaskQueue -----------------------------
(***************************************************************************)
(* What the system promises its clients: an accepted task stays pending    *)
(* until it is resolved (completed, or dropped by a decision of the code). *)
(* It may run again after that, because delivery is at least once, but     *)
(* nothing that was not submitted is ever resolved.                        *)
(***************************************************************************)
CONSTANT Task

VARIABLES
  accepted,   \* the tasks the system confirmed to the client
  pending,    \* the tasks that some message still carries
  resolved    \* the tasks completed or dropped

vars == <<accepted, pending, resolved>>

Init == accepted = {} /\ pending = {} /\ resolved = {}

Accept(t) ==
  /\ t \notin accepted
  /\ accepted' = accepted \cup {t}
  /\ pending' = pending \cup {t}
  /\ UNCHANGED resolved

(* The client got an error, and the task was stored all the same. *)
AcceptUnconfirmed(t) ==
  /\ t \notin accepted
  /\ pending' = pending \cup {t}
  /\ UNCHANGED <<accepted, resolved>>

Resolve(t) ==
  /\ t \in pending \cup resolved
  /\ resolved' = resolved \cup {t}
  /\ UNCHANGED <<accepted, pending>>

Leave(t) ==
  /\ t \in pending \cap resolved
  /\ pending' = pending \ {t}
  /\ UNCHANGED <<accepted, resolved>>

(* A worker that lost its channel retries a task that another one settled. *)
Redo(t) ==
  /\ t \in resolved
  /\ pending' = pending \cup {t}
  /\ UNCHANGED <<accepted, resolved>>

Next ==
  \E t \in Task :
    Accept(t) \/ AcceptUnconfirmed(t) \/ Resolve(t) \/ Leave(t) \/ Redo(t)

Spec == Init /\ [][Next]_vars

(* No task that was accepted disappears before it is resolved. *)
AcceptedIsKept == accepted \subseteq pending \cup resolved
=============================================================================
