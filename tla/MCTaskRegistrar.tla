-------------------------- MODULE MCTaskRegistrar --------------------------
(* Instances of TaskRegistrar for TLC. *)
EXTENDS TaskRegistrar, TLC

(* Without parking queues, with two, and with the shared one of the        *)
(* defaults FAILED_QUEUE = TIMEOUT_QUEUE of config.go.                     *)
Base == [ExchangeType |-> "direct", TaskQueueName |-> "task_queue",
         BindingKey |-> "binding_key", DelayedQueue |-> "delayed_queue",
         FailedQueue |-> "failed_queue", TimeoutQueue |-> "timeout_queue"]
TwoParkingQueues == {Base}
AllConfigs ==
  {Base, [Base EXCEPT !.FailedQueue = "", !.TimeoutQueue = ""],
   [Base EXCEPT !.TimeoutQueue = "failed_queue"]}

(* The task "unknown" is not registered. *)
Registered == {"add"}

Plain == [Name |-> "add", decodable |-> TRUE, raw |-> FALSE, urgent |-> FALSE,
          RetryCount |-> 1, TaskTimeOut |-> FALSE, ETA |-> "nil", RoutingKey |-> ""]
WithDeadline == [Plain EXCEPT !.TaskTimeOut = TRUE, !.raw = TRUE, !.urgent = TRUE]
Scheduled == [Plain EXCEPT !.ETA = "future", !.RoutingKey = "delayed_queue",
                           !.urgent = TRUE, !.RetryCount = 0]
Keyed == [Plain EXCEPT !.RoutingKey = "binding_key", !.ETA = "past"]
Unknown == [Plain EXCEPT !.Name = "unknown"]
Garbled == [Plain EXCEPT !.decodable = FALSE]

Mixed == {[Plain EXCEPT !.RetryCount = 0], [WithDeadline EXCEPT !.RetryCount = 0],
          Scheduled, Keyed, Unknown, Garbled}
Paired == {Plain, [WithDeadline EXCEPT !.RetryCount = 0]}

(* An ETA with the routing key left empty; a high priority together with a *)
(* start deadline, in JSON; more retries than there are positive intervals. *)
EmptyKeyWithETA == {[Plain EXCEPT !.ETA = "future"]}
UrgentWithDeadline == {[Plain EXCEPT !.urgent = TRUE, !.TaskTimeOut = TRUE]}
FiftyRetries == {[Plain EXCEPT !.RetryCount = 50, !.raw = TRUE]}

ASSUME SafeSubmissionsAssumption ==
  \A c \in AllConfigs, s \in Mixed \cup Paired : SafeSubmission(c, s)

Symmetry == Permutations(Task) \cup Permutations(Worker)
=============================================================================
