------------------------------ MODULE TaskModel ------------------------------
(***************************************************************************)
(* The vocabulary of the task engine that both store implementations share: *)
(* the statuses of a task, the transition table, and the two Outcome        *)
(* functions of UpdateTaskStatus.  The status of a task that is not in the   *)
(* store is "none"; "partial" is a Redis meta hash that holds only its "id"  *)
(* field, between the HSETNX and the HSET of SaveTask.                       *)
(***************************************************************************)

\* taskengine/model.go, StatusPending .. StatusCancelled.
Statuses ==
  {"pending", "running", "success", "failed", "timeout", "skipped", "cancelled"}

StoredStatuses == Statuses \cup {"none", "partial"}

\* The statuses IsTerminal answers true for.
Terminal == {"success", "failed", "timeout", "skipped", "cancelled"}

\* state_machine.go, validTransitions.
ValidTransition(from, to) ==
  \/ from = "pending" /\ to \in {"running", "cancelled", "timeout"}
  \/ from = "running" /\ to \in {"success", "failed", "timeout", "skipped", "cancelled"}
  \/ from \in {"failed", "timeout"} /\ to = "pending"

\* "Fully terminal states - no outgoing transitions" (state_machine.go).
FullyTerminal == {"success", "skipped", "cancelled"}

\* Mutant of RedisOutcome: a fully terminal status is refused like any other.
RedisOutcomeTolerant(cur, new) ==
  IF cur \in {"none", "partial"} THEN "NOT_FOUND"
  ELSE IF cur = new THEN "SAME"
  ELSE IF ValidTransition(cur, new) THEN "OK" ELSE "INVALID"

(***************************************************************************)
(* What RedisStore.UpdateTaskStatus answers for a hash in status cur: the    *)
(* Lua script reports a fully terminal status as TERMINAL, which reaches the *)
(* caller as a plain error and not as an InvalidTransitionError.             *)
(***************************************************************************)
RedisOutcome(cur, new) ==
  IF cur \in {"none", "partial"} THEN "NOT_FOUND"
  ELSE IF cur = new THEN "SAME"
  ELSE IF cur \in FullyTerminal THEN "TERMINAL"
  ELSE IF ValidTransition(cur, new) THEN "OK" ELSE "INVALID"

\* What MemoryStore.UpdateTaskStatus answers: every refused transition is an
\* InvalidTransitionError.
MemoryOutcome(cur, new) ==
  IF cur = "none" THEN "NOT_FOUND"
  ELSE IF cur = new THEN "SAME"
  ELSE IF ValidTransition(cur, new) THEN "OK" ELSE "INVALID"

==============================================================================
