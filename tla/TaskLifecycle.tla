---------------------------- MODULE TaskLifecycle ----------------------------
(***************************************************************************)
(* What the task engine promises its callers (taskengine/engine.go, model.go  *)
(* and state_machine.go), whatever happens between the operations of its       *)
(* stores: a task waits, is executed by one consumer at a time, ends once, and *)
(* is retried so often and no more.  Every action is one atomic step here.     *)
(***************************************************************************)
EXTENDS Naturals

CONSTANTS Tasks, Consumers,
  MaxAttempts  \* the first attempt and the retries

VARIABLES
  stage,     \* of each task
  workers,   \* the consumers that execute it
  attempts   \* how often it was handed to one since it was submitted

vars == <<stage, workers, attempts>>

Stages == {"absent", "waiting", "executing", "unsuccessful", "success", "skipped", "cancelled"}

Idle(t) == workers[t] = {}
Becomes(t, s) == stage' = [stage EXCEPT ![t] = s]

Init ==
  /\ stage = [t \in Tasks |-> "absent"]
  /\ workers = [t \in Tasks |-> {}]
  /\ attempts = [t \in Tasks |-> 0]

\* A task that failed and whose retry is under way may be submitted anew.
Submit(t) ==
  /\ stage[t] \in {"absent", "unsuccessful"} /\ Idle(t)
  /\ Becomes(t, "waiting") /\ attempts' = [attempts EXCEPT ![t] = 0]
  /\ UNCHANGED workers

\* Claim: the task is taken, and handed over, unless it has ended in between; then it
\* may be handed over nevertheless.
Begin(t) == stage[t] = "waiting" /\ Idle(t) /\ Becomes(t, "executing") /\ UNCHANGED <<workers, attempts>>

Deliver(t, c) ==
  /\ stage[t] \notin {"absent", "waiting"} /\ Idle(t) /\ attempts[t] < MaxAttempts
  /\ workers' = [workers EXCEPT ![t] = {c}] /\ attempts' = [attempts EXCEPT ![t] = @ + 1]
  /\ UNCHANGED stage

\* The consumer is done with the task, or died.
LetGo(t, c) ==
  /\ c \in workers[t]
  /\ workers' = [workers EXCEPT ![t] = @ \ {c}]
  /\ UNCHANGED <<stage, attempts>>

\* Report of a result by the consumer that has let go of the task.
Succeed(t, s) ==
  /\ stage[t] = "executing" /\ Idle(t) /\ s \in {"success", "skipped"}
  /\ Becomes(t, s) /\ UNCHANGED <<workers, attempts>>

\* A failure, or a timeout, which the reaper reports whoever executes the task, and
\* which may come so late that the task waits for its next attempt.
Fail(t) ==
  /\ stage[t] \in {"waiting", "executing"}
  /\ Becomes(t, "unsuccessful") /\ UNCHANGED <<workers, attempts>>

Cancel(t) ==
  /\ stage[t] \in {"waiting", "executing"}
  /\ Becomes(t, "cancelled") /\ UNCHANGED <<workers, attempts>>

Retry(t) ==
  /\ stage[t] = "unsuccessful" /\ Idle(t) /\ attempts[t] < MaxAttempts
  /\ Becomes(t, "waiting") /\ UNCHANGED <<workers, attempts>>

\* A retry that is cut short loses the task.
Forget(t) ==
  /\ stage[t] = "unsuccessful" /\ Idle(t)
  /\ Becomes(t, "absent") /\ UNCHANGED <<workers, attempts>>

\* A submission that fails takes the task back, which a Cancel may have overtaken; a
\* retry of the task that is under way may bring it again.
Withdraw(t) ==
  /\ stage[t] \in {"waiting", "cancelled"} /\ Idle(t)
  /\ \E s \in {"absent", "unsuccessful"} : Becomes(t, s)
  /\ UNCHANGED <<workers, attempts>>

Next ==
  \E t \in Tasks :
    \/ Submit(t) \/ Begin(t) \/ Fail(t) \/ Cancel(t) \/ Retry(t) \/ Forget(t) \/ Withdraw(t)
    \/ \E s \in {"success", "skipped"} : Succeed(t, s)
    \/ \E c \in Consumers : Deliver(t, c) \/ LetGo(t, c)

Spec == Init /\ [][Next]_vars

==============================================================================
