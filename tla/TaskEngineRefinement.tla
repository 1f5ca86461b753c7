------------------------- MODULE TaskEngineRefinement -------------------------
(***************************************************************************)
(* The task engine implements TaskLifecycle, over Redis and with reports       *)
(* delivered once.  A record that is missing or partial stands for a task that *)
(* has ended without success while its retry is between DeleteTask and the     *)
(* new record.                                                               *)
(***************************************************************************)
EXTENDS TaskEngine

BeingRetried(t) == \E p \in Procs : Busy(p, t, {"try_save", "try_fill"})

StageOf(t) ==
  CASE status[t] \in {"none", "partial"} -> IF BeingRetried(t) THEN "unsuccessful" ELSE "absent"
    [] status[t] = "pending" -> "waiting"
    [] status[t] = "running" -> "executing"
    [] status[t] \in {"failed", "timeout"} -> "unsuccessful"
    [] OTHER -> status[t]

Lifecycle == INSTANCE TaskLifecycle WITH
  MaxAttempts <- MaxRetries + 1,
  stage <- [t \in Tasks |-> StageOf(t)],
  workers <- [t \in Tasks |-> {c \in Consumers : Busy(c, t, {"exec"})}],
  attempts <- handed

\* Whatever calls crash, fail or race between two operations of the store, the callers
\* of Submit, Cancel, Claim and Report see a task that waits, is executed by one
\* consumer at a time and at most MaxRetries + 1 times, and ends once.
ImplementsLifecycle == Lifecycle!Spec

\* No ID is submitted again while a retry of it is between its two writes.  Otherwise two
\* retries of one attempt may follow each other, and where tasks are retried more than
\* once, be handed over once too often.
NotOvertaken ==
  \A p, q \in Procs, t \in Tasks :
    ~(Busy(p, t, {"sub_fill"}) /\ Busy(q, t, {"try_save"}))

==============================================================================
