--------------------------- MODULE TaskEngineProofs ---------------------------
(***************************************************************************)
(* The engine for any number of tasks and processes and whatever calls crash or    *)
(* fail.  Over both stores the state keeps its types, and a running task belongs   *)
(* to the consumer its record names.                                               *)
(*                                                                         *)
(* Over the Redis store, with reports that are delivered once, a task is never     *)
(* executed by two consumers at once, and a fully terminal status is final: the    *)
(* argument follows the one place a task can be, in its queue, or held by one call *)
(* between the HSETNX that created its record (or the Dequeue that took it) and    *)
(* the step that queues it, ends it or deletes it.  Counting the attempts of a     *)
(* task along those places, the engine implements TaskLifecycle.  While calls run  *)
(* to their end, a pending task is in reach of a consumer, and one that has ended  *)
(* shows its result.                                                               *)
(***************************************************************************)
EXTENDS TaskEngineRefinement, TLAPS

\* The points of a call that hold the task it is about.  Between the DEL and the
\* HSETNX of a retry ("try_save") the call holds nothing: it may find the ID
\* taken by another Submit.
HoldPcs ==
  {"sub_fill", "sub_enqueue", "undo_lookup", "undo_delete", "exec"}
    \cup ClaimPcs \cup ReportPcs \cup (RetryPcs \ {"try_save"})

Holds(p, t) == p \notin Reapers /\ task[p] = t /\ pc[p] \in HoldPcs

OneHolder ==
  \A t \in Tasks :
    /\ queued[t] \in {0, 1}
    /\ \A p \in Procs : Holds(p, t) => queued[t] = 0
    /\ \A p, q \in Procs : Holds(p, t) /\ Holds(q, t) => p = q
    /\ status[t] = "none" => queued[t] = 0 /\ \A p \in Procs : ~Holds(p, t)

\* Which calls a process runs, and what its local variables hold at each point.
Roles ==
  /\ \A p \in Producers : pc[p] \in {"idle"} \cup SubmitPcs \cup CancelPcs
  /\ \A c \in Consumers : pc[c] \in {"idle", "exec"} \cup ClaimPcs \cup ReportPcs \cup RetryPcs
  /\ \A r \in Reapers : pc[r] \in {"idle"} \cup ReportPcs

Locals ==
  \A p \in Procs :
    /\ pc[p] # "idle" => task[p] \in Tasks
    /\ pc[p] \in ReportPcs \cup RetryPcs => out[p] \in {"success", "failed", "skipped", "timeout"}
    /\ p \in Reapers /\ pc[p] # "idle" => out[p] = "timeout"
    /\ pc[p] \in RetryPcs => snap[p] < MaxRetries

\* What a call knows about the status of the task it holds.
StatusKnown ==
  \A p \in Procs :
    /\ pc[p] \in {"sub_fill", "try_fill"} => status[task[p]] = "partial"
    /\ p \in Consumers /\ pc[p] \in {"clm_index", "clm_get", "exec"} \cup ReportPcs
                                      \cup {"try_result", "try_update"}
         => status[task[p]] \notin {"none", "partial", "pending"}
    /\ pc[p] \in {"try_index", "try_lookup", "try_delete"}
         => status[task[p]] \in {"failed", "timeout"}

\* What holds over both stores, whatever is delivered twice, crashes or fails.
Basics == TypeOK /\ Roles /\ Locals

IInv == TypeOK /\ Roles /\ Locals /\ OneHolder /\ StatusKnown

Setting == Store = "redis" /\ MaxResends = 0

\* The sets of points, the groups of variables and the moves of a call are
\* visible in every step below.
USE ProcsDisjoint, BoundsAreNat, OutcomesReported, NullIsNoValue
    DEF Procs, Pcs, SubmitPcs, CancelPcs, ClaimPcs, ReportPcs, RetryPcs, HoldPcs,
        At, Goto, Begin, Return, record, indexes, locals, history, faults

\* What a store lets the caller of UpdateTaskStatus conclude about the status it found.
LEMMA Moved ==
  ASSUME NEW cur \in StoredStatuses, NEW new \in Statuses, Outcome(cur, new) = "OK"
  PROVE  cur \in {"pending", "running", "failed", "timeout"}
  BY DEF Outcome, RedisOutcome, MemoryOutcome, ValidTransition, StoredStatuses, Statuses

\* A record keeps its types through an update, accepted or not.
LEMMA UpdateTypes ==
  ASSUME TypeOK, NEW t \in Tasks, NEW new \in Statuses, NEW by \in Consumers \cup {NULL},
         Update(t, new, by)
  PROVE  /\ status' \in [Tasks -> StoredStatuses]
         /\ claimedBy' \in [Tasks -> Consumers \cup {NULL}]
         /\ retries' \in [Tasks -> 0..MaxRetries]
  BY DEF Update, TypeOK, StoredStatuses

\* After an accepted transition only the caller moves, and it remembers the status it replaced.
LEMMA TransitionedTypes ==
  ASSUME Basics, NEW p \in Procs, task[p] \in Tasks, NEW new \in Statuses,
         Outcome(status[task[p]], new) = "OK",
         NEW index \in Pcs, NEW next \in Pcs, Transitioned(p, index, next)
  PROVE  /\ pc' \in [Procs -> Pcs] /\ from' \in [Procs -> Statuses \cup {NULL}]
         /\ UNCHANGED <<task, out, snap>>
         /\ pc' = [pc EXCEPT ![p] = pc'[p]] /\ pc'[p] \in {index, next}
  <1>1. status[task[p]] \in Statuses
    BY Moved DEF Basics, TypeOK, Statuses
  <1> QED
    BY <1>1 DEF Transitioned, Basics, TypeOK

\* A report ends its call, or is delivered again to the consumer that sent it.
LEMMA ReturnsTypes ==
  ASSUME Basics, NEW p \in Consumers \cup Reapers, ReportReturns(p)
  PROVE  /\ pc' \in [Procs -> Pcs] /\ from' \in [Procs -> Statuses \cup {NULL}]
         /\ task' \in [Procs -> Tasks \cup {NULL}] /\ out' \in [Procs -> Statuses \cup {NULL}]
         /\ snap' \in [Procs -> 0..MaxRetries] /\ resends' \in 0..MaxResends
         /\ \/ Return(p)
            \/ p \in Consumers /\ pc' = [pc EXCEPT ![p] = "rep_get"] /\ UNCHANGED <<task, out, snap>>
  <1>1. CASE Return(p) /\ UNCHANGED resends
    BY <1>1 DEF Basics, TypeOK
  <1>2. CASE ~(Return(p) /\ UNCHANGED resends)
    BY <1>2 DEF ReportReturns, Basics, TypeOK
  <1> QED
    BY <1>1, <1>2

\* A process moves to a point of its own call, and keeps what its call is about.
LEMMA BasicsNext ==
  ASSUME Basics, [Next]_vars
  PROVE  Basics'
  <1>0. TypeOK /\ Roles /\ Locals
    BY DEF Basics
  <1>1. ASSUME NEW p \in Producers, NEW t \in Tasks, SubmitCheck(p, t)
        PROVE  Basics'
    <2> USE DEF SubmitCheck
    <2>1. TypeOK'
      BY <1>0, <1>1 DEF TypeOK, Roles, Locals, StoredStatuses, Statuses
    <2>2. Roles' /\ Locals'
      BY <1>0, <1>1 DEF TypeOK, Roles, Locals
    <2> QED
      BY <2>1, <2>2 DEF Basics
  <1>2. ASSUME NEW p \in Producers, SubmitSave(p)
        PROVE  Basics'
    <2> USE DEF SubmitSave, Save, WriteRecord
    <2>1. TypeOK'
      BY <1>0, <1>2 DEF TypeOK, Roles, Locals, StoredStatuses, Statuses
    <2>2. Roles' /\ Locals'
      BY <1>0, <1>2 DEF TypeOK, Roles, Locals
    <2> QED
      BY <2>1, <2>2 DEF Basics
  <1>3. ASSUME NEW p \in Producers, SubmitFill(p)
        PROVE  Basics'
    <2> USE DEF SubmitFill, WriteRecord
    <2>1. TypeOK'
      BY <1>0, <1>3 DEF TypeOK, Roles, Locals, StoredStatuses, Statuses
    <2>2. Roles' /\ Locals'
      BY <1>0, <1>3 DEF TypeOK, Roles, Locals
    <2> QED
      BY <2>1, <2>2 DEF Basics
  <1>4. ASSUME NEW p \in Producers, SubmitEnqueue(p)
        PROVE  Basics'
    <2> USE DEF SubmitEnqueue
    <2>1. TypeOK'
      BY <1>0, <1>4 DEF TypeOK, Roles, Locals, StoredStatuses, Statuses
    <2>2. Roles' /\ Locals'
      BY <1>0, <1>4 DEF TypeOK, Roles, Locals
    <2> QED
      BY <2>1, <2>2 DEF Basics
  <1>5. ASSUME NEW p \in Procs, SubmitEnqueueFails(p)
        PROVE  Basics'
    <2> USE DEF SubmitEnqueueFails, Failure, DeleteFrom
    <2>1. TypeOK'
      BY <1>0, <1>5 DEF TypeOK, Roles, Locals, StoredStatuses, Statuses
    <2>2. Roles' /\ Locals'
      BY <1>0, <1>5 DEF TypeOK, Roles, Locals
    <2> QED
      BY <2>1, <2>2 DEF Basics
  <1>6. ASSUME NEW p \in Producers, UndoLookup(p)
        PROVE  Basics'
    <2> USE DEF UndoLookup
    <2>1. TypeOK'
      BY <1>0, <1>6 DEF TypeOK, Roles, Locals, StoredStatuses, Statuses
    <2>2. Roles' /\ Locals'
      BY <1>0, <1>6 DEF TypeOK, Roles, Locals
    <2> QED
      BY <2>1, <2>2 DEF Basics
  <1>7. ASSUME NEW p \in Producers, UndoDelete(p)
        PROVE  Basics'
    <2> USE DEF UndoDelete, DeleteRecord
    <2>1. TypeOK'
      BY <1>0, <1>7 DEF TypeOK, Roles, Locals, StoredStatuses, Statuses
    <2>2. Roles' /\ Locals'
      BY <1>0, <1>7 DEF TypeOK, Roles, Locals
    <2> QED
      BY <2>1, <2>2 DEF Basics
  <1>8. ASSUME NEW p \in Producers, NEW t \in Tasks, CancelCheck(p, t)
        PROVE  Basics'
    <2> USE DEF CancelCheck
    <2>1. TypeOK'
      BY <1>0, <1>8 DEF TypeOK, Roles, Locals, StoredStatuses, Statuses
    <2>2. Roles' /\ Locals'
      BY <1>0, <1>8 DEF TypeOK, Roles, Locals
    <2> QED
      BY <2>1, <2>2 DEF Basics
  <1>9. ASSUME NEW p \in Producers, CancelUpdate(p)
        PROVE  Basics'
    <2>0. /\ task[p] \in Tasks /\ "cancelled" \in Statuses /\ status[task[p]] \in StoredStatuses
          /\ p \in Procs /\ Update(task[p], "cancelled", NULL)
          /\ UNCHANGED <<queued, indexes, result, overdue, handed, faults>>
      BY <1>0, <1>9 DEF CancelUpdate, TypeOK, Roles, Locals, Statuses
    <2>1. /\ status' \in [Tasks -> StoredStatuses]
          /\ claimedBy' \in [Tasks -> Consumers \cup {NULL}]
          /\ retries' \in [Tasks -> 0..MaxRetries]
      BY <1>0, <2>0, UpdateTypes
    <2>2. CASE Outcome(status[task[p]], "cancelled") = "OK"
      <3>1. Transitioned(p, "can_index", "can_remove") /\ UNCHANGED resends
        BY <2>2, <1>9 DEF CancelUpdate
      <3>2. /\ pc' \in [Procs -> Pcs] /\ from' \in [Procs -> Statuses \cup {NULL}]
            /\ UNCHANGED <<task, out, snap>>
            /\ pc' = [pc EXCEPT ![p] = pc'[p]] /\ pc'[p] \in {"can_index", "can_remove"}
        BY <1>0, <2>0, <2>2, <3>1, TransitionedTypes DEF Basics
      <3>3. TypeOK'
        BY <1>0, <2>0, <2>1, <3>1, <3>2 DEF TypeOK
      <3>4. Roles' /\ Locals'
        BY <1>0, <2>0, <1>9, <3>2 DEF TypeOK, Roles, Locals, CancelUpdate
      <3> QED
        BY <3>3, <3>4 DEF Basics
    <2>3. CASE /\ Outcome(status[task[p]], "cancelled") # "OK"
               /\ Goto(p, "can_remove") /\ UNCHANGED resends
      <3>1. TypeOK'
        BY <1>0, <2>0, <2>1, <2>3 DEF TypeOK
      <3>2. Roles' /\ Locals'
        BY <1>0, <2>0, <1>9, <2>3 DEF TypeOK, Roles, Locals, CancelUpdate
      <3> QED
        BY <3>1, <3>2 DEF Basics
    <2>4. CASE Return(p) /\ UNCHANGED resends
      <3>1. TypeOK'
        BY <1>0, <2>0, <2>1, <2>4 DEF TypeOK
      <3>2. Roles' /\ Locals'
        BY <1>0, <2>0, <2>4 DEF TypeOK, Roles, Locals
      <3> QED
        BY <3>1, <3>2 DEF Basics
    <2> QED
      BY <1>9, <2>2, <2>3, <2>4 DEF CancelUpdate
  <1>10. ASSUME NEW p \in Producers, CancelIndex(p)
        PROVE  Basics'
    <2> USE DEF CancelIndex, UpdateIndex
    <2>1. TypeOK'
      BY <1>0, <1>10 DEF TypeOK, Roles, Locals, StoredStatuses, Statuses
    <2>2. Roles' /\ Locals'
      BY <1>0, <1>10 DEF TypeOK, Roles, Locals
    <2> QED
      BY <2>1, <2>2 DEF Basics
  <1>11. ASSUME NEW p \in Producers, CancelRemove(p)
        PROVE  Basics'
    <2> USE DEF CancelRemove
    <2>1. TypeOK'
      BY <1>0, <1>11 DEF TypeOK, Roles, Locals, StoredStatuses, Statuses
    <2>2. Roles' /\ Locals'
      BY <1>0, <1>11 DEF TypeOK, Roles, Locals
    <2> QED
      BY <2>1, <2>2 DEF Basics
  <1>12. ASSUME NEW p \in Consumers, NEW t \in Tasks, ClaimDequeue(p, t)
        PROVE  Basics'
    <2> USE DEF ClaimDequeue, Dequeuable
    <2>1. TypeOK'
      BY <1>0, <1>12 DEF TypeOK, Roles, Locals, StoredStatuses, Statuses
    <2>2. Roles' /\ Locals'
      BY <1>0, <1>12 DEF TypeOK, Roles, Locals
    <2> QED
      BY <2>1, <2>2 DEF Basics
  <1>13. ASSUME NEW p \in Consumers, ClaimUpdate(p)
        PROVE  Basics'
    <2>0. /\ task[p] \in Tasks /\ "running" \in Statuses /\ status[task[p]] \in StoredStatuses
          /\ p \in Procs /\ Update(task[p], "running", p)
          /\ UNCHANGED <<queued, indexes, result, overdue, handed, faults>>
      BY <1>0, <1>13 DEF ClaimUpdate, TypeOK, Roles, Locals, Statuses
    <2>1. /\ status' \in [Tasks -> StoredStatuses]
          /\ claimedBy' \in [Tasks -> Consumers \cup {NULL}]
          /\ retries' \in [Tasks -> 0..MaxRetries]
      BY <1>0, <2>0, UpdateTypes
    <2>2. CASE Outcome(status[task[p]], "running") = "OK"
      <3>1. Transitioned(p, "clm_index", "clm_get") /\ UNCHANGED resends
        BY <2>2, <1>13 DEF ClaimUpdate
      <3>2. /\ pc' \in [Procs -> Pcs] /\ from' \in [Procs -> Statuses \cup {NULL}]
            /\ UNCHANGED <<task, out, snap>>
            /\ pc' = [pc EXCEPT ![p] = pc'[p]] /\ pc'[p] \in {"clm_index", "clm_get"}
        BY <1>0, <2>0, <2>2, <3>1, TransitionedTypes DEF Basics
      <3>3. TypeOK'
        BY <1>0, <2>0, <2>1, <3>1, <3>2 DEF TypeOK
      <3>4. Roles' /\ Locals'
        BY <1>0, <2>0, <1>13, <3>2 DEF TypeOK, Roles, Locals, ClaimUpdate
      <3> QED
        BY <3>3, <3>4 DEF Basics
    <2>3. CASE Outcome(status[task[p]], "running") # "OK" /\ Goto(p, "clm_get") /\ UNCHANGED resends
      <3>1. TypeOK'
        BY <1>0, <2>0, <2>1, <2>3 DEF TypeOK
      <3>2. Roles' /\ Locals'
        BY <1>0, <2>0, <1>13, <2>3 DEF TypeOK, Roles, Locals, ClaimUpdate
      <3> QED
        BY <3>1, <3>2 DEF Basics
    <2>4. CASE Return(p) /\ UNCHANGED resends
      <3>1. TypeOK'
        BY <1>0, <2>0, <2>1, <2>4 DEF TypeOK
      <3>2. Roles' /\ Locals'
        BY <1>0, <2>0, <2>4 DEF TypeOK, Roles, Locals
      <3> QED
        BY <3>1, <3>2 DEF Basics
    <2> QED
      BY <1>13, <2>2, <2>3, <2>4 DEF ClaimUpdate
  <1>14. ASSUME NEW p \in Consumers, ClaimIndex(p)
        PROVE  Basics'
    <2> USE DEF ClaimIndex, UpdateIndex
    <2>1. TypeOK'
      BY <1>0, <1>14 DEF TypeOK, Roles, Locals, StoredStatuses, Statuses
    <2>2. Roles' /\ Locals'
      BY <1>0, <1>14 DEF TypeOK, Roles, Locals
    <2> QED
      BY <2>1, <2>2 DEF Basics
  <1>15. ASSUME NEW p \in Consumers, ClaimGet(p)
        PROVE  Basics'
    <2> USE DEF ClaimGet
    <2>1. TypeOK'
      BY <1>0, <1>15 DEF TypeOK, Roles, Locals, StoredStatuses, Statuses
    <2>2. Roles' /\ Locals'
      BY <1>0, <1>15 DEF TypeOK, Roles, Locals
    <2> QED
      BY <2>1, <2>2 DEF Basics
  <1>16. ASSUME NEW p \in Consumers, NEW o \in Outcomes, Finish(p, o)
        PROVE  Basics'
    <2> USE DEF Finish
    <2>1. TypeOK'
      BY <1>0, <1>16 DEF TypeOK, Roles, Locals, StoredStatuses, Statuses
    <2>2. Roles' /\ Locals'
      BY <1>0, <1>16 DEF TypeOK, Roles, Locals
    <2> QED
      BY <2>1, <2>2 DEF Basics
  <1>17. ASSUME NEW p \in Consumers \cup Reapers, ReportGet(p)
        PROVE  Basics'
    <2> USE DEF ReportGet, CanRetry, ReportReturns
    <2>1. TypeOK'
      BY <1>0, <1>17 DEF TypeOK, Roles, Locals, StoredStatuses, Statuses
    <2>2. Roles' /\ Locals'
      BY <1>0, <1>17 DEF TypeOK, Roles, Locals
    <2> QED
      BY <2>1, <2>2 DEF Basics
  <1>18. ASSUME NEW p \in Consumers \cup Reapers, ReportUpdate(p)
        PROVE  Basics'
    <2>0. /\ task[p] \in Tasks /\ out[p] \in Statuses /\ status[task[p]] \in StoredStatuses
          /\ p \in Procs /\ Update(task[p], out[p], NULL)
          /\ UNCHANGED <<queued, indexes, result, overdue, handed, faults>>
      BY <1>0, <1>18 DEF ReportUpdate, TypeOK, Roles, Locals, Statuses
    <2>1. /\ status' \in [Tasks -> StoredStatuses]
          /\ claimedBy' \in [Tasks -> Consumers \cup {NULL}]
          /\ retries' \in [Tasks -> 0..MaxRetries]
      BY <1>0, <2>0, UpdateTypes
    <2>2. CASE Outcome(status[task[p]], out[p]) = "OK"
      <3>1. Transitioned(p, "rep_index", "rep_result") /\ UNCHANGED resends
        BY <2>2, <1>18 DEF ReportUpdate
      <3>2. /\ pc' \in [Procs -> Pcs] /\ from' \in [Procs -> Statuses \cup {NULL}]
            /\ UNCHANGED <<task, out, snap>>
            /\ pc' = [pc EXCEPT ![p] = pc'[p]] /\ pc'[p] \in {"rep_index", "rep_result"}
        BY <1>0, <2>0, <2>2, <3>1, TransitionedTypes DEF Basics
      <3>3. TypeOK'
        BY <1>0, <2>0, <2>1, <3>1, <3>2 DEF TypeOK
      <3>4. Roles' /\ Locals'
        BY <1>0, <2>0, <1>18, <3>2 DEF TypeOK, Roles, Locals, ReportUpdate
      <3> QED
        BY <3>3, <3>4 DEF Basics
    <2>3. CASE Outcome(status[task[p]], out[p]) # "OK" /\ Goto(p, "rep_result") /\ UNCHANGED resends
      <3>1. TypeOK'
        BY <1>0, <2>0, <2>1, <2>3 DEF TypeOK
      <3>2. Roles' /\ Locals'
        BY <1>0, <2>0, <1>18, <2>3 DEF TypeOK, Roles, Locals, ReportUpdate
      <3> QED
        BY <3>1, <3>2 DEF Basics
    <2>4. CASE ReportReturns(p)
      <3>1. TypeOK'
        BY <1>0, <2>0, <2>1, <2>4, ReturnsTypes DEF TypeOK, Basics
      <3>2. Roles'
        BY <1>0, <2>0, <1>18, <2>4, ReturnsTypes DEF TypeOK, Roles, ReportUpdate
      <3>3. Locals'
        BY <1>0, <2>0, <1>18, <2>4, ReturnsTypes DEF TypeOK, Roles, Locals, ReportUpdate
      <3> QED
        BY <3>1, <3>2, <3>3 DEF Basics
    <2> QED
      BY <1>18, <2>2, <2>3, <2>4 DEF ReportUpdate
  <1>19. ASSUME NEW p \in Consumers \cup Reapers, ReportIndex(p)
        PROVE  Basics'
    <2> USE DEF ReportIndex, UpdateIndex
    <2>1. TypeOK'
      BY <1>0, <1>19 DEF TypeOK, Roles, Locals, StoredStatuses, Statuses
    <2>2. Roles' /\ Locals'
      BY <1>0, <1>19 DEF TypeOK, Roles, Locals
    <2> QED
      BY <2>1, <2>2 DEF Basics
  <1>20. ASSUME NEW p \in Consumers \cup Reapers, ReportResult(p)
        PROVE  Basics'
    <2> USE DEF ReportResult, ReportReturns
    <2>1. TypeOK'
      BY <1>0, <1>20 DEF TypeOK, Roles, Locals, StoredStatuses, Statuses
    <2>2. Roles' /\ Locals'
      BY <1>0, <1>20 DEF TypeOK, Roles, Locals
    <2> QED
      BY <2>1, <2>2 DEF Basics
  <1>21. ASSUME NEW p \in Consumers, RetryResult(p)
        PROVE  Basics'
    <2> USE DEF RetryResult
    <2>1. TypeOK'
      BY <1>0, <1>21 DEF TypeOK, Roles, Locals, StoredStatuses, Statuses
    <2>2. Roles' /\ Locals'
      BY <1>0, <1>21 DEF TypeOK, Roles, Locals
    <2> QED
      BY <2>1, <2>2 DEF Basics
  <1>22. ASSUME NEW p \in Consumers, RetryUpdate(p)
        PROVE  Basics'
    <2>0. /\ task[p] \in Tasks /\ "failed" \in Statuses /\ status[task[p]] \in StoredStatuses
          /\ p \in Procs /\ Update(task[p], "failed", NULL)
          /\ UNCHANGED <<queued, indexes, result, overdue, handed, faults>>
      BY <1>0, <1>22 DEF RetryUpdate, TypeOK, Roles, Locals, Statuses
    <2>1. /\ status' \in [Tasks -> StoredStatuses]
          /\ claimedBy' \in [Tasks -> Consumers \cup {NULL}]
          /\ retries' \in [Tasks -> 0..MaxRetries]
      BY <1>0, <2>0, UpdateTypes
    <2>2. CASE Outcome(status[task[p]], "failed") = "OK"
      <3>1. Transitioned(p, "try_index", DeleteFrom("try_lookup", "try_delete")) /\ UNCHANGED resends
        BY <2>2, <1>22 DEF RetryUpdate
      <3>2. /\ pc' \in [Procs -> Pcs] /\ from' \in [Procs -> Statuses \cup {NULL}]
            /\ UNCHANGED <<task, out, snap>>
            /\ pc' = [pc EXCEPT ![p] = pc'[p]]
            /\ pc'[p] \in {"try_index", DeleteFrom("try_lookup", "try_delete")}
        BY <1>0, <2>0, <2>2, <3>1, TransitionedTypes DEF Basics, DeleteFrom
      <3>3. TypeOK'
        BY <1>0, <2>0, <2>1, <3>1, <3>2 DEF TypeOK
      <3>4. Roles' /\ Locals'
        BY <1>0, <2>0, <1>22, <3>2 DEF TypeOK, Roles, Locals, RetryUpdate, DeleteFrom
      <3> QED
        BY <3>3, <3>4 DEF Basics
    <2>3. CASE /\ Outcome(status[task[p]], "failed") # "OK"
               /\ Goto(p, DeleteFrom("try_lookup", "try_delete")) /\ UNCHANGED resends
      <3>1. TypeOK'
        BY <1>0, <2>0, <2>1, <2>3 DEF TypeOK, DeleteFrom
      <3>2. Roles' /\ Locals'
        BY <1>0, <2>0, <1>22, <2>3 DEF TypeOK, Roles, Locals, RetryUpdate, DeleteFrom
      <3> QED
        BY <3>1, <3>2 DEF Basics
    <2>4. CASE ReportReturns(p)
      <3>1. TypeOK'
        BY <1>0, <2>0, <2>1, <2>4, ReturnsTypes DEF TypeOK, Basics
      <3>2. Roles'
        BY <1>0, <2>0, <1>22, <2>4, ReturnsTypes DEF TypeOK, Roles, RetryUpdate
      <3>3. Locals'
        BY <1>0, <2>0, <1>22, <2>4, ReturnsTypes DEF TypeOK, Roles, Locals, RetryUpdate
      <3> QED
        BY <3>1, <3>2, <3>3 DEF Basics
    <2> QED
      BY <1>22, <2>2, <2>3, <2>4 DEF RetryUpdate
  <1>23. ASSUME NEW p \in Consumers, RetryIndex(p)
        PROVE  Basics'
    <2> USE DEF RetryIndex, UpdateIndex
    <2>1. TypeOK'
      BY <1>0, <1>23 DEF TypeOK, Roles, Locals, StoredStatuses, Statuses
    <2>2. Roles' /\ Locals'
      BY <1>0, <1>23 DEF TypeOK, Roles, Locals
    <2> QED
      BY <2>1, <2>2 DEF Basics
  <1>24. ASSUME NEW p \in Consumers, RetryLookup(p)
        PROVE  Basics'
    <2> USE DEF RetryLookup
    <2>1. TypeOK'
      BY <1>0, <1>24 DEF TypeOK, Roles, Locals, StoredStatuses, Statuses
    <2>2. Roles' /\ Locals'
      BY <1>0, <1>24 DEF TypeOK, Roles, Locals
    <2> QED
      BY <2>1, <2>2 DEF Basics
  <1>25. ASSUME NEW p \in Consumers, RetryDelete(p)
        PROVE  Basics'
    <2> USE DEF RetryDelete, DeleteRecord
    <2>1. TypeOK'
      BY <1>0, <1>25 DEF TypeOK, Roles, Locals, StoredStatuses, Statuses
    <2>2. Roles' /\ Locals'
      BY <1>0, <1>25 DEF TypeOK, Roles, Locals
    <2> QED
      BY <2>1, <2>2 DEF Basics
  <1>26. ASSUME NEW p \in Consumers, RetrySave(p)
        PROVE  Basics'
    <2> USE DEF RetrySave, Save, WriteRecord
    <2>1. TypeOK'
      BY <1>0, <1>26 DEF TypeOK, Roles, Locals, StoredStatuses, Statuses
    <2>2. Roles' /\ Locals'
      BY <1>0, <1>26 DEF TypeOK, Roles, Locals
    <2> QED
      BY <2>1, <2>2 DEF Basics
  <1>27. ASSUME NEW p \in Consumers, RetryFill(p)
        PROVE  Basics'
    <2> USE DEF RetryFill, WriteRecord
    <2>1. TypeOK'
      BY <1>0, <1>27 DEF TypeOK, Roles, Locals, StoredStatuses, Statuses
    <2>2. Roles' /\ Locals'
      BY <1>0, <1>27 DEF TypeOK, Roles, Locals
    <2> QED
      BY <2>1, <2>2 DEF Basics
  <1>28. ASSUME NEW p \in Consumers, RetryEnqueue(p)
        PROVE  Basics'
    <2>1. task[p] \in Tasks /\ p \in Procs /\ queued' \in [Tasks -> Nat]
      BY <1>0, <1>28 DEF RetryEnqueue, TypeOK, Locals
    <2>2. TypeOK'
      BY <1>0, <1>28, <2>1, ReturnsTypes DEF TypeOK, Basics, RetryEnqueue
    <2>3. Roles' /\ Locals'
      BY <1>0, <1>28, ReturnsTypes DEF Basics, TypeOK, Roles, Locals, RetryEnqueue
    <2> QED
      BY <2>2, <2>3 DEF Basics
  <1>29. ASSUME NEW p \in Reapers, Scan(p)
        PROVE  Basics'
    <2> USE DEF Scan, RunningIndex
    <2>1. TypeOK'
      BY <1>0, <1>29 DEF TypeOK, Roles, Locals, StoredStatuses, Statuses
    <2>2. Roles' /\ Locals'
      BY <1>0, <1>29 DEF TypeOK, Roles, Locals
    <2> QED
      BY <2>1, <2>2 DEF Basics
  <1>30. ASSUME NEW p \in Reapers, NEW t \in Tasks, ReapCheck(p, t)
        PROVE  Basics'
    <2> USE DEF ReapCheck
    <2>1. TypeOK'
      BY <1>0, <1>30 DEF TypeOK, Roles, Locals, StoredStatuses, Statuses
    <2>2. Roles' /\ Locals'
      BY <1>0, <1>30 DEF TypeOK, Roles, Locals
    <2> QED
      BY <2>1, <2>2 DEF Basics
  <1>31. ASSUME NEW p \in Procs, Abort(p)
        PROVE  Basics'
    <2> USE DEF Abort
    <2>1. TypeOK'
      BY <1>0, <1>31 DEF TypeOK, Roles, Locals, StoredStatuses, Statuses
    <2>2. Roles' /\ Locals'
      BY <1>0, <1>31 DEF TypeOK, Roles, Locals
    <2> QED
      BY <2>1, <2>2 DEF Basics
  <1>32. ASSUME NEW p \in Procs, IndexFails(p)
        PROVE  Basics'
    <2> USE DEF IndexFails, Failure
    <2>1. TypeOK'
      BY <1>0, <1>32 DEF TypeOK, Roles, Locals, StoredStatuses, Statuses
    <2>2. Roles' /\ Locals'
      BY <1>0, <1>32 DEF TypeOK, Roles, Locals
    <2> QED
      BY <2>1, <2>2 DEF Basics
  <1>33. ASSUME NEW p \in Procs, FillFails(p)
        PROVE  Basics'
    <2> USE DEF FillFails, Failure
    <2>1. TypeOK'
      BY <1>0, <1>33 DEF TypeOK, Roles, Locals, StoredStatuses, Statuses
    <2>2. Roles' /\ Locals'
      BY <1>0, <1>33 DEF TypeOK, Roles, Locals
    <2> QED
      BY <2>1, <2>2 DEF Basics
  <1>34. ASSUME NEW p \in Procs, RetryStepFails(p)
        PROVE  Basics'
    <2> USE DEF RetryStepFails, Failure
    <2>1. TypeOK'
      BY <1>0, <1>34 DEF TypeOK, Roles, Locals, StoredStatuses, Statuses
    <2>2. Roles' /\ Locals'
      BY <1>0, <1>34 DEF TypeOK, Roles, Locals
    <2> QED
      BY <2>1, <2>2 DEF Basics
  <1>40. CASE UNCHANGED vars
    BY <1>0, <1>40 DEF Basics, TypeOK, Roles, Locals, vars
  <1> QED
    BY <1>1, <1>2, <1>3, <1>4, <1>5, <1>6, <1>7, <1>8, <1>9, <1>10, <1>11, <1>12, <1>13,
       <1>14, <1>15, <1>16, <1>17, <1>18, <1>19, <1>20, <1>21, <1>22, <1>23, <1>24, <1>25,
       <1>26, <1>27, <1>28, <1>29, <1>30, <1>31, <1>32, <1>33, <1>34, <1>40
       DEF Next, SubmitStep, CancelStep, ClaimStep, ReportStep, RetryStep, FaultStep

\* No task exists and every process is idle in the initial states.
LEMMA InitInv == Init => IInv
  BY DEF Init, IInv, TypeOK, Roles, Locals, OneHolder, StatusKnown, Holds,
     StoredStatuses, Statuses

\* What the Lua script of updateTaskStatusScript lets the caller conclude about
\* the status it found.
LEMMA RedisAnswers ==
  ASSUME Setting, NEW cur \in StoredStatuses, NEW new \in Statuses
  PROVE  /\ Outcome(cur, new) = "OK" =>
              ValidTransition(cur, new) /\ cur \in {"pending", "running", "failed", "timeout"}
         /\ Outcome(cur, new) = "SAME" => cur = new
         /\ Outcome(cur, new) = "INVALID" =>
              /\ cur \in {"pending", "running", "failed", "timeout"} \ {new}
              /\ ~ValidTransition(cur, new)
         /\ Outcome(cur, new) \in {"OK", "SAME", "INVALID", "TERMINAL", "NOT_FOUND"}
  BY DEF Setting, Outcome, RedisOutcome, ValidTransition, StoredStatuses, Statuses, FullyTerminal

\* A report that is not delivered again ends its call.
LEMMA ReturnsOnce ==
  ASSUME IInv, Setting, NEW p \in Consumers \cup Reapers, ReportReturns(p)
  PROVE  Return(p) /\ UNCHANGED resends
  BY DEF IInv, TypeOK, Setting, ReportReturns

\* A step that queues nothing, deletes no record and gives no task a new holder
\* keeps every task in one place.
LEMMA NoNewHolder ==
  ASSUME OneHolder, queued' = queued,
         \A t \in Tasks : status'[t] = "none" => status[t] = "none",
         \A q \in Procs, t \in Tasks : Holds(q, t)' => Holds(q, t)
  PROVE  OneHolder'
  BY DEF OneHolder

\* Submit of an unknown ID only records what the call is about.
LEMMA SubmitCheckInv ==
  ASSUME IInv, Setting, Basics', NEW p \in Producers, NEW t \in Tasks, SubmitCheck(p, t)
  PROVE  IInv'
  <1> USE DEF SubmitCheck
  <1>a. Store = "redis" /\ status[t] \in StoredStatuses
    BY DEF IInv, TypeOK, Locals, Roles, Setting, Statuses
  <1>1. OneHolder'
    BY <1>a DEF IInv, TypeOK, Roles, Locals, OneHolder, Holds
  <1>2. StatusKnown'
    BY <1>a DEF IInv, TypeOK, Roles, Locals, OneHolder, StatusKnown, Holds
  <1> QED
    BY <1>1, <1>2 DEF IInv, Basics

\* HSETNX creates the hash for one caller, which holds the task from here on.
LEMMA SubmitSaveInv ==
  ASSUME IInv, Setting, Basics', NEW p \in Producers, SubmitSave(p)
  PROVE  IInv'
  <1> USE DEF SubmitSave, Save
  <1>a. Store = "redis" /\ task[p] \in Tasks /\ status[task[p]] \in StoredStatuses
    BY DEF IInv, TypeOK, Locals, Roles, Setting, Statuses
  <1>1. OneHolder'
    <2>1. CASE status[task[p]] = "none"
      <3>1. \A q \in Procs, u \in Tasks : Holds(q, u)' => Holds(q, u) \/ (q = p /\ u = task[p])
        BY <1>a, <2>1 DEF IInv, TypeOK, Holds
      <3>2. queued' = queued /\ \A u \in Tasks \ {task[p]} : status'[u] = status[u]
        BY <1>a, <2>1 DEF IInv, TypeOK
      <3>3. status'[task[p]] = "partial"
        BY <1>a, <2>1 DEF IInv, TypeOK
      <3> QED
        BY <1>a, <2>1, <3>1, <3>2, <3>3 DEF IInv, OneHolder
    <2>2. CASE status[task[p]] # "none"
      <3>1. \A q \in Procs, u \in Tasks : Holds(q, u)' => Holds(q, u)
        BY <1>a, <2>2 DEF IInv, TypeOK, Holds
      <3> QED
        BY <1>a, <2>2, <3>1, NoNewHolder DEF IInv
    <2> QED
      BY <2>1, <2>2
  <1>2. StatusKnown'
    <2>1. CASE status[task[p]] = "none"
      <3>1. \A q \in Procs \ {p} : pc'[q] = pc[q] /\ task'[q] = task[q] /\ ~Holds(q, task[p])
        BY <1>a, <2>1 DEF IInv, TypeOK, OneHolder
      <3>2. \A u \in Tasks \ {task[p]} : status'[u] = status[u]
        BY <1>a, <2>1 DEF IInv, TypeOK
      <3>3. pc'[p] = "sub_fill" /\ task'[p] = task[p] /\ status'[task[p]] = "partial"
        BY <1>a, <2>1 DEF IInv, TypeOK
      <3>4. \A q \in Procs \ {p} : pc[q] \in HoldPcs /\ q \notin Reapers => task[q] # task[p] /\ task[q] \in Tasks
        BY <3>1 DEF IInv, Locals, Holds
      <3> QED
        BY <1>a, <3>1, <3>2, <3>3, <3>4 DEF IInv, Roles, StatusKnown
    <2>2. CASE status[task[p]] # "none"
      BY <1>a, <2>2 DEF IInv, TypeOK, Roles, StatusKnown
    <2> QED
      BY <2>1, <2>2
  <1> QED
    BY <1>1, <1>2 DEF IInv, Basics

\* The pipeline of SaveTask turns the partial hash of its holder into a record.
LEMMA SubmitFillInv ==
  ASSUME IInv, Setting, Basics', NEW p \in Producers, SubmitFill(p)
  PROVE  IInv'
  <1> USE DEF SubmitFill, WriteRecord
  <1>a. Store = "redis" /\ task[p] \in Tasks /\ status[task[p]] \in StoredStatuses
    BY DEF IInv, TypeOK, Locals, Roles, Setting, Statuses
  <1>1. OneHolder'
    BY <1>a DEF IInv, TypeOK, Roles, Locals, OneHolder, Holds
  <1>2. StatusKnown'
    BY <1>a DEF IInv, TypeOK, Roles, Locals, OneHolder, StatusKnown, Holds
  <1> QED
    BY <1>1, <1>2 DEF IInv, Basics

\* The holder puts the task in its queue and gives it up.
LEMMA SubmitEnqueueInv ==
  ASSUME IInv, Setting, Basics', NEW p \in Producers, SubmitEnqueue(p)
  PROVE  IInv'
  <1> USE DEF SubmitEnqueue
  <1>a. Store = "redis" /\ task[p] \in Tasks /\ status[task[p]] \in StoredStatuses
    BY DEF IInv, TypeOK, Locals, Roles, Setting, Statuses
  <1>1. OneHolder'
    BY <1>a DEF IInv, TypeOK, Roles, Locals, OneHolder, Holds
  <1>2. StatusKnown'
    BY <1>a, SMTT(20) DEF IInv, TypeOK, Roles, Locals, OneHolder, StatusKnown, Holds
  <1> QED
    BY <1>1, <1>2 DEF IInv, Basics

\* A failed Enqueue leaves the task with the call that rolls it back.
LEMMA SubmitEnqueueFailsInv ==
  ASSUME IInv, Setting, Basics', NEW p \in Producers, SubmitEnqueueFails(p)
  PROVE  IInv'
  <1> USE DEF SubmitEnqueueFails, Failure, DeleteFrom
  <1>a. Store = "redis" /\ task[p] \in Tasks /\ status[task[p]] \in StoredStatuses
    BY DEF IInv, TypeOK, Locals, Roles, Setting, Statuses
  <1>1. OneHolder'
    BY <1>a DEF IInv, TypeOK, Roles, Locals, OneHolder, Holds
  <1>2. StatusKnown'
    BY <1>a DEF IInv, TypeOK, Roles, Locals, OneHolder, StatusKnown, Holds
  <1> QED
    BY <1>1, <1>2 DEF IInv, Basics

\* DeleteTask of the rollback looks the task up.
LEMMA UndoLookupInv ==
  ASSUME IInv, Setting, Basics', NEW p \in Producers, UndoLookup(p)
  PROVE  IInv'
  <1> USE DEF UndoLookup
  <1>a. Store = "redis" /\ task[p] \in Tasks /\ status[task[p]] \in StoredStatuses
    BY DEF IInv, TypeOK, Locals, Roles, Setting, Statuses
  <1>1. OneHolder'
    <2>1. \A q \in Procs, u \in Tasks : Holds(q, u)' => Holds(q, u)
      BY <1>a DEF IInv, TypeOK, Roles, Locals, Holds
    <2>2. \A u \in Tasks : status'[u] = "none" => status[u] = "none"
      BY <1>a DEF IInv, TypeOK, Statuses
    <2> QED
      BY <2>1, <2>2, NoNewHolder DEF IInv
  <1>2. StatusKnown'
    BY <1>a DEF IInv, TypeOK, Roles, Locals, OneHolder, StatusKnown, Holds
  <1> QED
    BY <1>1, <1>2 DEF IInv, Basics

\* The rollback removes the record of a task that is in no queue.
LEMMA UndoDeleteInv ==
  ASSUME IInv, Setting, Basics', NEW p \in Producers, UndoDelete(p)
  PROVE  IInv'
  <1> USE DEF UndoDelete, DeleteRecord
  <1>a. Store = "redis" /\ task[p] \in Tasks /\ status[task[p]] \in StoredStatuses
    BY DEF IInv, TypeOK, Locals, Roles, Setting, Statuses
  <1>1. OneHolder'
    BY <1>a, SMTT(20) DEF IInv, TypeOK, Roles, Locals, OneHolder, Holds
  <1>2. StatusKnown'
    BY <1>a, SMTT(20) DEF IInv, TypeOK, Roles, Locals, OneHolder, StatusKnown, Holds
  <1> QED
    BY <1>1, <1>2 DEF IInv, Basics

\* Cancel holds nothing: it only records what the call is about.
LEMMA CancelCheckInv ==
  ASSUME IInv, Setting, Basics', NEW p \in Producers, NEW t \in Tasks, CancelCheck(p, t)
  PROVE  IInv'
  <1> USE DEF CancelCheck
  <1>a. Store = "redis" /\ status[t] \in StoredStatuses
    BY DEF IInv, TypeOK, Locals, Roles, Setting, Statuses
  <1>1. OneHolder'
    BY <1>a DEF IInv, TypeOK, Roles, Locals, OneHolder, Holds
  <1>2. StatusKnown'
    BY <1>a DEF IInv, TypeOK, Roles, Locals, OneHolder, StatusKnown, Holds
  <1> QED
    BY <1>1, <1>2 DEF IInv, Basics

\* The transition to cancelled disturbs no holder.
LEMMA CancelUpdateInv ==
  ASSUME IInv, Setting, Basics', NEW p \in Producers, CancelUpdate(p)
  PROVE  IInv'
  <1> USE DEF CancelUpdate, Update, Transitioned
  <1>a. Store = "redis" /\ task[p] \in Tasks /\ status[task[p]] \in StoredStatuses
    BY DEF IInv, TypeOK, Locals, Roles, Setting, Statuses
  <1>1. OneHolder'
    <2>1. \A q \in Procs, u \in Tasks : Holds(q, u)' => Holds(q, u)
      BY <1>a, RedisAnswers DEF IInv, TypeOK, Roles, Locals, Holds
    <2>2. \A u \in Tasks : status'[u] = "none" => status[u] = "none"
      BY <1>a DEF IInv, TypeOK, Statuses
    <2> QED
      BY <2>1, <2>2, NoNewHolder DEF IInv
  <1>2. StatusKnown'
    BY <1>a, RedisAnswers
       DEF IInv, TypeOK, Roles, Locals, OneHolder, StatusKnown, Holds, ValidTransition,
           Statuses
  <1> QED
    BY <1>1, <1>2 DEF IInv, Basics

\* Index maintenance touches neither records nor queues.
LEMMA CancelIndexInv ==
  ASSUME IInv, Setting, Basics', NEW p \in Producers, CancelIndex(p)
  PROVE  IInv'
  <1> USE DEF CancelIndex, UpdateIndex
  <1>a. Store = "redis" /\ task[p] \in Tasks /\ status[task[p]] \in StoredStatuses
    BY DEF IInv, TypeOK, Locals, Roles, Setting, Statuses
  <1>1. OneHolder'
    BY <1>a DEF IInv, TypeOK, Roles, Locals, OneHolder, Holds
  <1>2. StatusKnown'
    BY <1>a DEF IInv, TypeOK, Roles, Locals, OneHolder, StatusKnown, Holds
  <1> QED
    BY <1>1, <1>2 DEF IInv, Basics

\* RemoveFromQueue may leave a task without a place, never with two.
LEMMA CancelRemoveInv ==
  ASSUME IInv, Setting, Basics', NEW p \in Producers, CancelRemove(p)
  PROVE  IInv'
  <1> USE DEF CancelRemove
  <1>a. Store = "redis" /\ task[p] \in Tasks /\ status[task[p]] \in StoredStatuses
    BY DEF IInv, TypeOK, Locals, Roles, Setting, Statuses
  <1>1. OneHolder'
    BY <1>a DEF IInv, TypeOK, Roles, Locals, OneHolder, Holds
  <1>2. StatusKnown'
    BY <1>a DEF IInv, TypeOK, Roles, Locals, OneHolder, StatusKnown, Holds
  <1> QED
    BY <1>1, <1>2 DEF IInv, Basics

\* The consumer that pops the ID becomes the holder of the task.
LEMMA ClaimDequeueInv ==
  ASSUME IInv, Setting, Basics', NEW p \in Consumers, NEW t \in Tasks, ClaimDequeue(p, t)
  PROVE  IInv'
  <1> USE DEF ClaimDequeue, Dequeuable
  <1>a. Store = "redis" /\ status[t] \in StoredStatuses
    BY DEF IInv, TypeOK, Locals, Roles, Setting, Statuses
  <1>1. OneHolder'
    BY <1>a, SMTT(20) DEF IInv, TypeOK, Roles, Locals, OneHolder, Holds
  <1>2. StatusKnown'
    BY <1>a DEF IInv, TypeOK, Roles, Locals, OneHolder, StatusKnown, Holds
  <1> QED
    BY <1>1, <1>2 DEF IInv, Basics

\* Only the holder of a task moves it to running.
LEMMA ClaimUpdateInv ==
  ASSUME IInv, Setting, Basics', NEW p \in Consumers, ClaimUpdate(p)
  PROVE  IInv'
  <1> USE DEF ClaimUpdate, Update, Transitioned
  <1>a. Store = "redis" /\ task[p] \in Tasks /\ status[task[p]] \in StoredStatuses
    BY DEF IInv, TypeOK, Locals, Roles, Setting, Statuses
  <1>1. OneHolder'
    <2>1. \A q \in Procs, u \in Tasks : Holds(q, u)' => Holds(q, u)
      BY <1>a, RedisAnswers DEF IInv, TypeOK, Roles, Locals, Holds
    <2>2. \A u \in Tasks : status'[u] = "none" => status[u] = "none"
      BY <1>a DEF IInv, TypeOK, Statuses
    <2> QED
      BY <2>1, <2>2, NoNewHolder DEF IInv
  <1>2. StatusKnown'
    <2>1. CASE Outcome(status[task[p]], "running") = "OK"
      <3>1. status[task[p]] \in {"pending", "failed", "timeout"}
        BY <1>a, <2>1, RedisAnswers DEF ValidTransition, Statuses
      <3>2. Holds(p, task[p])
        BY <1>a DEF Holds
      <3>3. \A q \in Procs \ {p} : pc'[q] = pc[q] /\ task'[q] = task[q] /\ ~Holds(q, task[p])
        BY <1>a, <2>1, <3>2 DEF IInv, TypeOK, OneHolder
      <3>4. status'[task[p]] = "running" /\ \A u \in Tasks \ {task[p]} : status'[u] = status[u]
        BY <1>a, <2>1 DEF IInv, TypeOK
      <3>5. pc'[p] = "clm_index" /\ task'[p] = task[p]
        BY <1>a, <2>1 DEF IInv, TypeOK
      <3>6. \A q \in Procs \ {p} : pc[q] \in HoldPcs /\ q \notin Reapers => task[q] # task[p] /\ task[q] \in Tasks
        BY <3>3 DEF IInv, Locals, Holds
      <3> QED
        BY <1>a, <3>3, <3>4, <3>5, <3>6 DEF IInv, Roles, StatusKnown
    <2>2. CASE Outcome(status[task[p]], "running") = "SAME"
      BY <1>a, <2>2, RedisAnswers DEF IInv, TypeOK, Roles, StatusKnown, Statuses
    <2>3. CASE Outcome(status[task[p]], "running") \notin {"OK", "SAME"}
      BY <1>a, <2>3 DEF IInv, TypeOK, Roles, StatusKnown
    <2> QED
      BY <2>1, <2>2, <2>3
  <1> QED
    BY <1>1, <1>2 DEF IInv, Basics

\* Index maintenance touches neither records nor queues.
LEMMA ClaimIndexInv ==
  ASSUME IInv, Setting, Basics', NEW p \in Consumers, ClaimIndex(p)
  PROVE  IInv'
  <1> USE DEF ClaimIndex, UpdateIndex
  <1>a. Store = "redis" /\ task[p] \in Tasks /\ status[task[p]] \in StoredStatuses
    BY DEF IInv, TypeOK, Locals, Roles, Setting, Statuses
  <1>1. OneHolder'
    BY <1>a DEF IInv, TypeOK, Roles, Locals, OneHolder, Holds
  <1>2. StatusKnown'
    BY <1>a DEF IInv, TypeOK, Roles, Locals, OneHolder, StatusKnown, Holds
  <1> QED
    BY <1>1, <1>2 DEF IInv, Basics

\* The holder of a claimed task starts to execute it.
LEMMA ClaimGetInv ==
  ASSUME IInv, Setting, Basics', NEW p \in Consumers, ClaimGet(p)
  PROVE  IInv'
  <1> USE DEF ClaimGet
  <1>a. Store = "redis" /\ task[p] \in Tasks /\ status[task[p]] \in StoredStatuses
    BY DEF IInv, TypeOK, Locals, Roles, Setting, Statuses
  <1>1. OneHolder'
    <2>1. \A q \in Procs, u \in Tasks : Holds(q, u)' => Holds(q, u)
      BY <1>a DEF IInv, TypeOK, Roles, Locals, Holds
    <2>2. \A u \in Tasks : status'[u] = "none" => status[u] = "none"
      BY <1>a DEF IInv, TypeOK, Statuses
    <2> QED
      BY <2>1, <2>2, NoNewHolder DEF IInv
  <1>2. StatusKnown'
    BY <1>a DEF IInv, TypeOK, Roles, Locals, OneHolder, StatusKnown, Holds
  <1> QED
    BY <1>1, <1>2 DEF IInv, Basics

\* The consumer that executed the task reports it.
LEMMA FinishInv ==
  ASSUME IInv, Setting, Basics', NEW p \in Consumers, NEW o \in Outcomes, Finish(p, o)
  PROVE  IInv'
  <1> USE DEF Finish
  <1>a. Store = "redis" /\ task[p] \in Tasks /\ status[task[p]] \in StoredStatuses
    BY DEF IInv, TypeOK, Locals, Roles, Setting, Statuses
  <1>1. OneHolder'
    BY <1>a DEF IInv, TypeOK, Roles, Locals, OneHolder, Holds
  <1>2. StatusKnown'
    BY <1>a DEF IInv, TypeOK, Roles, Locals, OneHolder, StatusKnown, Holds
  <1> QED
    BY <1>1, <1>2 DEF IInv, Basics

\* A failed report with retries left goes to retryTask with the count it read.
LEMMA ReportGetInv ==
  ASSUME IInv, Setting, Basics', NEW p \in Consumers \cup Reapers, ReportGet(p)
  PROVE  IInv'
  <1> USE DEF ReportGet, CanRetry
  <1>a. Store = "redis" /\ task[p] \in Tasks /\ status[task[p]] \in StoredStatuses /\ out[p] \in Statuses
    BY DEF IInv, TypeOK, Locals, Roles, Setting, Statuses
  <1>1. OneHolder'
    <2>1. \A q \in Procs, u \in Tasks : Holds(q, u)' => Holds(q, u)
      BY <1>a, ReturnsOnce DEF IInv, TypeOK, Roles, Locals, Holds
    <2>2. \A u \in Tasks : status'[u] = "none" => status[u] = "none"
      BY <1>a DEF IInv, TypeOK, Statuses
    <2> QED
      BY <2>1, <2>2, NoNewHolder DEF IInv
  <1>2. StatusKnown'
    <2>1. CASE status[task[p]] = "none"
      BY <1>a, <2>1, ReturnsOnce, SMTT(20) DEF IInv, TypeOK, Roles, StatusKnown
    <2>2. CASE status[task[p]] # "none"
      <3>1. pc' = [pc EXCEPT ![p] = pc'[p]] /\ pc'[p] \in {"try_result", "rep_update"}
        BY <1>a, <2>2 DEF IInv, TypeOK
      <3>2. UNCHANGED <<status, task>>
        BY <2>2
      <3> QED
        BY <1>a, <3>1, <3>2 DEF IInv, TypeOK, Roles, StatusKnown
    <2> QED
      BY <2>1, <2>2
  <1> QED
    BY <1>1, <1>2 DEF IInv, Basics

\* A report moves the task of its holder, or fails and lets go of it.
LEMMA ReportUpdateInv ==
  ASSUME IInv, Setting, Basics', NEW p \in Consumers \cup Reapers, ReportUpdate(p)
  PROVE  IInv'
  <1> USE DEF ReportUpdate, Update, Transitioned
  <1>a. Store = "redis" /\ task[p] \in Tasks /\ status[task[p]] \in StoredStatuses /\ out[p] \in Statuses
    BY DEF IInv, TypeOK, Locals, Roles, Setting, Statuses
  <1>1. OneHolder'
    <2>1. \A q \in Procs, u \in Tasks : Holds(q, u)' => Holds(q, u)
      BY <1>a, RedisAnswers, ReturnsOnce DEF IInv, TypeOK, Roles, Locals, Holds
    <2>2. \A u \in Tasks : status'[u] = "none" => status[u] = "none"
      BY <1>a DEF IInv, TypeOK, Statuses
    <2> QED
      BY <2>1, <2>2, NoNewHolder DEF IInv
  <1>2. StatusKnown'
    <2>1. CASE Outcome(status[task[p]], out[p]) = "OK"
      BY <1>a, <2>1, RedisAnswers
         DEF IInv, TypeOK, Roles, Locals, StatusKnown, Statuses, ValidTransition
    <2>2. CASE Outcome(status[task[p]], out[p]) \in {"SAME", "INVALID"}
      BY <1>a, <2>2 DEF IInv, TypeOK, Roles, StatusKnown
    <2>3. CASE Outcome(status[task[p]], out[p]) \notin {"OK", "SAME", "INVALID"}
      BY <1>a, <2>3, ReturnsOnce DEF IInv, TypeOK, Roles, StatusKnown
    <2> QED
      BY <2>1, <2>2, <2>3
  <1> QED
    BY <1>1, <1>2 DEF IInv, Basics

\* Index maintenance touches neither records nor queues.
LEMMA ReportIndexInv ==
  ASSUME IInv, Setting, Basics', NEW p \in Consumers \cup Reapers, ReportIndex(p)
  PROVE  IInv'
  <1> USE DEF ReportIndex, UpdateIndex
  <1>a. Store = "redis" /\ task[p] \in Tasks /\ status[task[p]] \in StoredStatuses /\ out[p] \in Statuses
    BY DEF IInv, TypeOK, Locals, Roles, Setting, Statuses
  <1>1. OneHolder'
    BY <1>a DEF IInv, TypeOK, Roles, Locals, OneHolder, Holds
  <1>2. StatusKnown'
    BY <1>a DEF IInv, TypeOK, Roles, Locals, OneHolder, StatusKnown, Holds
  <1> QED
    BY <1>1, <1>2 DEF IInv, Basics

\* SaveResult is the last step of a report.
LEMMA ReportResultInv ==
  ASSUME IInv, Setting, Basics', NEW p \in Consumers \cup Reapers, ReportResult(p)
  PROVE  IInv'
  <1> USE DEF ReportResult
  <1>a. Store = "redis" /\ task[p] \in Tasks /\ status[task[p]] \in StoredStatuses /\ out[p] \in Statuses
    BY DEF IInv, TypeOK, Locals, Roles, Setting, Statuses
  <1>1. OneHolder'
    <2>1. \A q \in Procs, u \in Tasks : Holds(q, u)' => Holds(q, u)
      BY <1>a, ReturnsOnce DEF IInv, TypeOK, Roles, Locals, Holds
    <2>2. \A u \in Tasks : status'[u] = "none" => status[u] = "none"
      BY <1>a DEF IInv, TypeOK, Statuses
    <2> QED
      BY <2>1, <2>2, NoNewHolder DEF IInv
  <1>2. StatusKnown'
    BY <1>a, ReturnsOnce, SMTT(20) DEF IInv, TypeOK, Roles, Locals, OneHolder, StatusKnown, Holds
  <1> QED
    BY <1>1, <1>2 DEF IInv, Basics

\* Saving the failure touches neither records nor queues.
LEMMA RetryResultInv ==
  ASSUME IInv, Setting, Basics', NEW p \in Consumers, RetryResult(p)
  PROVE  IInv'
  <1> USE DEF RetryResult
  <1>a. Store = "redis" /\ task[p] \in Tasks /\ status[task[p]] \in StoredStatuses
    BY DEF IInv, TypeOK, Locals, Roles, Setting, Statuses
  <1>1. OneHolder'
    BY <1>a DEF IInv, TypeOK, Roles, Locals, OneHolder, Holds
  <1>2. StatusKnown'
    BY <1>a DEF IInv, TypeOK, Roles, Locals, OneHolder, StatusKnown, Holds
  <1> QED
    BY <1>1, <1>2 DEF IInv, Basics

\* After the transition of a retry the record is failed or timed out.
LEMMA RetryUpdateInv ==
  ASSUME IInv, Setting, Basics', NEW p \in Consumers, RetryUpdate(p)
  PROVE  IInv'
  <1> USE DEF RetryUpdate, Update, Transitioned, DeleteFrom
  <1>a. Store = "redis" /\ task[p] \in Tasks /\ status[task[p]] \in StoredStatuses
    BY DEF IInv, TypeOK, Locals, Roles, Setting, Statuses
  <1>1. OneHolder'
    <2>1. \A q \in Procs, u \in Tasks : Holds(q, u)' => Holds(q, u)
      BY <1>a, RedisAnswers, ReturnsOnce DEF IInv, TypeOK, Roles, Locals, Holds
    <2>2. \A u \in Tasks : status'[u] = "none" => status[u] = "none"
      BY <1>a DEF IInv, TypeOK, Statuses
    <2> QED
      BY <2>1, <2>2, NoNewHolder DEF IInv
  <1>2. StatusKnown'
    <2>1. CASE Outcome(status[task[p]], "failed") = "OK"
      BY <1>a, <2>1, RedisAnswers, ReturnsOnce
         DEF IInv, TypeOK, Roles, Locals, StatusKnown, ValidTransition, Statuses
    <2>2. CASE Outcome(status[task[p]], "failed") \in {"SAME", "INVALID"}
      BY <1>a, <2>2, RedisAnswers, ReturnsOnce
         DEF IInv, TypeOK, Roles, Locals, StatusKnown, ValidTransition, Statuses
    <2>3. CASE Outcome(status[task[p]], "failed") \notin {"OK", "SAME", "INVALID"}
      BY <1>a, <2>3, RedisAnswers, ReturnsOnce DEF IInv, TypeOK, Roles, Locals, StatusKnown
    <2> QED
      BY <2>1, <2>2, <2>3
  <1> QED
    BY <1>1, <1>2 DEF IInv, Basics

\* Index maintenance touches neither records nor queues.
LEMMA RetryIndexInv ==
  ASSUME IInv, Setting, Basics', NEW p \in Consumers, RetryIndex(p)
  PROVE  IInv'
  <1> USE DEF RetryIndex, UpdateIndex
  <1>a. Store = "redis" /\ task[p] \in Tasks /\ status[task[p]] \in StoredStatuses
    BY DEF IInv, TypeOK, Locals, Roles, Setting, Statuses
  <1>1. OneHolder'
    BY <1>a DEF IInv, TypeOK, Roles, Locals, OneHolder, Holds
  <1>2. StatusKnown'
    BY <1>a DEF IInv, TypeOK, Roles, Locals, OneHolder, StatusKnown, Holds
  <1> QED
    BY <1>1, <1>2 DEF IInv, Basics

\* DeleteTask looks up a record that no one else can remove.
LEMMA RetryLookupInv ==
  ASSUME IInv, Setting, Basics', NEW p \in Consumers, RetryLookup(p)
  PROVE  IInv'
  <1> USE DEF RetryLookup
  <1>a. Store = "redis" /\ task[p] \in Tasks /\ status[task[p]] \in StoredStatuses
    BY DEF IInv, TypeOK, Locals, Roles, Setting, Statuses
  <1>1. OneHolder'
    BY <1>a DEF IInv, TypeOK, Roles, Locals, OneHolder, Holds
  <1>2. StatusKnown'
    BY <1>a DEF IInv, TypeOK, Roles, Locals, OneHolder, StatusKnown, Holds
  <1> QED
    BY <1>1, <1>2 DEF IInv, Basics

\* Between the DEL and the HSETNX of a retry no call holds the task.
LEMMA RetryDeleteInv ==
  ASSUME IInv, Setting, Basics', NEW p \in Consumers, RetryDelete(p)
  PROVE  IInv'
  <1> USE DEF RetryDelete, DeleteRecord
  <1>a. Store = "redis" /\ task[p] \in Tasks /\ status[task[p]] \in StoredStatuses
    BY DEF IInv, TypeOK, Locals, Roles, Setting, Statuses
  <1>1. OneHolder'
    BY <1>a, SMTT(20) DEF IInv, TypeOK, Roles, Locals, OneHolder, Holds
  <1>2. StatusKnown'
    BY <1>a DEF IInv, TypeOK, Roles, Locals, OneHolder, StatusKnown, Holds
  <1> QED
    BY <1>1, <1>2 DEF IInv, Basics

\* A retry takes the task back only if no Submit has created it meanwhile.
LEMMA RetrySaveInv ==
  ASSUME IInv, Setting, Basics', NEW p \in Consumers, RetrySave(p)
  PROVE  IInv'
  <1> USE DEF RetrySave, Save
  <1>a. Store = "redis" /\ task[p] \in Tasks /\ status[task[p]] \in StoredStatuses
    BY DEF IInv, TypeOK, Locals, Roles, Setting, Statuses
  <1>1. OneHolder'
    <2>1. CASE status[task[p]] = "none"
      <3>1. \A q \in Procs, u \in Tasks : Holds(q, u)' => Holds(q, u) \/ (q = p /\ u = task[p])
        BY <1>a, <2>1 DEF IInv, TypeOK, Holds
      <3>2. queued' = queued /\ \A u \in Tasks \ {task[p]} : status'[u] = status[u]
        BY <1>a, <2>1 DEF IInv, TypeOK
      <3>3. status'[task[p]] = "partial"
        BY <1>a, <2>1 DEF IInv, TypeOK
      <3> QED
        BY <1>a, <2>1, <3>1, <3>2, <3>3 DEF IInv, OneHolder
    <2>2. CASE status[task[p]] # "none"
      <3>1. \A q \in Procs, u \in Tasks : Holds(q, u)' => Holds(q, u)
        BY <1>a, <2>2 DEF IInv, TypeOK, Holds
      <3> QED
        BY <1>a, <2>2, <3>1, NoNewHolder DEF IInv
    <2> QED
      BY <2>1, <2>2
  <1>2. StatusKnown'
    BY <1>a DEF IInv, TypeOK, Roles, Locals, OneHolder, StatusKnown, Holds
  <1> QED
    BY <1>1, <1>2 DEF IInv, Basics

\* The copy a retry saves counts one retry more, at most MaxRetries.
LEMMA RetryFillInv ==
  ASSUME IInv, Setting, Basics', NEW p \in Consumers, RetryFill(p)
  PROVE  IInv'
  <1> USE DEF RetryFill, WriteRecord
  <1>a. Store = "redis" /\ task[p] \in Tasks /\ status[task[p]] \in StoredStatuses
    BY DEF IInv, TypeOK, Locals, Roles, Setting, Statuses
  <1>1. OneHolder'
    BY <1>a, SMTT(20) DEF IInv, TypeOK, Roles, Locals, OneHolder, Holds
  <1>2. StatusKnown'
    BY <1>a DEF IInv, TypeOK, Roles, Locals, OneHolder, StatusKnown, Holds
  <1> QED
    BY <1>1, <1>2 DEF IInv, Basics

\* The retry puts the task in its queue and gives it up.
LEMMA RetryEnqueueInv ==
  ASSUME IInv, Setting, Basics', NEW p \in Consumers, RetryEnqueue(p)
  PROVE  IInv'
  <1> USE DEF RetryEnqueue
  <1>a. Store = "redis" /\ task[p] \in Tasks /\ status[task[p]] \in StoredStatuses
    BY DEF IInv, TypeOK, Locals, Roles, Setting, Statuses
  <1>1. OneHolder'
    <2>1. Holds(p, task[p])
      BY <1>a DEF Holds
    <2>2. \A q \in Procs, u \in Tasks : Holds(q, u)' => Holds(q, u) /\ q # p
      BY <1>a, ReturnsOnce DEF IInv, TypeOK, Holds
    <2>3. \A u \in Tasks : queued'[u] = IF u = task[p] THEN queued[u] + 1 ELSE queued[u]
      BY DEF IInv, TypeOK
    <2> QED
      BY <1>a, <2>1, <2>2, <2>3 DEF IInv, OneHolder
  <1>2. StatusKnown'
    BY <1>a, ReturnsOnce DEF IInv, TypeOK, Roles, Locals, OneHolder, StatusKnown, Holds
  <1> QED
    BY <1>1, <1>2 DEF IInv, Basics

\* A scan reads the running index.
LEMMA ScanInv ==
  ASSUME IInv, Setting, Basics', NEW p \in Reapers, Scan(p)
  PROVE  IInv'
  <1> USE DEF Scan
  <1>a. Store = "redis"
    BY DEF IInv, TypeOK, Locals, Roles, Setting, Statuses
  <1>1. OneHolder'
    BY <1>a DEF IInv, TypeOK, Roles, Locals, OneHolder, Holds
  <1>2. StatusKnown'
    BY <1>a DEF IInv, TypeOK, Roles, Locals, OneHolder, StatusKnown, Holds
  <1> QED
    BY <1>1, <1>2 DEF IInv, Basics

\* A reaper reports a timeout; it never holds a task.
LEMMA ReapCheckInv ==
  ASSUME IInv, Setting, Basics', NEW p \in Reapers, NEW t \in Tasks, ReapCheck(p, t)
  PROVE  IInv'
  <1> USE DEF ReapCheck
  <1>a. Store = "redis" /\ status[t] \in StoredStatuses
    BY DEF IInv, TypeOK, Locals, Roles, Setting, Statuses
  <1>1. OneHolder'
    <2>1. \A q \in Procs, u \in Tasks : Holds(q, u)' => Holds(q, u)
      BY <1>a DEF IInv, TypeOK, Roles, Locals, Holds
    <2>2. \A u \in Tasks : status'[u] = "none" => status[u] = "none"
      BY <1>a DEF IInv, TypeOK, Statuses
    <2> QED
      BY <2>1, <2>2, NoNewHolder DEF IInv
  <1>2. StatusKnown'
    <2>1. UNCHANGED status /\ \A q \in Procs \ {p} : pc'[q] = pc[q] /\ task'[q] = task[q]
      BY DEF IInv, TypeOK
    <2>2. pc'[p] \in {"idle", "rep_get"}
      BY DEF IInv, TypeOK
    <2> QED
      BY <2>1, <2>2 DEF IInv, StatusKnown
  <1> QED
    BY <1>1, <1>2 DEF IInv, Basics

\* A call cut short lets go of its task and leaves the store as it is.
LEMMA AbortInv ==
  ASSUME IInv, Setting, Basics', NEW p \in Procs, Abort(p)
  PROVE  IInv'
  <1> USE DEF Abort
  <1>a. Store = "redis" /\ task[p] \in Tasks /\ status[task[p]] \in StoredStatuses
    BY DEF IInv, TypeOK, Locals, Roles, Setting, Statuses
  <1>1. OneHolder'
    BY <1>a DEF IInv, TypeOK, Roles, Locals, OneHolder, Holds
  <1>2. StatusKnown'
    BY <1>a, SMTT(20) DEF IInv, TypeOK, Roles, Locals, OneHolder, StatusKnown, Holds
  <1> QED
    BY <1>1, <1>2 DEF IInv, Basics

\* A failed updateIndex changes nothing but the fault counter.
LEMMA IndexFailsInv ==
  ASSUME IInv, Setting, Basics', NEW p \in Procs, IndexFails(p)
  PROVE  IInv'
  <1> USE DEF IndexFails, Failure
  <1>a. Store = "redis" /\ task[p] \in Tasks /\ status[task[p]] \in StoredStatuses
    BY DEF IInv, TypeOK, Locals, Roles, Setting, Statuses
  <1>1. OneHolder'
    <2>1. \A q \in Procs, u \in Tasks : Holds(q, u)' => Holds(q, u)
      BY <1>a DEF IInv, TypeOK, Roles, Locals, Holds
    <2>2. \A u \in Tasks : status'[u] = "none" => status[u] = "none"
      BY <1>a DEF IInv, TypeOK, Statuses
    <2> QED
      BY <2>1, <2>2, NoNewHolder DEF IInv
  <1>2. StatusKnown'
    BY <1>a DEF IInv, TypeOK, Roles, Locals, OneHolder, StatusKnown, Holds
  <1> QED
    BY <1>1, <1>2 DEF IInv, Basics

\* The compensation of a failed pipeline deletes the hash its caller holds.
LEMMA FillFailsInv ==
  ASSUME IInv, Setting, Basics', NEW p \in Procs, FillFails(p)
  PROVE  IInv'
  <1> USE DEF FillFails, Failure
  <1>a. Store = "redis" /\ task[p] \in Tasks /\ status[task[p]] \in StoredStatuses
    BY DEF IInv, TypeOK, Locals, Roles, Setting, Statuses
  <1>1. OneHolder'
    BY <1>a, SMTT(20) DEF IInv, TypeOK, Roles, Locals, OneHolder, Holds
  <1>2. StatusKnown'
    BY <1>a, SMTT(20) DEF IInv, TypeOK, Roles, Locals, OneHolder, StatusKnown, Holds
  <1> QED
    BY <1>1, <1>2 DEF IInv, Basics

\* retryTask goes on without the failed step.
LEMMA RetryStepFailsInv ==
  ASSUME IInv, Setting, Basics', NEW p \in Procs, RetryStepFails(p)
  PROVE  IInv'
  <1> USE DEF RetryStepFails, Failure
  <1>a. Store = "redis" /\ task[p] \in Tasks /\ status[task[p]] \in StoredStatuses
    BY DEF IInv, TypeOK, Locals, Roles, Setting, Statuses
  <1>1. OneHolder'
    <2>1. \A q \in Procs, u \in Tasks : Holds(q, u)' => Holds(q, u)
      BY <1>a DEF IInv, TypeOK, Roles, Locals, Holds
    <2>2. \A u \in Tasks : status'[u] = "none" => status[u] = "none"
      BY <1>a DEF IInv, TypeOK, Statuses
    <2> QED
      BY <2>1, <2>2, NoNewHolder DEF IInv
  <1>2. StatusKnown'
    BY <1>a DEF IInv, TypeOK, Roles, Locals, OneHolder, StatusKnown, Holds
  <1> QED
    BY <1>1, <1>2 DEF IInv, Basics

\* No variable of the specification changes in a stuttering step.
LEMMA StutterInv ==
  ASSUME IInv, UNCHANGED vars
  PROVE  IInv'
  BY DEF vars, IInv, TypeOK, Roles, Locals, OneHolder, StatusKnown, Holds

\* IInv is inductive.
LEMMA NextInv ==
  ASSUME IInv, Setting, [Next]_vars
  PROVE  IInv'
  <1>0. Basics'
    BY BasicsNext DEF IInv, Basics
  <1>1. CASE \E p \in Producers :
               \/ \E t \in Tasks : SubmitCheck(p, t) \/ CancelCheck(p, t)
               \/ SubmitStep(p) \/ CancelStep(p)
    BY <1>0, <1>1, SubmitCheckInv, CancelCheckInv, SubmitSaveInv, SubmitFillInv, SubmitEnqueueInv,
       UndoLookupInv, UndoDeleteInv, CancelUpdateInv, CancelIndexInv, CancelRemoveInv
       DEF SubmitStep, CancelStep
  <1>2. ASSUME NEW c \in Consumers,
               \/ \E t \in Tasks : ClaimDequeue(c, t)
               \/ \E o \in Outcomes : Finish(c, o)
               \/ ClaimStep(c)
        PROVE  IInv'
    BY <1>0, <1>2, ClaimDequeueInv, FinishInv, ClaimUpdateInv, ClaimIndexInv, ClaimGetInv
       DEF ClaimStep
  <1>3. ASSUME NEW p \in Consumers \cup Reapers, ReportStep(p)
        PROVE  IInv'
    BY <1>0, <1>3, ReportGetInv, ReportUpdateInv, ReportIndexInv, ReportResultInv DEF ReportStep
  <1>4. ASSUME NEW c \in Consumers, RetryStep(c)
        PROVE  IInv'
    BY <1>0, <1>4, RetryResultInv, RetryUpdateInv, RetryIndexInv, RetryLookupInv, RetryDeleteInv,
       RetrySaveInv, RetryFillInv, RetryEnqueueInv DEF RetryStep
  <1>5. ASSUME NEW r \in Reapers, Scan(r) \/ \E t \in Tasks : ReapCheck(r, t)
        PROVE  IInv'
    BY <1>0, <1>5, ScanInv, ReapCheckInv
  <1>6. ASSUME NEW p \in Procs, FaultStep(p)
        PROVE  IInv'
    <2>1. CASE SubmitEnqueueFails(p)
      <3>1. p \in Producers
        BY <2>1 DEF IInv, Roles, SubmitEnqueueFails
      <3> QED
        BY <1>0, <2>1, <3>1, SubmitEnqueueFailsInv
    <2> QED
      BY <1>0, <1>6, <2>1, AbortInv, IndexFailsInv, FillFailsInv, RetryStepFailsInv DEF FaultStep
  <1> QED
    BY <1>1, <1>2, <1>3, <1>4, <1>5, <1>6, StutterInv DEF Next

\* IInv holds in every reachable state of the engine over Redis.
THEOREM Invariance ==
  ASSUME Setting
  PROVE  Spec => []IInv
  <1>1. IInv /\ [Next]_vars => IInv'
    BY NextInv
  <1> QED
    BY <1>1, InitInv, PTL DEF Spec

\* Over both stores, a process is always at a point of its own call, which is about a
\* task, and reports an outcome.
THEOREM BasicsHold == Spec => []Basics
  <1>1. Init => Basics
    BY InitInv DEF IInv, Basics
  <1>2. Basics /\ [Next]_vars => Basics'
    BY BasicsNext
  <1> QED
    BY <1>1, <1>2, PTL DEF Spec

\* The state of the engine keeps its types over both stores; above all the retry counter
\* never passes MaxRetries, whatever is delivered twice, crashes, fails or races.
THEOREM TypeCorrect == Spec => []TypeOK
  <1>1. Basics => TypeOK
    BY DEF Basics
  <1> QED
    BY <1>1, BasicsHold, PTL

\* Two consumers never execute the same task at the same time.
THEOREM ExclusiveExecutionHolds ==
  ASSUME Setting
  PROVE  Spec => []ExclusiveExecution
  <1>1. IInv => ExclusiveExecution
    BY DEF IInv, OneHolder, ExclusiveExecution, Busy, Holds
  <1> QED
    BY <1>1, Invariance, PTL

\* A step from a fully terminal status keeps it: the transition script refuses
\* every other status, and no retry holds the task any more.
LEMMA FinalStep ==
  ASSUME IInv, Setting, [Next]_vars, NEW t \in Tasks, status[t] \in FullyTerminal
  PROVE  \/ status'[t] = status[t]
         \/ \E p \in Producers : Busy(p, t, {"undo_delete"})
  <1>a. Store = "redis" /\ status \in [Tasks -> StoredStatuses]
    BY DEF IInv, TypeOK, Setting
  <1>1. ASSUME NEW p \in Procs, task[p] \in Tasks, NEW new \in Statuses, NEW by,
               Update(task[p], new, by)
        PROVE  status'[t] = status[t]
    <2>1. status[task[p]] \in StoredStatuses
      BY <1>a, <1>1
    <2>2. CASE task[p] = t
      BY <1>a, <1>1, <2>1, <2>2, RedisAnswers DEF Update, FullyTerminal
    <2>3. CASE task[p] # t
      BY <1>a, <1>1, <2>3 DEF Update
    <2> QED
      BY <2>2, <2>3
  <1>2. ASSUME NEW p \in Procs, SubmitFill(p) \/ RetryFill(p) \/ FillFails(p)
        PROVE  status'[t] = status[t]
    <2>1. status[task[p]] = "partial"
      BY <1>2 DEF IInv, StatusKnown, SubmitFill, RetryFill, FillFails
    <2>2. task[p] # t
      BY <2>1 DEF FullyTerminal
    <2> QED
      BY <1>2, <1>a, <2>2 DEF SubmitFill, RetryFill, FillFails, WriteRecord
  <1>3. ASSUME NEW p \in Procs, SubmitSave(p) \/ RetrySave(p)
        PROVE  status'[t] = status[t]
    BY <1>3, <1>a DEF SubmitSave, RetrySave, Save, FullyTerminal
  <1>4. ASSUME NEW p \in Procs, RetryDelete(p)
        PROVE  status'[t] = status[t]
    <2>1. status[task[p]] \in {"failed", "timeout"}
      BY <1>4 DEF IInv, StatusKnown, RetryDelete
    <2>2. task[p] # t
      BY <2>1 DEF FullyTerminal
    <2> QED
      BY <1>4, <1>a, <2>2 DEF RetryDelete, DeleteRecord
  <1>5. ASSUME NEW p \in Producers, UndoDelete(p)
        PROVE  \/ status'[t] = status[t]
               \/ \E q \in Producers : Busy(q, t, {"undo_delete"})
    BY <1>5, <1>a DEF UndoDelete, DeleteRecord, Busy
  <1>6. ASSUME NEW p \in Producers, SubmitStep(p) \/ CancelStep(p)
        PROVE  \/ status'[t] = status[t]
               \/ \E q \in Producers : Busy(q, t, {"undo_delete"})
    <2>1. CASE CancelUpdate(p)
      <3>1. task[p] \in Tasks
        BY <2>1 DEF IInv, Locals, CancelUpdate
      <3> QED
        BY <2>1, <3>1, <1>1 DEF CancelUpdate, Statuses
    <2> QED
      BY <1>2, <1>3, <1>5, <1>6, <2>1
         DEF SubmitStep, CancelStep, SubmitEnqueue, UndoLookup, CancelIndex, CancelRemove
  <1>7. ASSUME NEW p \in Procs, ReportStep(p) \/ ClaimStep(p) \/ RetryStep(p)
        PROVE  status'[t] = status[t]
    <2>1. ASSUME ClaimUpdate(p) \/ ReportUpdate(p) \/ RetryUpdate(p)
          PROVE  status'[t] = status[t]
      <3>1. task[p] \in Tasks
        BY <2>1 DEF IInv, Locals, ClaimUpdate, ReportUpdate, RetryUpdate
      <3>2. pc[p] = "rep_update" => out[p] \in Statuses
        BY DEF IInv, Locals, Statuses
      <3>3. \E new \in Statuses, by \in Procs \cup {NULL} : Update(task[p], new, by)
        BY <2>1, <3>2 DEF ClaimUpdate, ReportUpdate, RetryUpdate, Statuses
      <3> QED
        BY <3>1, <3>3, <1>1
    <2> QED
      BY <1>2, <1>3, <1>4, <1>7, <2>1
         DEF ReportStep, ReportGet, ReportIndex, ReportResult,
             ClaimStep, ClaimIndex, ClaimGet,
             RetryStep, RetryResult, RetryIndex, RetryLookup, RetryEnqueue
  <1>8. ASSUME NEW p \in Procs, FaultStep(p)
        PROVE  status'[t] = status[t]
    BY <1>2, <1>8 DEF FaultStep, Abort, SubmitEnqueueFails, IndexFails, RetryStepFails
  <1>9. ASSUME NEW p \in Procs, NEW u \in Tasks,
               \/ SubmitCheck(p, u) \/ CancelCheck(p, u) \/ ClaimDequeue(p, u)
               \/ ReapCheck(p, u) \/ Scan(p) \/ \E o \in Outcomes : Finish(p, o)
        PROVE  status'[t] = status[t]
    BY <1>9 DEF SubmitCheck, CancelCheck, ClaimDequeue, ReapCheck, Scan, Finish
  <1>10. CASE UNCHANGED vars
    BY <1>10 DEF vars
  <1> QED
    BY <1>6, <1>7, <1>8, <1>9, <1>10 DEF Next

\* A task that has succeeded, was skipped or was cancelled never takes another
\* status; only the rollback of a failed Submit removes it.
THEOREM FullyTerminalIsFinalHolds ==
  ASSUME Setting
  PROVE  Spec => FullyTerminalIsFinal
  <1>1. IInv /\ [Next]_vars =>
          [\A t \in Tasks : status[t] \in FullyTerminal =>
             \/ status'[t] = status[t]
             \/ \E p \in Producers : Busy(p, t, {"undo_delete"})]_vars
    BY FinalStep
  <1> QED
    BY <1>1, Invariance, PTL DEF Spec, FullyTerminalIsFinal

(***************************************************************************)
(* The attempts of a task.                                                   *)
(***************************************************************************)

\* While a call of p is under way, its task has been handed over no more often than its
\* record, or the call's own copy of it, says.  The last case is a retry that another
\* attempt, the last one that MaxRetries allows, has overtaken.
CountOf(p) ==
  /\ pc[p] \in {"sub_enqueue", "undo_lookup", "undo_delete"}
       => retries[task[p]] = 0 /\ handed[task[p]] = 0
  /\ pc[p] \in ClaimPcs \cup {"try_enqueue"} => handed[task[p]] <= retries[task[p]]
  /\ p \in Consumers /\ pc[p] \in {"exec", "rep_get"}
       => handed[task[p]] <= retries[task[p]] + 1
  /\ pc[p] \in {"try_result", "try_update", "try_index", "try_lookup", "try_delete"}
       => retries[task[p]] = snap[p] /\ handed[task[p]] <= snap[p] + 1
  /\ pc[p] = "try_fill" => handed[task[p]] <= snap[p] + 1
  /\ pc[p] = "try_save" =>
       \/ handed[task[p]] <= snap[p] + 1
       \/ MaxRetries <= 1 /\ retries[task[p]] = 1 /\ status[task[p]] \notin {"none", "partial"}

Counted ==
  /\ \A t \in Tasks : queued[t] > 0 => handed[t] <= retries[t]
  /\ \A p \in Procs : CountOf(p)

\* A retry whose record is deleted is the only call that may write a new one.
AloneAt(t) ==
  \A p \in Procs : Busy(p, t, {"try_save"}) =>
    /\ status[t] \in {"none", "failed", "timeout"} /\ queued[t] = 0
    /\ \A q \in Procs : ~Holds(q, t) /\ (Busy(q, t, {"try_save"}) => q = p)

Alone == \A t \in Tasks : AloneAt(t)

\* A task that a Submit holds was not executed.
Unstarted ==
  \A p \in Producers :
    pc[p] \in {"sub_enqueue", "undo_lookup", "undo_delete"}
      => status[task[p]] \in {"pending", "cancelled", "timeout"}

Tracked == Unstarted /\ Counted /\ (MaxRetries <= 1 \/ Alone)

\* A step of p moves no other process.
Moves(p) ==
  \A q \in Procs \ {p} :
    pc'[q] = pc[q] /\ task'[q] = task[q] /\ snap'[q] = snap[q] /\ out'[q] = out[q]

UndoPcs == {"sub_enqueue", "undo_lookup", "undo_delete"}

\* What most steps do to the tasks: a task moves on from pending or running, by the call
\* that holds it or to cancelled or timeout, and leaves its queue if anything.
Quiet(p) ==
  /\ Moves(p)
  /\ UNCHANGED <<retries, handed>>
  /\ \A t \in Tasks : queued'[t] \in {queued[t], 0}
  /\ \A t \in Tasks : \/ status'[t] = status[t]
                      \/ /\ status[t] \in {"pending", "running"}
                         /\ status'[t] \notin {"none", "partial", "pending"}
                         /\ status'[t] \in {"cancelled", "timeout"} \/ Holds(p, t)
  /\ \A t \in Tasks : Holds(p, t)' => Holds(p, t)
  /\ pc'[p] # "try_save"
  /\ pc'[p] \in UndoPcs => pc[p] \in UndoPcs /\ UNCHANGED <<task, status>>

\* A quiet step keeps the attempts counted if it keeps the count of its own call.
LEMMA QuietTracked ==
  ASSUME IInv, Tracked, NEW p \in Procs, Quiet(p), CountOf(p)'
  PROVE  Tracked'
  <1> USE DEF UndoPcs
  <1>0. \A q \in Procs : pc[q] # "idle" => task[q] \in Tasks
    BY DEF IInv, Locals
  <1>1. Unstarted'
    <2> SUFFICES ASSUME NEW q \in Producers, pc'[q] \in UndoPcs
                 PROVE  status'[task'[q]] \in {"pending", "cancelled", "timeout"}
      BY DEF Unstarted
    <2>1. task'[q] = task[q] /\ task[q] \in Tasks /\ pc[q] \in UndoPcs
      BY <1>0 DEF Quiet, Moves
    <2>2. status[task[q]] \in {"pending", "cancelled", "timeout"}
      BY <2>1 DEF Tracked, Unstarted
    <2>3. Holds(q, task[q])
      BY <2>1 DEF Holds
    <2>4. CASE p = q
      BY <2>1, <2>2, <2>4 DEF Quiet
    <2>5. CASE p # q
      <3>1. ~Holds(p, task[q])
        BY <2>1, <2>3, <2>5 DEF IInv, OneHolder
      <3> QED
        BY <2>1, <2>2, <3>1 DEF Quiet
    <2> QED
      BY <2>4, <2>5
  <1>2. \A t \in Tasks : queued'[t] > 0 => handed'[t] <= retries'[t]
    BY DEF Quiet, Tracked, Counted
  <1>3. ASSUME NEW q \in Procs \ {p} PROVE CountOf(q)'
    <2>1. CountOf(q) /\ pc'[q] = pc[q] /\ task'[q] = task[q] /\ snap'[q] = snap[q]
      BY DEF Quiet, Moves, Tracked, Counted
    <2>2. retries' = retries /\ handed' = handed
      BY DEF Quiet
    <2>3. CASE pc[q] = "try_save"
      <3>1. task[q] \in Tasks
        BY <1>0, <2>3
      <3>2. status[task[q]] \notin {"none", "partial"} => status'[task[q]] \notin {"none", "partial"}
        BY <3>1 DEF Quiet
      <3> QED
        BY <2>1, <2>2, <2>3, <3>2 DEF CountOf
    <2>4. CASE pc[q] # "try_save"
      BY <2>1, <2>2, <2>4 DEF CountOf
    <2> QED
      BY <2>3, <2>4
  <1>4. Counted'
    BY <1>2, <1>3 DEF Counted
  <1>5. ASSUME Alone PROVE Alone'
    <2> SUFFICES ASSUME NEW q \in Procs, NEW t \in Tasks, Busy(q, t, {"try_save"})'
                 PROVE  /\ status'[t] \in {"none", "failed", "timeout"} /\ queued'[t] = 0
                        /\ \A r \in Procs : ~Holds(r, t)' /\ (Busy(r, t, {"try_save"})' => r = q)
      BY DEF Alone, AloneAt
    <2>1. q # p /\ Busy(q, t, {"try_save"})
      BY DEF Quiet, Moves, Busy
    <2>2. /\ status[t] \in {"none", "failed", "timeout"} /\ queued[t] = 0
          /\ \A r \in Procs : ~Holds(r, t) /\ (Busy(r, t, {"try_save"}) => r = q)
      BY <1>5, <2>1 DEF Alone, AloneAt
    <2>3. status'[t] = status[t] /\ queued'[t] = 0
      BY <2>2 DEF Quiet
    <2>4. \A r \in Procs : Holds(r, t)' => Holds(r, t)
      BY DEF Quiet, Moves, Holds
    <2>5. \A r \in Procs : Busy(r, t, {"try_save"})' => Busy(r, t, {"try_save"})
      BY DEF Quiet, Moves, Busy
    <2> QED
      BY <2>2, <2>3, <2>4, <2>5
  <1> QED
    BY <1>1, <1>4, <1>5 DEF Tracked

\* The steps that are quiet.
LEMMA QuietProducer ==
  ASSUME IInv, Setting, Tracked, NEW p \in Producers,
         \/ \E t \in Tasks : SubmitCheck(p, t) \/ CancelCheck(p, t)
         \/ SubmitEnqueueFails(p) \/ UndoLookup(p)
         \/ CancelStep(p)
  PROVE  Quiet(p) /\ CountOf(p)'
  <1> USE DEF Quiet, Moves, UndoPcs
  <1>0. /\ pc \in [Procs -> Pcs] /\ task \in [Procs -> Tasks \cup {NULL}]
        /\ status \in [Tasks -> StoredStatuses] /\ queued \in [Tasks -> Nat]
        /\ out \in [Procs -> Statuses \cup {NULL}] /\ snap \in [Procs -> 0 .. MaxRetries]
        /\ Store = "redis" /\ p \notin Consumers /\ p \notin Reapers /\ p \in Procs
        /\ pc[p] # "idle" => task[p] \in Tasks
    BY DEF IInv, TypeOK, Setting, Locals
  <1>1. CASE \E t \in Tasks : SubmitCheck(p, t) \/ CancelCheck(p, t)
    BY <1>0, <1>1 DEF SubmitCheck, CancelCheck, Holds, CountOf
  <1>2. CASE SubmitEnqueueFails(p)
    BY <1>0, <1>2 DEF SubmitEnqueueFails, Failure, DeleteFrom, Holds, CountOf, Tracked, Counted
  <1>3. CASE UndoLookup(p)
    BY <1>0, <1>3 DEF UndoLookup, Holds, CountOf, Tracked, Counted
  <1>4. CASE CancelUpdate(p)
    BY <1>0, <1>4, RedisAnswers
       DEF CancelUpdate, Update, Transitioned, Holds, CountOf, Statuses, ValidTransition
  <1>5. CASE CancelIndex(p)
    BY <1>0, <1>5 DEF CancelIndex, UpdateIndex, Holds, CountOf
  <1>6. CASE CancelRemove(p)
    BY <1>0, <1>6 DEF CancelRemove, Holds, CountOf
  <1> QED
    BY <1>1, <1>2, <1>3, <1>4, <1>5, <1>6 DEF CancelStep

\* The steps of Claim between Dequeue and GetTask are quiet, and so is the end of an execution.
LEMMA QuietClaim ==
  ASSUME IInv, Setting, Tracked, NEW p \in Consumers,
         ClaimUpdate(p) \/ ClaimIndex(p) \/ \E o \in Outcomes : Finish(p, o)
  PROVE  Quiet(p) /\ CountOf(p)'
  <1> USE DEF Quiet, Moves, UndoPcs
  <1>0. /\ pc \in [Procs -> Pcs] /\ task \in [Procs -> Tasks \cup {NULL}]
        /\ status \in [Tasks -> StoredStatuses] /\ queued \in [Tasks -> Nat]
        /\ out \in [Procs -> Statuses \cup {NULL}] /\ snap \in [Procs -> 0 .. MaxRetries]
        /\ Store = "redis" /\ p \notin Producers /\ p \notin Reapers /\ p \in Procs
        /\ pc[p] # "idle" => task[p] \in Tasks
    BY DEF IInv, TypeOK, Setting, Locals
  <1>1. CASE ClaimUpdate(p)
    BY <1>0, <1>1, RedisAnswers
       DEF ClaimUpdate, Update, Transitioned, Holds, CountOf, Statuses, ValidTransition,
           Tracked, Counted
  <1>2. CASE ClaimIndex(p)
    BY <1>0, <1>2 DEF ClaimIndex, UpdateIndex, Holds, CountOf, Tracked, Counted
  <1>3. CASE \E o \in Outcomes : Finish(p, o)
    BY <1>0, <1>3 DEF Finish, Holds, CountOf, Tracked, Counted
  <1> QED
    BY <1>1, <1>2, <1>3

\* The steps of Report are quiet.
LEMMA QuietReport ==
  ASSUME IInv, Setting, Tracked, NEW p \in Consumers \cup Reapers, ReportStep(p)
  PROVE  Quiet(p) /\ CountOf(p)'
  <1> USE DEF Quiet, Moves, UndoPcs
  <1>0. /\ pc \in [Procs -> Pcs] /\ task \in [Procs -> Tasks \cup {NULL}]
        /\ status \in [Tasks -> StoredStatuses] /\ queued \in [Tasks -> Nat]
        /\ out \in [Procs -> Statuses \cup {NULL}] /\ snap \in [Procs -> 0 .. MaxRetries]
        /\ retries \in [Tasks -> 0 .. MaxRetries] /\ handed \in [Tasks -> Nat]
        /\ Store = "redis" /\ p \notin Producers /\ p \in Procs
        /\ pc[p] # "idle" => task[p] \in Tasks
        /\ pc[p] \in ReportPcs => out[p] \in Statuses
        /\ p \in Reapers /\ pc[p] # "idle" => out[p] = "timeout"
    BY DEF IInv, TypeOK, Setting, Locals, Statuses
  <1>r. ReportReturns(p) => Return(p) /\ UNCHANGED resends
    BY ReturnsOnce
  <1>1. CASE ReportGet(p)
    BY <1>0, <1>1, <1>r DEF ReportGet, CanRetry, Holds, CountOf, Tracked, Counted
  <1>2. CASE ReportUpdate(p)
    <2>1. CASE Outcome(status[task[p]], out[p]) = "OK"
      <3>1. /\ status[task[p]] \in {"pending", "running"}
            /\ out[p] \in {"success", "failed", "skipped", "timeout"}
            /\ p \in Consumers \/ out[p] = "timeout"
        BY <1>0, <1>2, <2>1, RedisAnswers DEF ReportUpdate, IInv, Locals, ValidTransition
      <3>2. /\ status' = [status EXCEPT ![task[p]] = out[p]] /\ UNCHANGED <<retries, handed, queued>>
            /\ pc' = [pc EXCEPT ![p] = "rep_index"] /\ UNCHANGED <<task, out, snap>>
        BY <1>0, <1>2, <2>1 DEF ReportUpdate, Update, Transitioned
      <3>3. pc[p] = "rep_update"
        BY <1>2 DEF ReportUpdate
      <3> QED
        BY <1>0, <3>1, <3>2, <3>3 DEF Holds, CountOf
    <2>2. CASE Outcome(status[task[p]], out[p]) \in {"SAME", "INVALID"}
      BY <1>0, <1>2, <2>2 DEF ReportUpdate, Update, Holds, CountOf
    <2>3. CASE Outcome(status[task[p]], out[p]) \in {"TERMINAL", "NOT_FOUND"}
      BY <1>0, <1>2, <1>r, <2>3 DEF ReportUpdate, Update, Holds, CountOf
    <2> QED
      BY <1>2, <2>1, <2>2, <2>3 DEF ReportUpdate
  <1>3. CASE ReportIndex(p)
    BY <1>0, <1>3 DEF ReportIndex, UpdateIndex, Holds, CountOf, Tracked, Counted
  <1>4. CASE ReportResult(p)
    BY <1>0, <1>4, <1>r DEF ReportResult, Holds, CountOf, Tracked, Counted
  <1> QED
    BY <1>1, <1>2, <1>3, <1>4 DEF ReportStep

\* The steps of retryTask before DeleteTask are quiet.
LEMMA QuietRetry ==
  ASSUME IInv, Setting, Tracked, NEW p \in Consumers,
         RetryResult(p) \/ RetryUpdate(p) \/ RetryIndex(p) \/ RetryLookup(p)
  PROVE  Quiet(p) /\ CountOf(p)'
  <1> USE DEF Quiet, Moves, UndoPcs
  <1>0. /\ pc \in [Procs -> Pcs] /\ task \in [Procs -> Tasks \cup {NULL}]
        /\ status \in [Tasks -> StoredStatuses] /\ queued \in [Tasks -> Nat]
        /\ out \in [Procs -> Statuses \cup {NULL}] /\ snap \in [Procs -> 0 .. MaxRetries]
        /\ Store = "redis" /\ p \notin Producers /\ p \notin Reapers /\ p \in Procs
        /\ pc[p] # "idle" => task[p] \in Tasks
    BY DEF IInv, TypeOK, Setting, Locals
  <1>r. ReportReturns(p) => Return(p) /\ UNCHANGED resends
    BY ReturnsOnce
  <1>1. CASE RetryResult(p)
    BY <1>0, <1>1 DEF RetryResult, Holds, CountOf, Tracked, Counted
  <1>2. CASE RetryUpdate(p)
    BY <1>0, <1>2, <1>r, RedisAnswers
       DEF RetryUpdate, DeleteFrom, Update, Transitioned, Holds, CountOf, Statuses,
           ValidTransition, Tracked, Counted
  <1>3. CASE RetryIndex(p)
    BY <1>0, <1>3 DEF RetryIndex, UpdateIndex, Holds, CountOf, Tracked, Counted
  <1>4. CASE RetryLookup(p)
    <2>1. status[task[p]] \in {"failed", "timeout"}
      BY <1>4 DEF RetryLookup, IInv, StatusKnown
    <2> QED
      BY <1>0, <1>4, <2>1 DEF RetryLookup, Holds, CountOf, Tracked, Counted
  <1> QED
    BY <1>1, <1>2, <1>3, <1>4

\* The steps of the reaper are quiet, and so are calls and indexes that fail.
LEMMA QuietReaper ==
  ASSUME IInv, Setting, Tracked, NEW p \in Procs,
         \/ p \in Reapers /\ (Scan(p) \/ \E t \in Tasks : ReapCheck(p, t))
         \/ Abort(p) \/ IndexFails(p)
  PROVE  Quiet(p) /\ CountOf(p)'
  <1> USE DEF Quiet, Moves, UndoPcs
  <1>0. /\ pc \in [Procs -> Pcs] /\ task \in [Procs -> Tasks \cup {NULL}]
        /\ status \in [Tasks -> StoredStatuses] /\ queued \in [Tasks -> Nat]
        /\ out \in [Procs -> Statuses \cup {NULL}] /\ snap \in [Procs -> 0 .. MaxRetries]
        /\ Store = "redis"
        /\ pc[p] # "idle" => task[p] \in Tasks
    BY DEF IInv, TypeOK, Setting, Locals
  <1>1. CASE p \in Reapers /\ Scan(p)
    BY <1>0, <1>1 DEF Scan, Holds, CountOf, Tracked, Counted
  <1>2. CASE p \in Reapers /\ \E t \in Tasks : ReapCheck(p, t)
    BY <1>0, <1>2 DEF ReapCheck, Holds, CountOf, Tracked, Counted
  <1>3. CASE Abort(p)
    BY <1>0, <1>3 DEF Abort, Holds, CountOf
  <1>4. CASE IndexFails(p)
    BY <1>0, <1>4 DEF IndexFails, Failure, Holds, CountOf, Tracked, Counted
  <1> QED
    BY <1>1, <1>2, <1>3, <1>4

\* A step that changes what is known of one task, which no other call holds.
LEMMA LoudTracked ==
  ASSUME IInv, Tracked, NEW p \in Procs, Moves(p), NEW t \in Tasks, task'[p] \in {t, NULL},
         \A u \in Tasks \ {t} : /\ status'[u] = status[u] /\ retries'[u] = retries[u]
                                /\ handed'[u] = handed[u] /\ queued'[u] = queued[u],
         \A q \in Procs \ {p} : ~Holds(q, t),
         queued'[t] > 0 => handed'[t] <= retries'[t],
         CountOf(p)',
         pc'[p] \in UndoPcs => status'[task'[p]] \in {"pending", "cancelled", "timeout"},
         \A q \in Procs \ {p} : Busy(q, t, {"try_save"}) =>
           \/ handed'[t] <= snap[q] + 1
           \/ MaxRetries <= 1 /\ retries'[t] = 1 /\ status'[t] \notin {"none", "partial"},
         MaxRetries <= 1 \/ AloneAt(t)'
  PROVE  Tracked'
  <1> USE DEF UndoPcs
  <1>0. \A q \in Procs : pc[q] # "idle" => task[q] \in Tasks
    BY DEF IInv, Locals
  <1>1. ASSUME NEW q \in Producers, pc'[q] \in UndoPcs
        PROVE  status'[task'[q]] \in {"pending", "cancelled", "timeout"}
    <2>1. CASE q # p
      <3>1. task'[q] = task[q] /\ task[q] \in Tasks /\ pc[q] \in UndoPcs
        BY <1>0, <1>1, <2>1 DEF Moves
      <3>2. Holds(q, task[q]) /\ status[task[q]] \in {"pending", "cancelled", "timeout"}
        BY <3>1 DEF Holds, Tracked, Unstarted
      <3>3. task[q] # t
        BY <2>1, <3>2
      <3> QED
        BY <3>1, <3>2, <3>3
    <2> QED
      BY <1>1, <2>1
  <1>2. \A u \in Tasks : queued'[u] > 0 => handed'[u] <= retries'[u]
    BY DEF Tracked, Counted
  <1>3. ASSUME NEW q \in Procs \ {p} PROVE CountOf(q)'
    <2>1. CountOf(q) /\ pc'[q] = pc[q] /\ task'[q] = task[q] /\ snap'[q] = snap[q]
      BY DEF Moves, Tracked, Counted
    <2>2. CASE pc[q] # "idle" /\ task[q] # t
      <3>1. task[q] \in Tasks \ {t}
        BY <1>0, <2>2
      <3> QED
        BY <2>1, <3>1 DEF CountOf
    <2>3. CASE task[q] = t /\ pc[q] = "try_save"
      <3>1. \/ handed'[t] <= snap[q] + 1
            \/ MaxRetries <= 1 /\ retries'[t] = 1 /\ status'[t] \notin {"none", "partial"}
        BY <2>3 DEF Busy
      <3> QED
        BY <2>1, <2>3, <3>1 DEF CountOf
    <2>4. CASE task[q] = t /\ pc[q] # "try_save"
      <3>1. q \in Reapers \/ pc[q] \notin HoldPcs
        BY <2>4 DEF Holds
      <3>2. q \in Reapers => pc[q] \in {"idle"} \cup ReportPcs /\ q \notin Consumers
        BY DEF IInv, Roles
      <3> QED
        BY <2>1, <2>4, <3>1, <3>2 DEF CountOf
    <2>5. CASE pc[q] = "idle"
      BY <2>1, <2>5 DEF CountOf
    <2> QED
      BY <2>2, <2>3, <2>4, <2>5
  <1>4. ASSUME Alone, AloneAt(t)' PROVE Alone'
    <2> SUFFICES ASSUME NEW u \in Tasks \ {t} PROVE AloneAt(u)'
      BY <1>4 DEF Alone
    <2>1. AloneAt(u) /\ status'[u] = status[u] /\ queued'[u] = queued[u]
      BY <1>4 DEF Alone
    <2>2. \A q \in Procs : Holds(q, u)' => Holds(q, u)
      BY DEF Moves, Holds
    <2>3. \A q \in Procs : Busy(q, u, {"try_save"})' => Busy(q, u, {"try_save"})
      BY DEF Moves, Busy
    <2> QED
      BY <2>1, <2>2, <2>3 DEF AloneAt
  <1> QED
    BY <1>1, <1>2, <1>3, <1>4 DEF Tracked, Unstarted, Counted

\* Who holds a task holds it alone, and no deleted record of it waits to be written.
LEMMA HolderIsAlone ==
  ASSUME IInv, NEW p \in Procs, NEW t \in Tasks, Holds(p, t)
  PROVE  /\ \A q \in Procs \ {p} : ~Holds(q, t)
         /\ queued[t] = 0 /\ status[t] # "none"
         /\ Alone => \A q \in Procs : ~Busy(q, t, {"try_save"})
  BY DEF IInv, OneHolder, Alone, AloneAt

\* A step by which p does not come to write a new record leaves at most the retry that
\* waited to.
LEMMA StaysAlone ==
  ASSUME Tracked, NEW p \in Procs, Moves(p), NEW t \in Tasks, pc'[p] # "try_save",
         Alone => \A q \in Procs : ~Busy(q, t, {"try_save"})
  PROVE  MaxRetries <= 1 \/ AloneAt(t)'
  <1>1. \A q \in Procs : Busy(q, t, {"try_save"})' => Busy(q, t, {"try_save"})
    BY DEF Moves, Busy
  <1>2. MaxRetries <= 1 \/ Alone
    BY DEF Tracked
  <1> QED
    BY <1>1, <1>2 DEF AloneAt

\* The steps that create, queue or hand over a task.
LEMMA SubmitSaveTracked ==
  ASSUME IInv, Setting, Tracked, NEW p \in Producers, SubmitSave(p), (MaxRetries <= 1 \/ NotOvertaken)'
  PROVE  Tracked'
  <1>0. /\ pc \in [Procs -> Pcs] /\ task \in [Procs -> Tasks \cup {NULL}]
        /\ status \in [Tasks -> StoredStatuses] /\ queued \in [Tasks -> Nat]
        /\ out \in [Procs -> Statuses \cup {NULL}] /\ snap \in [Procs -> 0 .. MaxRetries]
        /\ retries \in [Tasks -> 0 .. MaxRetries] /\ handed \in [Tasks -> Nat]
        /\ Store = "redis" /\ p \in Procs /\ p \notin Consumers /\ p \notin Reapers
        /\ pc[p] # "idle" => task[p] \in Tasks
        /\ pc[p] \in RetryPcs => snap[p] < MaxRetries
    BY DEF IInv, TypeOK, Setting, Locals
  <1>1. CASE status[task[p]] # "none"
    <2>1. Quiet(p) /\ CountOf(p)'
      BY <1>0, <1>1 DEF SubmitSave, Save, Quiet, Moves, Holds, CountOf, UndoPcs
    <2> QED
      BY <1>0, <2>1, QuietTracked
  <1>2. CASE status[task[p]] = "none"
    <2>t. PICK t \in Tasks : task[p] = t
      BY <1>0 DEF SubmitSave
    <2>1. /\ t \in Tasks /\ Moves(p) /\ task'[p] = t /\ pc'[p] = "sub_fill"
          /\ status' = [status EXCEPT ![t] = "partial"] /\ UNCHANGED <<retries, handed, queued>>
      BY <2>t, <1>0, <1>2 DEF SubmitSave, Save, Moves
    <2>2. queued[t] = 0 /\ \A q \in Procs : ~Holds(q, t)
      BY <2>t, <1>2, <2>1 DEF IInv, OneHolder
    <2>3. CountOf(p)'
      BY <2>t, <1>0, <2>1 DEF CountOf
    <2>4. ASSUME NEW q \in Procs \ {p}, Busy(q, t, {"try_save"})
          PROVE  handed'[t] <= snap[q] + 1 /\ MaxRetries <= 1
      <3>1. Busy(p, t, {"sub_fill"})' /\ Busy(q, t, {"try_save"})'
        BY <2>t, <2>1, <2>4 DEF Busy, Moves
      <3>2. MaxRetries <= 1
        BY <2>t, <2>1, <3>1 DEF NotOvertaken
      <3>3. CountOf(q) /\ task[q] = t /\ pc[q] = "try_save"
        BY <2>t, <2>4 DEF Tracked, Counted, Busy
      <3> QED
        BY <2>t, <1>2, <2>1, <3>2, <3>3 DEF CountOf
    <2>5. MaxRetries <= 1 \/ AloneAt(t)'
      <3>1. ASSUME NEW q \in Procs, Busy(q, t, {"try_save"})' PROVE MaxRetries <= 1
        <4>1. q # p /\ Busy(q, t, {"try_save"})
          BY <2>t, <2>1, <3>1 DEF Busy, Moves
        <4> QED
          BY <2>t, <2>4, <4>1
      <3> QED
        BY <2>t, <3>1 DEF AloneAt
    <2>8. \A u \in Tasks \ {t} : /\ status'[u] = status[u] /\ retries'[u] = retries[u]
                                     /\ handed'[u] = handed[u] /\ queued'[u] = queued[u]
      BY <2>t, <1>0, <2>1
    <2>9. pc'[p] \in UndoPcs => status'[task'[p]] \in {"pending", "cancelled", "timeout"}
      BY <2>t, <1>0, <2>1 DEF UndoPcs
    <2> QED
      BY <2>t, <1>0, <2>1, <2>2, <2>3, <2>4, <2>5, <2>8, <2>9, LoudTracked
  <1> QED
    BY <1>1, <1>2

\* A new record starts to count its attempts at none.
LEMMA SubmitFillTracked ==
  ASSUME IInv, Setting, Tracked, NEW p \in Producers, SubmitFill(p)
  PROVE  Tracked'
  <1>0. /\ pc \in [Procs -> Pcs] /\ task \in [Procs -> Tasks \cup {NULL}]
        /\ status \in [Tasks -> StoredStatuses] /\ queued \in [Tasks -> Nat]
        /\ out \in [Procs -> Statuses \cup {NULL}] /\ snap \in [Procs -> 0 .. MaxRetries]
        /\ retries \in [Tasks -> 0 .. MaxRetries] /\ handed \in [Tasks -> Nat]
        /\ Store = "redis" /\ p \in Procs /\ p \notin Consumers /\ p \notin Reapers
        /\ pc[p] # "idle" => task[p] \in Tasks
        /\ pc[p] \in RetryPcs => snap[p] < MaxRetries
    BY DEF IInv, TypeOK, Setting, Locals
  <1>t. PICK t \in Tasks : task[p] = t
    BY <1>0 DEF SubmitFill
  <1>1. /\ t \in Tasks /\ Moves(p) /\ task'[p] = t /\ pc'[p] = "sub_enqueue"
        /\ status' = [status EXCEPT ![t] = "pending"] /\ retries' = [retries EXCEPT ![t] = 0]
        /\ handed' = [handed EXCEPT ![t] = 0] /\ queued' = queued /\ Holds(p, t)
    BY <1>t, <1>0 DEF SubmitFill, WriteRecord, Moves, Holds
  <1>2. /\ \A q \in Procs \ {p} : ~Holds(q, t)
        /\ queued[t] = 0
        /\ (Alone => \A q \in Procs : ~Busy(q, t, {"try_save"}))
    BY <1>t, <1>1, HolderIsAlone
  <1>3. CountOf(p)'
    BY <1>t, <1>0, <1>1 DEF CountOf
  <1>4. \A q \in Procs \ {p} : Busy(q, t, {"try_save"}) => handed'[t] <= snap[q] + 1
    BY <1>t, <1>0, <1>1
  <1>5. MaxRetries <= 1 \/ AloneAt(t)'
    BY <1>t, <1>0, <1>1, <1>2, StaysAlone
  <1>8. \A u \in Tasks \ {t} : /\ status'[u] = status[u] /\ retries'[u] = retries[u]
                                   /\ handed'[u] = handed[u] /\ queued'[u] = queued[u]
    BY <1>t, <1>0, <1>1
  <1>9. pc'[p] \in UndoPcs => status'[task'[p]] \in {"pending", "cancelled", "timeout"}
    BY <1>t, <1>0, <1>1 DEF UndoPcs
  <1> QED
    BY <1>t, <1>0, <1>1, <1>2, <1>3, <1>4, <1>5, <1>8, <1>9, LoudTracked

\* A submission queues a task that was not handed over.
LEMMA SubmitEnqueueTracked ==
  ASSUME IInv, Setting, Tracked, NEW p \in Producers, SubmitEnqueue(p)
  PROVE  Tracked'
  <1>0. /\ pc \in [Procs -> Pcs] /\ task \in [Procs -> Tasks \cup {NULL}]
        /\ status \in [Tasks -> StoredStatuses] /\ queued \in [Tasks -> Nat]
        /\ out \in [Procs -> Statuses \cup {NULL}] /\ snap \in [Procs -> 0 .. MaxRetries]
        /\ retries \in [Tasks -> 0 .. MaxRetries] /\ handed \in [Tasks -> Nat]
        /\ Store = "redis" /\ p \in Procs /\ p \notin Consumers /\ p \notin Reapers
        /\ pc[p] # "idle" => task[p] \in Tasks
        /\ pc[p] \in RetryPcs => snap[p] < MaxRetries
    BY DEF IInv, TypeOK, Setting, Locals
  <1>t. PICK t \in Tasks : task[p] = t
    BY <1>0 DEF SubmitEnqueue
  <1>1. /\ t \in Tasks /\ Moves(p) /\ task'[p] = NULL /\ pc'[p] = "idle"
        /\ UNCHANGED <<status, retries, handed>>
        /\ queued' = [queued EXCEPT ![t] = @ + 1] /\ Holds(p, t)
    BY <1>t, <1>0 DEF SubmitEnqueue, Moves, Holds
  <1>2. /\ \A q \in Procs \ {p} : ~Holds(q, t)
        /\ (Alone => \A q \in Procs : ~Busy(q, t, {"try_save"}))
    BY <1>t, <1>1, HolderIsAlone
  <1>3. CountOf(p)' /\ handed[t] <= retries[t]
    BY <1>t, <1>0, <1>1 DEF CountOf, Tracked, Counted, SubmitEnqueue
  <1>4. \A q \in Procs \ {p} : Busy(q, t, {"try_save"}) => handed'[t] <= snap[q] + 1
    BY <1>t, <1>0, <1>1 DEF Tracked, Counted, CountOf, SubmitEnqueue
  <1>5. MaxRetries <= 1 \/ AloneAt(t)'
    BY <1>t, <1>0, <1>1, <1>2, StaysAlone
  <1>8. \A u \in Tasks \ {t} : /\ status'[u] = status[u] /\ retries'[u] = retries[u]
                                   /\ handed'[u] = handed[u] /\ queued'[u] = queued[u]
    BY <1>t, <1>0, <1>1
  <1>9. pc'[p] \in UndoPcs => status'[task'[p]] \in {"pending", "cancelled", "timeout"}
    BY <1>t, <1>0, <1>1 DEF UndoPcs
  <1> QED
    BY <1>t, <1>0, <1>1, <1>2, <1>3, <1>4, <1>5, <1>8, <1>9, LoudTracked

\* A submission withdraws a task that was not handed over.
LEMMA UndoDeleteTracked ==
  ASSUME IInv, Setting, Tracked, NEW p \in Producers, UndoDelete(p)
  PROVE  Tracked'
  <1>0. /\ pc \in [Procs -> Pcs] /\ task \in [Procs -> Tasks \cup {NULL}]
        /\ status \in [Tasks -> StoredStatuses] /\ queued \in [Tasks -> Nat]
        /\ out \in [Procs -> Statuses \cup {NULL}] /\ snap \in [Procs -> 0 .. MaxRetries]
        /\ retries \in [Tasks -> 0 .. MaxRetries] /\ handed \in [Tasks -> Nat]
        /\ Store = "redis" /\ p \in Procs /\ p \notin Consumers /\ p \notin Reapers
        /\ pc[p] # "idle" => task[p] \in Tasks
        /\ pc[p] \in RetryPcs => snap[p] < MaxRetries
    BY DEF IInv, TypeOK, Setting, Locals
  <1>t. PICK t \in Tasks : task[p] = t
    BY <1>0 DEF UndoDelete
  <1>1. /\ t \in Tasks /\ Moves(p) /\ task'[p] = NULL /\ pc'[p] = "idle"
        /\ status' = [status EXCEPT ![t] = "none"] /\ retries' = [retries EXCEPT ![t] = 0]
        /\ UNCHANGED <<handed, queued>> /\ Holds(p, t)
    BY <1>t, <1>0 DEF UndoDelete, DeleteRecord, Moves, Holds
  <1>2. /\ \A q \in Procs \ {p} : ~Holds(q, t)
        /\ queued[t] = 0
        /\ (Alone => \A q \in Procs : ~Busy(q, t, {"try_save"}))
    BY <1>t, <1>1, HolderIsAlone
  <1>3. CountOf(p)' /\ handed[t] = 0
    BY <1>t, <1>0, <1>1 DEF CountOf, Tracked, Counted, UndoDelete
  <1>4. \A q \in Procs \ {p} : Busy(q, t, {"try_save"}) => handed'[t] <= snap[q] + 1
    BY <1>t, <1>0, <1>1, <1>3
  <1>5. MaxRetries <= 1 \/ AloneAt(t)'
    BY <1>t, <1>0, <1>1, <1>2, StaysAlone
  <1>8. \A u \in Tasks \ {t} : /\ status'[u] = status[u] /\ retries'[u] = retries[u]
                                   /\ handed'[u] = handed[u] /\ queued'[u] = queued[u]
    BY <1>t, <1>0, <1>1
  <1>9. pc'[p] \in UndoPcs => status'[task'[p]] \in {"pending", "cancelled", "timeout"}
    BY <1>t, <1>0, <1>1 DEF UndoPcs
  <1> QED
    BY <1>t, <1>0, <1>1, <1>2, <1>3, <1>4, <1>5, <1>8, <1>9, LoudTracked

\* What was said of the queued task is said of the claimed one.
LEMMA ClaimDequeueTracked ==
  ASSUME IInv, Setting, Tracked, NEW p \in Consumers, NEW t \in Tasks, ClaimDequeue(p, t)
  PROVE  Tracked'
  <1>0. /\ pc \in [Procs -> Pcs] /\ task \in [Procs -> Tasks \cup {NULL}]
        /\ status \in [Tasks -> StoredStatuses] /\ queued \in [Tasks -> Nat]
        /\ out \in [Procs -> Statuses \cup {NULL}] /\ snap \in [Procs -> 0 .. MaxRetries]
        /\ retries \in [Tasks -> 0 .. MaxRetries] /\ handed \in [Tasks -> Nat]
        /\ Store = "redis" /\ p \in Procs /\ p \notin Producers /\ p \notin Reapers
        /\ pc[p] # "idle" => task[p] \in Tasks
        /\ pc[p] \in RetryPcs => snap[p] < MaxRetries
    BY DEF IInv, TypeOK, Setting, Locals
  <1>1. /\ Moves(p) /\ task'[p] = t /\ pc'[p] = "clm_update"
        /\ UNCHANGED <<status, retries, handed>>
        /\ queued' = [queued EXCEPT ![t] = @ - 1] /\ queued[t] > 0 /\ queued[t] \in {0, 1}
    BY <1>0 DEF ClaimDequeue, Dequeuable, Moves, IInv, OneHolder
  <1>2. \A q \in Procs : ~Holds(q, t)
    BY <1>1 DEF IInv, OneHolder
  <1>3. CountOf(p)' /\ handed[t] <= retries[t]
    BY <1>0, <1>1 DEF CountOf, Tracked, Counted
  <1>4. \A q \in Procs \ {p} : Busy(q, t, {"try_save"}) =>
          \/ handed'[t] <= snap[q] + 1
          \/ MaxRetries <= 1 /\ retries'[t] = 1 /\ status'[t] \notin {"none", "partial"}
    BY <1>1 DEF Tracked, Counted, CountOf, Busy
  <1>5. MaxRetries <= 1 \/ AloneAt(t)'
    <2>1. Alone => \A q \in Procs : ~Busy(q, t, {"try_save"})
      BY <1>1 DEF Alone, AloneAt
    <2> QED
      BY <1>0, <1>1, <2>1 DEF Tracked, AloneAt, Busy, Moves
  <1>6. \A u \in Tasks \ {t} : queued'[u] = queued[u]
    BY <1>0, <1>1
  <1>8. \A u \in Tasks \ {t} : /\ status'[u] = status[u] /\ retries'[u] = retries[u]
                                   /\ handed'[u] = handed[u] /\ queued'[u] = queued[u]
    BY <1>0, <1>1
  <1>9. pc'[p] \in UndoPcs => status'[task'[p]] \in {"pending", "cancelled", "timeout"}
    BY <1>0, <1>1 DEF UndoPcs
  <1> QED
    BY <1>0, <1>1, <1>2, <1>3, <1>4, <1>5, <1>6, <1>8, <1>9, LoudTracked

\* The task is handed over once for the attempt its record counts.
LEMMA ClaimGetTracked ==
  ASSUME IInv, Setting, Tracked, NEW p \in Consumers, ClaimGet(p)
  PROVE  Tracked'
  <1>0. /\ pc \in [Procs -> Pcs] /\ task \in [Procs -> Tasks \cup {NULL}]
        /\ status \in [Tasks -> StoredStatuses] /\ queued \in [Tasks -> Nat]
        /\ out \in [Procs -> Statuses \cup {NULL}] /\ snap \in [Procs -> 0 .. MaxRetries]
        /\ retries \in [Tasks -> 0 .. MaxRetries] /\ handed \in [Tasks -> Nat]
        /\ Store = "redis" /\ p \in Procs /\ p \notin Producers /\ p \notin Reapers
        /\ pc[p] # "idle" => task[p] \in Tasks
        /\ pc[p] \in RetryPcs => snap[p] < MaxRetries
    BY DEF IInv, TypeOK, Setting, Locals
  <1>t. PICK t \in Tasks : task[p] = t
    BY <1>0 DEF ClaimGet
  <1>1. t \in Tasks /\ status[t] \notin {"none", "partial"} /\ Holds(p, t)
    BY <1>t, <1>0 DEF ClaimGet, IInv, StatusKnown, Holds
  <1>2. /\ Moves(p) /\ task'[p] = t /\ pc'[p] = "exec"
        /\ UNCHANGED <<status, retries, queued>> /\ handed' = [handed EXCEPT ![t] = @ + 1]
    BY <1>t, <1>0, <1>1 DEF ClaimGet, Moves
  <1>3. /\ \A q \in Procs \ {p} : ~Holds(q, t)
        /\ queued[t] = 0
        /\ (Alone => \A q \in Procs : ~Busy(q, t, {"try_save"}))
    BY <1>t, <1>1, HolderIsAlone
  <1>4. handed[t] <= retries[t]
    BY <1>t DEF CountOf, Tracked, Counted, ClaimGet
  <1>5. CountOf(p)'
    BY <1>t, <1>0, <1>1, <1>2, <1>4 DEF CountOf
  <1>6. \A q \in Procs \ {p} : Busy(q, t, {"try_save"}) =>
          \/ handed'[t] <= snap[q] + 1
          \/ MaxRetries <= 1 /\ retries'[t] = 1 /\ status'[t] \notin {"none", "partial"}
    <2> TAKE q \in Procs \ {p}
    <2> HAVE Busy(q, t, {"try_save"})
    <2>1. MaxRetries <= 1
      BY <1>t, <1>3 DEF Tracked
    <2>2. handed'[t] <= retries[t] + 1 /\ retries[t] \in {0, 1} /\ snap[q] \in Nat /\ handed[t] \in Nat
      BY <1>t, <1>0, <1>1, <1>2, <1>4, <2>1
    <2> QED
      BY <1>t, <1>1, <1>2, <2>1, <2>2
  <1>7. MaxRetries <= 1 \/ AloneAt(t)'
    BY <1>t, <1>0, <1>2, <1>3, StaysAlone
  <1>8. \A u \in Tasks \ {t} : /\ status'[u] = status[u] /\ retries'[u] = retries[u]
                                   /\ handed'[u] = handed[u] /\ queued'[u] = queued[u]
    BY <1>t, <1>0, <1>1, <1>2
  <1>9. pc'[p] \in UndoPcs => status'[task'[p]] \in {"pending", "cancelled", "timeout"}
    BY <1>t, <1>0, <1>1, <1>2 DEF UndoPcs
  <1> QED
    BY <1>t, <1>0, <1>1, <1>2, <1>3, <1>5, <1>6, <1>7, <1>8, <1>9, LoudTracked

\* The copy of the task remembers the attempts of the record that is deleted.
LEMMA RetryDeleteTracked ==
  ASSUME IInv, Setting, Tracked, NEW p \in Consumers, RetryDelete(p)
  PROVE  Tracked'
  <1>0. /\ pc \in [Procs -> Pcs] /\ task \in [Procs -> Tasks \cup {NULL}]
        /\ status \in [Tasks -> StoredStatuses] /\ queued \in [Tasks -> Nat]
        /\ out \in [Procs -> Statuses \cup {NULL}] /\ snap \in [Procs -> 0 .. MaxRetries]
        /\ retries \in [Tasks -> 0 .. MaxRetries] /\ handed \in [Tasks -> Nat]
        /\ Store = "redis" /\ p \in Procs /\ p \notin Producers /\ p \notin Reapers
        /\ pc[p] # "idle" => task[p] \in Tasks
        /\ pc[p] \in RetryPcs => snap[p] < MaxRetries
    BY DEF IInv, TypeOK, Setting, Locals
  <1>t. PICK t \in Tasks : task[p] = t
    BY <1>0 DEF RetryDelete
  <1>1. /\ t \in Tasks /\ Moves(p) /\ task'[p] = t /\ pc'[p] = "try_save" /\ snap'[p] = snap[p]
        /\ status' = [status EXCEPT ![t] = "none"] /\ retries' = [retries EXCEPT ![t] = 0]
        /\ UNCHANGED <<handed, queued>> /\ Holds(p, t)
    BY <1>t, <1>0 DEF RetryDelete, DeleteRecord, Moves, Holds
  <1>2. /\ \A q \in Procs \ {p} : ~Holds(q, t)
        /\ queued[t] = 0
        /\ (Alone => \A q \in Procs : ~Busy(q, t, {"try_save"}))
    BY <1>t, <1>1, HolderIsAlone
  <1>3. handed[t] <= snap[p] + 1 /\ retries[t] = snap[p] /\ snap[p] < MaxRetries
    BY <1>t, <1>0 DEF CountOf, Tracked, Counted, RetryDelete
  <1>4. CountOf(p)'
    BY <1>t, <1>0, <1>1, <1>3 DEF CountOf
  <1>5. \A q \in Procs \ {p} : Busy(q, t, {"try_save"}) => handed'[t] <= snap[q] + 1
    BY <1>t, <1>0, <1>1, <1>3 DEF Tracked, Counted, CountOf, Busy
  <1>6. MaxRetries <= 1 \/ AloneAt(t)'
    <2>1. \A q \in Procs : ~Holds(q, t)'
      BY <1>t, <1>1, <1>2 DEF Holds, Moves
    <2> QED
      BY <1>t, <1>0, <1>1, <1>2, <2>1 DEF Tracked, AloneAt, Busy, Moves
  <1>8. \A u \in Tasks \ {t} : /\ status'[u] = status[u] /\ retries'[u] = retries[u]
                                   /\ handed'[u] = handed[u] /\ queued'[u] = queued[u]
    BY <1>t, <1>0, <1>1
  <1>9. pc'[p] \in UndoPcs => status'[task'[p]] \in {"pending", "cancelled", "timeout"}
    BY <1>t, <1>0, <1>1 DEF UndoPcs
  <1> QED
    BY <1>t, <1>0, <1>1, <1>2, <1>4, <1>5, <1>6, <1>8, <1>9, LoudTracked

\* A retry goes on with its copy when an operation fails.
LEMMA RetryStepFailsTracked ==
  ASSUME IInv, Setting, Tracked, NEW p \in Consumers, RetryStepFails(p)
  PROVE  Tracked'
  <1>0. /\ pc \in [Procs -> Pcs] /\ task \in [Procs -> Tasks \cup {NULL}]
        /\ status \in [Tasks -> StoredStatuses] /\ queued \in [Tasks -> Nat]
        /\ out \in [Procs -> Statuses \cup {NULL}] /\ snap \in [Procs -> 0 .. MaxRetries]
        /\ retries \in [Tasks -> 0 .. MaxRetries] /\ handed \in [Tasks -> Nat]
        /\ Store = "redis" /\ p \in Procs /\ p \notin Producers /\ p \notin Reapers
        /\ pc[p] # "idle" => task[p] \in Tasks
        /\ pc[p] \in RetryPcs => snap[p] < MaxRetries
    BY DEF IInv, TypeOK, Setting, Locals
  <1>t. PICK t \in Tasks : task[p] = t
    BY <1>0 DEF RetryStepFails
  <1>1. /\ t \in Tasks /\ Moves(p) /\ task'[p] = t /\ snap'[p] = snap[p]
        /\ UNCHANGED <<status, retries, handed, queued>> /\ Holds(p, t)
    BY <1>t, <1>0 DEF RetryStepFails, Failure, Moves, Holds
  <1>2. /\ \A q \in Procs \ {p} : ~Holds(q, t)
        /\ queued[t] = 0
        /\ (Alone => \A q \in Procs : ~Busy(q, t, {"try_save"}))
    BY <1>t, <1>1, HolderIsAlone
  <1>3. retries[t] = snap[p] /\ handed[t] <= snap[p] + 1 /\ pc'[p] \in {"try_update", "try_save"}
    BY <1>t, <1>0 DEF CountOf, Tracked, Counted, RetryStepFails
  <1>4. CountOf(p)'
    BY <1>t, <1>0, <1>1, <1>3 DEF CountOf
  <1>5. \A q \in Procs \ {p} : Busy(q, t, {"try_save"}) =>
          \/ handed'[t] <= snap[q] + 1
          \/ MaxRetries <= 1 /\ retries'[t] = 1 /\ status'[t] \notin {"none", "partial"}
    BY <1>t, <1>1 DEF Tracked, Counted, CountOf, Busy
  <1>6. MaxRetries <= 1 \/ AloneAt(t)'
    <2>1. CASE pc'[p] = "try_update"
      BY <1>t, <1>1, <1>2, <2>1 DEF Tracked, AloneAt, Busy, Moves
    <2>2. CASE pc'[p] = "try_save"
      <3>1. status[t] \in {"failed", "timeout"}
        BY <1>t, <1>0, <2>2 DEF RetryStepFails, IInv, StatusKnown
      <3>2. \A q \in Procs : ~Holds(q, t)'
        BY <1>t, <1>1, <1>2, <2>2 DEF Holds, Moves
      <3> QED
        BY <1>t, <1>1, <1>2, <3>1, <3>2 DEF Tracked, AloneAt, Busy, Moves
    <2> QED
      BY <1>t, <1>3, <2>1, <2>2
  <1>8. \A u \in Tasks \ {t} : /\ status'[u] = status[u] /\ retries'[u] = retries[u]
                                   /\ handed'[u] = handed[u] /\ queued'[u] = queued[u]
    BY <1>t, <1>0, <1>1
  <1>9. pc'[p] \in UndoPcs => status'[task'[p]] \in {"pending", "cancelled", "timeout"}
    BY <1>t, <1>0, <1>1, <1>3 DEF UndoPcs
  <1> QED
    BY <1>t, <1>0, <1>1, <1>2, <1>3, <1>4, <1>5, <1>6, <1>8, <1>9, LoudTracked

\* A retry that finds no record creates it, another ends.
LEMMA RetrySaveTracked ==
  ASSUME IInv, Setting, Tracked, NEW p \in Consumers, RetrySave(p)
  PROVE  Tracked'
  <1>0. /\ pc \in [Procs -> Pcs] /\ task \in [Procs -> Tasks \cup {NULL}]
        /\ status \in [Tasks -> StoredStatuses] /\ queued \in [Tasks -> Nat]
        /\ out \in [Procs -> Statuses \cup {NULL}] /\ snap \in [Procs -> 0 .. MaxRetries]
        /\ retries \in [Tasks -> 0 .. MaxRetries] /\ handed \in [Tasks -> Nat]
        /\ Store = "redis" /\ p \in Procs /\ p \notin Producers /\ p \notin Reapers
        /\ pc[p] # "idle" => task[p] \in Tasks
        /\ pc[p] \in RetryPcs => snap[p] < MaxRetries
    BY DEF IInv, TypeOK, Setting, Locals
  <1>1. CASE status[task[p]] # "none"
    <2>1. Quiet(p) /\ CountOf(p)'
      BY <1>0, <1>1 DEF RetrySave, Save, Quiet, Moves, Holds, CountOf, UndoPcs
    <2> QED
      BY <1>0, <2>1, QuietTracked
  <1>2. CASE status[task[p]] = "none"
    <2>t. PICK t \in Tasks : task[p] = t
      BY <1>0 DEF RetrySave
    <2>1. /\ t \in Tasks /\ Moves(p) /\ task'[p] = t /\ pc'[p] = "try_fill" /\ snap'[p] = snap[p]
          /\ status' = [status EXCEPT ![t] = "partial"] /\ UNCHANGED <<retries, handed, queued>>
          /\ Busy(p, t, {"try_save"})
      BY <2>t, <1>0, <1>2 DEF RetrySave, Save, Moves, Busy
    <2>2. queued[t] = 0 /\ \A q \in Procs : ~Holds(q, t)
      BY <2>t, <1>2, <2>1 DEF IInv, OneHolder
    <2>3. \A q \in Procs : Busy(q, t, {"try_save"}) => handed[t] <= snap[q] + 1
      BY <2>t, <1>2 DEF Tracked, Counted, CountOf, Busy
    <2>4. CountOf(p)'
      BY <2>t, <1>0, <2>1, <2>3 DEF CountOf
    <2>5. Alone => \A q \in Procs : Busy(q, t, {"try_save"}) => q = p
      BY <2>t, <2>1 DEF Alone, AloneAt
    <2>6. MaxRetries <= 1 \/ AloneAt(t)'
      BY <2>t, <2>1, <2>5 DEF Tracked, AloneAt, Busy, Moves
    <2>8. \A u \in Tasks \ {t} : /\ status'[u] = status[u] /\ retries'[u] = retries[u]
                                     /\ handed'[u] = handed[u] /\ queued'[u] = queued[u]
      BY <2>t, <1>0, <2>1
    <2>9. pc'[p] \in UndoPcs => status'[task'[p]] \in {"pending", "cancelled", "timeout"}
      BY <2>t, <1>0, <2>1 DEF UndoPcs
    <2> QED
      BY <2>t, <1>0, <2>1, <2>2, <2>3, <2>4, <2>6, <2>8, <2>9, LoudTracked
  <1> QED
    BY <1>1, <1>2

\* The new record counts the attempt that failed.
LEMMA RetryFillTracked ==
  ASSUME IInv, Setting, Tracked, NEW p \in Consumers, RetryFill(p)
  PROVE  Tracked'
  <1>0. /\ pc \in [Procs -> Pcs] /\ task \in [Procs -> Tasks \cup {NULL}]
        /\ status \in [Tasks -> StoredStatuses] /\ queued \in [Tasks -> Nat]
        /\ out \in [Procs -> Statuses \cup {NULL}] /\ snap \in [Procs -> 0 .. MaxRetries]
        /\ retries \in [Tasks -> 0 .. MaxRetries] /\ handed \in [Tasks -> Nat]
        /\ Store = "redis" /\ p \in Procs /\ p \notin Producers /\ p \notin Reapers
        /\ pc[p] # "idle" => task[p] \in Tasks
        /\ pc[p] \in RetryPcs => snap[p] < MaxRetries
    BY DEF IInv, TypeOK, Setting, Locals
  <1>t. PICK t \in Tasks : task[p] = t
    BY <1>0 DEF RetryFill
  <1>1. /\ t \in Tasks /\ Moves(p) /\ task'[p] = t /\ pc'[p] = "try_enqueue"
        /\ status' = [status EXCEPT ![t] = "pending"] /\ retries' = [retries EXCEPT ![t] = snap[p] + 1]
        /\ UNCHANGED <<handed, queued>> /\ Holds(p, t) /\ status[t] = "partial"
    BY <1>t, <1>0 DEF RetryFill, WriteRecord, Moves, Holds, IInv, StatusKnown
  <1>2. /\ \A q \in Procs \ {p} : ~Holds(q, t)
        /\ queued[t] = 0
        /\ (Alone => \A q \in Procs : ~Busy(q, t, {"try_save"}))
    BY <1>t, <1>1, HolderIsAlone
  <1>3. handed[t] <= snap[p] + 1
    BY <1>t DEF CountOf, Tracked, Counted, RetryFill
  <1>4. CountOf(p)'
    BY <1>t, <1>0, <1>1, <1>3 DEF CountOf
  <1>5. \A q \in Procs \ {p} : Busy(q, t, {"try_save"}) => handed'[t] <= snap[q] + 1
    BY <1>t, <1>1 DEF Tracked, Counted, CountOf, Busy
  <1>6. MaxRetries <= 1 \/ AloneAt(t)'
    BY <1>t, <1>0, <1>1, <1>2, StaysAlone
  <1>8. \A u \in Tasks \ {t} : /\ status'[u] = status[u] /\ retries'[u] = retries[u]
                                   /\ handed'[u] = handed[u] /\ queued'[u] = queued[u]
    BY <1>t, <1>0, <1>1
  <1>9. pc'[p] \in UndoPcs => status'[task'[p]] \in {"pending", "cancelled", "timeout"}
    BY <1>t, <1>0, <1>1 DEF UndoPcs
  <1> QED
    BY <1>t, <1>0, <1>1, <1>2, <1>4, <1>5, <1>6, <1>8, <1>9, LoudTracked

\* The queue takes the task over from the retry, with one attempt to come.
LEMMA RetryEnqueueTracked ==
  ASSUME IInv, Setting, Tracked, NEW p \in Consumers, RetryEnqueue(p)
  PROVE  Tracked'
  <1>0. /\ pc \in [Procs -> Pcs] /\ task \in [Procs -> Tasks \cup {NULL}]
        /\ status \in [Tasks -> StoredStatuses] /\ queued \in [Tasks -> Nat]
        /\ out \in [Procs -> Statuses \cup {NULL}] /\ snap \in [Procs -> 0 .. MaxRetries]
        /\ retries \in [Tasks -> 0 .. MaxRetries] /\ handed \in [Tasks -> Nat]
        /\ Store = "redis" /\ p \in Procs /\ p \notin Producers /\ p \notin Reapers
        /\ pc[p] # "idle" => task[p] \in Tasks
        /\ pc[p] \in RetryPcs => snap[p] < MaxRetries
    BY DEF IInv, TypeOK, Setting, Locals
  <1>t. PICK t \in Tasks : task[p] = t
    BY <1>0 DEF RetryEnqueue
  <1>1. /\ t \in Tasks /\ Moves(p) /\ task'[p] = NULL /\ pc'[p] = "idle"
        /\ UNCHANGED <<status, retries, handed>>
        /\ queued' = [queued EXCEPT ![t] = @ + 1] /\ Holds(p, t)
    BY <1>t, <1>0, ReturnsOnce DEF RetryEnqueue, Moves, Holds
  <1>2. /\ \A q \in Procs \ {p} : ~Holds(q, t)
        /\ (Alone => \A q \in Procs : ~Busy(q, t, {"try_save"}))
    BY <1>t, <1>1, HolderIsAlone
  <1>3. CountOf(p)' /\ handed[t] <= retries[t]
    BY <1>t, <1>0, <1>1 DEF CountOf, Tracked, Counted, RetryEnqueue
  <1>4. \A q \in Procs \ {p} : Busy(q, t, {"try_save"}) =>
          \/ handed'[t] <= snap[q] + 1
          \/ MaxRetries <= 1 /\ retries'[t] = 1 /\ status'[t] \notin {"none", "partial"}
    BY <1>t, <1>1 DEF Tracked, Counted, CountOf, Busy
  <1>5. MaxRetries <= 1 \/ AloneAt(t)'
    BY <1>t, <1>0, <1>1, <1>2, StaysAlone
  <1>8. \A u \in Tasks \ {t} : /\ status'[u] = status[u] /\ retries'[u] = retries[u]
                                   /\ handed'[u] = handed[u] /\ queued'[u] = queued[u]
    BY <1>t, <1>0, <1>1
  <1>9. pc'[p] \in UndoPcs => status'[task'[p]] \in {"pending", "cancelled", "timeout"}
    BY <1>t, <1>0, <1>1 DEF UndoPcs
  <1> QED
    BY <1>t, <1>0, <1>1, <1>2, <1>3, <1>4, <1>5, <1>8, <1>9, LoudTracked

\* A call that cannot write its record holds the task no longer.
LEMMA FillFailsTracked ==
  ASSUME IInv, Setting, Tracked, NEW p \in Procs, p \notin Reapers, FillFails(p)
  PROVE  Tracked'
  <1>0. /\ pc \in [Procs -> Pcs] /\ task \in [Procs -> Tasks \cup {NULL}]
        /\ status \in [Tasks -> StoredStatuses] /\ queued \in [Tasks -> Nat]
        /\ out \in [Procs -> Statuses \cup {NULL}] /\ snap \in [Procs -> 0 .. MaxRetries]
        /\ retries \in [Tasks -> 0 .. MaxRetries] /\ handed \in [Tasks -> Nat]
        /\ Store = "redis" /\ p \in Procs
        /\ pc[p] # "idle" => task[p] \in Tasks
        /\ pc[p] \in RetryPcs => snap[p] < MaxRetries
    BY DEF IInv, TypeOK, Setting, Locals
  <1>t. PICK t \in Tasks : task[p] = t
    BY <1>0 DEF FillFails
  <1>1. /\ t \in Tasks /\ Moves(p) /\ task'[p] = NULL /\ pc'[p] = "idle"
        /\ status' = [status EXCEPT ![t] = "none"]
        /\ UNCHANGED <<retries, handed, queued>> /\ Holds(p, t) /\ status[t] = "partial"
    BY <1>t, <1>0 DEF FillFails, Moves, Holds, IInv, StatusKnown
  <1>2. /\ \A q \in Procs \ {p} : ~Holds(q, t)
        /\ queued[t] = 0
        /\ (Alone => \A q \in Procs : ~Busy(q, t, {"try_save"}))
    BY <1>t, <1>1, HolderIsAlone
  <1>3. CountOf(p)'
    BY <1>t, <1>0, <1>1 DEF CountOf
  <1>4. \A q \in Procs \ {p} : Busy(q, t, {"try_save"}) => handed'[t] <= snap[q] + 1
    BY <1>t, <1>1 DEF Tracked, Counted, CountOf, Busy
  <1>5. MaxRetries <= 1 \/ AloneAt(t)'
    BY <1>t, <1>0, <1>1, <1>2, StaysAlone
  <1>8. \A u \in Tasks \ {t} : /\ status'[u] = status[u] /\ retries'[u] = retries[u]
                                   /\ handed'[u] = handed[u] /\ queued'[u] = queued[u]
    BY <1>t, <1>0, <1>1
  <1>9. pc'[p] \in UndoPcs => status'[task'[p]] \in {"pending", "cancelled", "timeout"}
    BY <1>t, <1>0, <1>1 DEF UndoPcs
  <1> QED
    BY <1>t, <1>0, <1>1, <1>2, <1>3, <1>4, <1>5, <1>8, <1>9, LoudTracked

\* No call is under way in the initial states.
LEMMA TrackedInit == Init => Tracked
  BY DEF Init, Tracked, Unstarted, Counted, CountOf, Alone, AloneAt, Busy, UndoPcs

\* Tracked is about the variables of the engine only.
LEMMA TrackedStutter ==
  ASSUME Tracked, UNCHANGED vars
  PROVE  Tracked'
  BY DEF vars, Tracked, Unstarted, Counted, CountOf, Alone, AloneAt, Busy, Holds

\* Tracked is inductive as long as no submission meets a retry.
LEMMA TrackedNext ==
  ASSUME IInv, Setting, Tracked, (MaxRetries <= 1 \/ NotOvertaken)', [Next]_vars
  PROVE  Tracked'
  <1>q. ASSUME NEW p \in Procs, Quiet(p) /\ CountOf(p)' PROVE Tracked'
    BY <1>q, QuietTracked
  <1>1. ASSUME NEW p \in Producers,
               \/ \E t \in Tasks : SubmitCheck(p, t) \/ CancelCheck(p, t)
               \/ SubmitStep(p) \/ CancelStep(p)
        PROVE  Tracked'
    <2>1. CASE SubmitSave(p) \/ SubmitFill(p) \/ SubmitEnqueue(p) \/ UndoDelete(p)
      BY <2>1, SubmitSaveTracked, SubmitFillTracked, SubmitEnqueueTracked, UndoDeleteTracked
    <2> QED
      BY <1>1, <1>q, <2>1, QuietProducer DEF SubmitStep
  <1>2. ASSUME NEW c \in Consumers,
               \/ \E t \in Tasks : ClaimDequeue(c, t)
               \/ \E o \in Outcomes : Finish(c, o)
               \/ ClaimStep(c)
        PROVE  Tracked'
    <2>1. CASE ClaimGet(c) \/ \E t \in Tasks : ClaimDequeue(c, t)
      BY <2>1, ClaimGetTracked, ClaimDequeueTracked
    <2> QED
      BY <1>2, <1>q, <2>1, QuietClaim DEF ClaimStep
  <1>3. ASSUME NEW p \in Consumers \cup Reapers, ReportStep(p)
        PROVE  Tracked'
    BY <1>3, <1>q, QuietReport
  <1>4. ASSUME NEW c \in Consumers, RetryStep(c)
        PROVE  Tracked'
    <2>1. CASE RetryDelete(c) \/ RetrySave(c) \/ RetryFill(c) \/ RetryEnqueue(c)
      BY <2>1, RetryDeleteTracked, RetrySaveTracked, RetryFillTracked, RetryEnqueueTracked
    <2> QED
      BY <1>4, <1>q, <2>1, QuietRetry DEF RetryStep
  <1>5. ASSUME NEW r \in Reapers, Scan(r) \/ \E t \in Tasks : ReapCheck(r, t)
        PROVE  Tracked'
    BY <1>5, <1>q, QuietReaper
  <1>6. ASSUME NEW p \in Procs, FaultStep(p)
        PROVE  Tracked'
    <2>1. CASE SubmitEnqueueFails(p)
      <3>1. p \in Producers
        BY <2>1 DEF IInv, Roles, SubmitEnqueueFails
      <3> QED
        BY <1>q, <2>1, <3>1, QuietProducer
    <2>2. CASE RetryStepFails(p)
      <3>1. p \in Consumers
        BY <2>2 DEF IInv, Roles, RetryStepFails
      <3> QED
        BY <2>2, <3>1, RetryStepFailsTracked
    <2>3. CASE FillFails(p)
      <3>1. p \notin Reapers
        BY <2>3 DEF IInv, Roles, FillFails
      <3> QED
        BY <2>3, <3>1, FillFailsTracked
    <2>4. CASE Abort(p) \/ IndexFails(p)
      BY <1>q, <2>4, QuietReaper
    <2> QED
      BY <1>6, <2>1, <2>2, <2>3, <2>4 DEF FaultStep
  <1> QED
    BY <1>1, <1>2, <1>3, <1>4, <1>5, <1>6, TrackedStutter DEF Next

(***************************************************************************)
(* The refinement, step by step.                                             *)
(***************************************************************************)

Workers(t) == {c \in Consumers : Busy(c, t, {"exec"})}

\* The points of a call that the stages and the workers tell apart.
SeenPcs == {"exec", "try_save", "try_fill"}

Step == Lifecycle!Next \/ UNCHANGED Lifecycle!vars

\* A step with which p neither reaches nor leaves such a point, and that touches the
\* record of t alone.
LEMMA Unseen ==
  ASSUME NEW p \in Procs, Moves(p), pc[p] \notin SeenPcs, pc'[p] \notin SeenPcs
  PROVE  \A u \in Tasks : /\ Workers(u)' = Workers(u)
                          /\ BeingRetried(u)' <=> BeingRetried(u)
                          /\ status'[u] = status[u] => StageOf(u)' = StageOf(u)
  <1> USE DEF SeenPcs
  <1>1. ASSUME NEW u \in Tasks, NEW q \in Procs, NEW l \in SeenPcs
        PROVE  Busy(q, u, {l})' <=> Busy(q, u, {l})
    BY DEF Moves, Busy
  <1>2. ASSUME NEW u \in Tasks PROVE BeingRetried(u)' <=> BeingRetried(u)
    BY <1>1 DEF BeingRetried, Busy
  <1>3. ASSUME NEW u \in Tasks PROVE Workers(u)' = Workers(u)
    BY <1>1 DEF Workers
  <1>4. ASSUME NEW u \in Tasks, status'[u] = status[u] PROVE StageOf(u)' = StageOf(u)
    BY <1>2, <1>4 DEF StageOf
  <1> QED
    BY <1>2, <1>3, <1>4

\* Steps that leave the records, and those points, alone stutter.
LEMMA Stutters ==
  ASSUME handed' = handed,
         \A u \in Tasks : StageOf(u)' = StageOf(u) /\ Workers(u)' = Workers(u)
  PROVE  Step
  <1>1. [t \in Tasks |-> StageOf(t)]' = [t \in Tasks |-> StageOf(t)]
    OBVIOUS
  <1>2. [t \in Tasks |-> Workers(t)]' = [t \in Tasks |-> Workers(t)]
    OBVIOUS
  <1> QED
    BY <1>1, <1>2 DEF Step, Lifecycle!vars, Workers

\* How a change of one stage reads in the abstract specification.
LEMMA StageBecomes ==
  ASSUME NEW t \in Tasks, NEW s, StageOf(t)' = s,
         \A u \in Tasks \ {t} : StageOf(u)' = StageOf(u)
  PROVE  Lifecycle!Becomes(t, s)
  BY DEF Lifecycle!Becomes

\* The mapped workers are the same if each task has the same ones.
LEMMA SameWorkers ==
  ASSUME \A u \in Tasks : Workers(u)' = Workers(u)
  PROVE  [t \in Tasks |-> {c \in Consumers : Busy(c, t, {"exec"})}]'
           = [t \in Tasks |-> {c \in Consumers : Busy(c, t, {"exec"})}]
  BY DEF Workers

\* A task that nobody holds, or a call that does not execute it, is idle.
LEMMA IdleWhenHeld ==
  ASSUME IInv, NEW t \in Tasks,
         \/ \E p \in Procs : Holds(p, t) /\ pc[p] # "exec"
         \/ status[t] \in {"none", "partial"}
  PROVE  Lifecycle!Idle(t)
  <1>1. ASSUME NEW c \in Consumers, Busy(c, t, {"exec"}) PROVE FALSE
    <2>1. Holds(c, t) /\ status[t] \notin {"none", "partial"}
      BY <1>1 DEF Busy, Holds, IInv, StatusKnown
    <2> QED
      BY <1>1, <2>1 DEF IInv, OneHolder, Busy
  <1> QED
    BY <1>1 DEF Lifecycle!Idle

\* A step that the mapped variables do not show is no step of the abstract specification.
LEMMA UnseenStutters ==
  ASSUME NEW p \in Procs, Moves(p), pc[p] \notin SeenPcs, pc'[p] \notin SeenPcs,
         handed' = handed, \A u \in Tasks : status'[u] = status[u]
  PROVE  Step
  BY Unseen, Stutters

\* Steps that change the status of one task, and nothing else one can see.
LEMMA UnseenBecomes ==
  ASSUME NEW p \in Procs, Moves(p), pc[p] \notin SeenPcs, pc'[p] \notin SeenPcs,
         NEW t \in Tasks, \A u \in Tasks \ {t} : status'[u] = status[u],
         NEW s, StageOf(t)' = s
  PROVE  /\ Lifecycle!Becomes(t, s)
         /\ [u \in Tasks |-> {c \in Consumers : Busy(c, u, {"exec"})}]'
              = [u \in Tasks |-> {c \in Consumers : Busy(c, u, {"exec"})}]
         /\ BeingRetried(t)' <=> BeingRetried(t)
  <1>1. \A u \in Tasks : /\ Workers(u)' = Workers(u)
                         /\ BeingRetried(u)' <=> BeingRetried(u)
                         /\ status'[u] = status[u] => StageOf(u)' = StageOf(u)
    BY Unseen
  <1>2. \A u \in Tasks \ {t} : StageOf(u)' = StageOf(u)
    BY <1>1
  <1> QED
    BY <1>1, <1>2, StageBecomes, SameWorkers

\* A Submit and its rollback, and a Cancel.
LEMMA ProducerSteps ==
  ASSUME IInv, Setting, Tracked, NEW p \in Producers,
         \/ \E t \in Tasks : SubmitCheck(p, t) \/ CancelCheck(p, t)
         \/ SubmitStep(p) \/ CancelStep(p) \/ SubmitEnqueueFails(p)
  PROVE  Step
  <1> USE DEF UndoPcs
  <1>0. /\ pc \in [Procs -> Pcs] /\ task \in [Procs -> Tasks \cup {NULL}]
        /\ status \in [Tasks -> StoredStatuses]
        /\ out \in [Procs -> Statuses \cup {NULL}] /\ snap \in [Procs -> 0 .. MaxRetries]
        /\ handed \in [Tasks -> Nat]
        /\ Store = "redis" /\ p \in Procs /\ p \notin Consumers /\ p \notin Reapers
        /\ pc[p] # "idle" => task[p] \in Tasks
    BY DEF IInv, TypeOK, Setting, Locals
  <1>1. CASE \E t \in Tasks : SubmitCheck(p, t) \/ CancelCheck(p, t)
    <2>1. /\ Moves(p) /\ pc[p] \notin SeenPcs /\ pc'[p] \notin SeenPcs
          /\ handed' = handed /\ status' = status
      BY <1>0, <1>1 DEF SubmitCheck, CancelCheck, Moves, SeenPcs
    <2> QED
      BY <1>0, <2>1, UnseenStutters
  <1>2. CASE \/ SubmitEnqueue(p) \/ SubmitEnqueueFails(p) \/ UndoLookup(p)
             \/ CancelIndex(p) \/ CancelRemove(p)
    <2>1. /\ Moves(p) /\ pc[p] \notin SeenPcs /\ pc'[p] \notin SeenPcs
          /\ handed' = handed /\ status' = status
      BY <1>0, <1>2 DEF SubmitEnqueue, SubmitEnqueueFails, UndoLookup, CancelIndex, CancelRemove,
                        DeleteFrom, Moves, SeenPcs
    <2> QED
      BY <1>0, <2>1, UnseenStutters
  <1>3. CASE SubmitSave(p)
    <2>1. /\ Moves(p) /\ pc[p] \notin SeenPcs /\ pc'[p] \notin SeenPcs /\ handed' = handed
          /\ \A u \in Tasks : \/ status'[u] = status[u]
                              \/ status[u] = "none" /\ status'[u] = "partial"
      BY <1>0, <1>3 DEF SubmitSave, Save, Moves, SeenPcs
    <2>2. \A u \in Tasks : /\ Workers(u)' = Workers(u)
                           /\ BeingRetried(u)' <=> BeingRetried(u)
                           /\ status'[u] = status[u] => StageOf(u)' = StageOf(u)
      BY <1>0, <2>1, Unseen
    <2>3. \A u \in Tasks : StageOf(u)' = StageOf(u)
      BY <2>1, <2>2 DEF StageOf
    <2> QED
      BY <2>1, <2>2, <2>3, Stutters
  <1>4. CASE SubmitFill(p)
    <2>t. PICK t \in Tasks : task[p] = t
      BY <1>0, <1>4 DEF SubmitFill
    <2>1. /\ Moves(p) /\ pc[p] \notin SeenPcs /\ pc'[p] \notin SeenPcs
          /\ status' = [status EXCEPT ![t] = "pending"] /\ handed' = [handed EXCEPT ![t] = 0]
      BY <1>0, <1>4, <2>t DEF SubmitFill, WriteRecord, Moves, SeenPcs
    <2>2. status[t] = "partial"
      BY <1>0, <1>4, <2>t DEF SubmitFill, IInv, StatusKnown
    <2>3. StageOf(t) \in {"absent", "unsuccessful"} /\ StageOf(t)' = "waiting"
      BY <1>0, <2>1, <2>2 DEF StageOf
    <2>4. Lifecycle!Idle(t)
      BY <2>2, IdleWhenHeld
    <2>5. /\ Lifecycle!Becomes(t, "waiting")
          /\ [u \in Tasks |-> {c \in Consumers : Busy(c, u, {"exec"})}]'
               = [u \in Tasks |-> {c \in Consumers : Busy(c, u, {"exec"})}]
      BY <1>0, <2>1, <2>3, UnseenBecomes
    <2>6. Lifecycle!Submit(t)
      BY <2>1, <2>3, <2>4, <2>5 DEF Lifecycle!Submit
    <2> QED
      BY <2>6 DEF Step, Lifecycle!Next
  <1>5. CASE UndoDelete(p)
    <2>t. PICK t \in Tasks : task[p] = t
      BY <1>0, <1>5 DEF UndoDelete
    <2>1. /\ Moves(p) /\ pc[p] \notin SeenPcs /\ pc'[p] \notin SeenPcs
          /\ status' = [status EXCEPT ![t] = "none"] /\ handed' = handed
          /\ Holds(p, t) /\ pc[p] # "exec"
      BY <1>0, <1>5, <2>t DEF UndoDelete, DeleteRecord, Moves, SeenPcs, Holds
    <2>2. status[t] \in {"pending", "cancelled", "timeout"}
      BY <1>5, <2>t DEF Tracked, Unstarted, UndoDelete
    <2>3. StageOf(t)' \in {"absent", "unsuccessful"}
      BY <1>0, <2>1 DEF StageOf
    <2>4. Lifecycle!Idle(t)
      BY <1>0, <2>1, IdleWhenHeld
    <2>5. PICK s \in {"absent", "unsuccessful"} : StageOf(t)' = s
      BY <2>3
    <2>6. /\ Lifecycle!Becomes(t, s)
          /\ [u \in Tasks |-> {c \in Consumers : Busy(c, u, {"exec"})}]'
               = [u \in Tasks |-> {c \in Consumers : Busy(c, u, {"exec"})}]
      BY <1>0, <2>1, <2>5, UnseenBecomes
    <2>7. CASE status[t] \in {"pending", "cancelled"}
      <3>1. StageOf(t) \in {"waiting", "cancelled"}
        BY <2>7 DEF StageOf
      <3>2. Lifecycle!Withdraw(t)
        BY <2>1, <2>4, <2>5, <2>6, <3>1 DEF Lifecycle!Withdraw
      <3> QED
        BY <3>2 DEF Step, Lifecycle!Next
    <2>8. CASE status[t] = "timeout" /\ s = "absent"
      <3>1. StageOf(t) = "unsuccessful"
        BY <2>8 DEF StageOf
      <3>2. Lifecycle!Forget(t)
        BY <2>1, <2>4, <2>6, <2>8, <3>1 DEF Lifecycle!Forget
      <3> QED
        BY <3>2 DEF Step, Lifecycle!Next
    <2>9. CASE status[t] = "timeout" /\ s = "unsuccessful"
      <3>1. StageOf(t)' = StageOf(t)
        BY <2>5, <2>9 DEF StageOf
      <3>2. \A u \in Tasks : StageOf(u)' = StageOf(u) /\ Workers(u)' = Workers(u)
        BY <1>0, <2>1, <3>1, Unseen
      <3> QED
        BY <2>1, <3>2, Stutters
    <2> QED
      BY <2>2, <2>5, <2>7, <2>8, <2>9
  <1>6. CASE CancelUpdate(p)
    <2>t. PICK t \in Tasks : task[p] = t
      BY <1>0, <1>6 DEF CancelUpdate
    <2>1. /\ Moves(p) /\ pc[p] \notin SeenPcs /\ pc'[p] \notin SeenPcs /\ handed' = handed
      BY <1>0, <1>6, RedisAnswers DEF CancelUpdate, Transitioned, Moves, SeenPcs, Statuses
    <2>2. CASE Outcome(status[t], "cancelled") = "OK"
      <3>1. status' = [status EXCEPT ![t] = "cancelled"] /\ status[t] \in {"pending", "running"}
        BY <1>0, <1>6, <2>t, <2>2, RedisAnswers
           DEF CancelUpdate, Update, Statuses, ValidTransition
      <3>2. StageOf(t) \in {"waiting", "executing"} /\ StageOf(t)' = "cancelled"
        BY <1>0, <3>1 DEF StageOf
      <3>3. /\ Lifecycle!Becomes(t, "cancelled")
            /\ [u \in Tasks |-> {c \in Consumers : Busy(c, u, {"exec"})}]'
                 = [u \in Tasks |-> {c \in Consumers : Busy(c, u, {"exec"})}]
        BY <1>0, <2>1, <3>1, <3>2, UnseenBecomes
      <3>4. Lifecycle!Cancel(t)
        BY <2>1, <3>2, <3>3 DEF Lifecycle!Cancel
      <3> QED
        BY <3>4 DEF Step, Lifecycle!Next
    <2>3. CASE Outcome(status[t], "cancelled") # "OK"
      <3>1. status' = status
        BY <1>6, <2>t, <2>3 DEF CancelUpdate, Update
      <3> QED
        BY <1>0, <2>1, <3>1, UnseenStutters
    <2> QED
      BY <2>2, <2>3
  <1> QED
    BY <1>1, <1>2, <1>3, <1>4, <1>5, <1>6 DEF SubmitStep, CancelStep

\* What a step of p can change for the task its call is about, and for no other.
LEMMA Seen ==
  ASSUME NEW p \in Procs, Moves(p), NEW t \in Tasks,
         pc[p] \in SeenPcs => task[p] = t, pc'[p] \in SeenPcs => task'[p] = t
  PROVE  /\ \A u \in Tasks \ {t} : /\ Workers(u)' = Workers(u)
                                   /\ status'[u] = status[u] => StageOf(u)' = StageOf(u)
         /\ pc[p] # "exec" /\ pc'[p] # "exec" => Workers(t)' = Workers(t)
         /\ pc[p] \notin {"try_save", "try_fill"} /\ pc'[p] \notin {"try_save", "try_fill"}
              => (BeingRetried(t)' <=> BeingRetried(t))
  <1> USE DEF SeenPcs
  <1>1. ASSUME NEW u \in Tasks \ {t}, NEW q \in Procs, NEW l \in SeenPcs
        PROVE  Busy(q, u, {l})' <=> Busy(q, u, {l})
    BY DEF Moves, Busy
  <1>2. ASSUME NEW u \in Tasks \ {t} PROVE BeingRetried(u)' <=> BeingRetried(u)
    BY <1>1 DEF BeingRetried, Busy
  <1>3. ASSUME NEW u \in Tasks \ {t} PROVE Workers(u)' = Workers(u)
    BY <1>1 DEF Workers
  <1>4. ASSUME NEW u \in Tasks \ {t}, status'[u] = status[u] PROVE StageOf(u)' = StageOf(u)
    BY <1>2, <1>4 DEF StageOf
  <1>5. ASSUME pc[p] # "exec", pc'[p] # "exec" PROVE Workers(t)' = Workers(t)
    <2>1. \A q \in Procs : Busy(q, t, {"exec"})' <=> Busy(q, t, {"exec"})
      BY <1>5 DEF Moves, Busy
    <2> QED
      BY <2>1 DEF Workers
  <1>6. ASSUME pc[p] \notin {"try_save", "try_fill"}, pc'[p] \notin {"try_save", "try_fill"}
        PROVE  BeingRetried(t)' <=> BeingRetried(t)
    <2>1. \A q \in Procs : Busy(q, t, {"try_save", "try_fill"})' <=> Busy(q, t, {"try_save", "try_fill"})
      BY <1>6 DEF Moves, Busy
    <2> QED
      BY <2>1 DEF BeingRetried
  <1> QED
    BY <1>2, <1>3, <1>4, <1>5, <1>6

\* A consumer leaves the task it executes, to report it or because it died.
LEMMA LetsGo ==
  ASSUME NEW p \in Consumers, Moves(p), NEW t \in Tasks, task[p] = t, pc[p] = "exec",
         pc'[p] \notin SeenPcs, handed' = handed, status' = status
  PROVE  Step
  <1>1. /\ \A u \in Tasks \ {t} : StageOf(u)' = StageOf(u) /\ Workers(u)' = Workers(u)
        /\ BeingRetried(t)' <=> BeingRetried(t)
    BY Seen DEF SeenPcs
  <1>2. \A u \in Tasks : StageOf(u)' = StageOf(u)
    BY <1>1 DEF StageOf
  <1>3. p \in Workers(t) /\ Workers(t)' = Workers(t) \ {p}
    BY DEF Workers, Busy, Moves, SeenPcs
  <1>4. [u \in Tasks |-> Workers(u)]' = [[u \in Tasks |-> Workers(u)] EXCEPT ![t] = @ \ {p}]
    BY <1>1, <1>3
  <1>5. [u \in Tasks |-> StageOf(u)]' = [u \in Tasks |-> StageOf(u)]
    BY <1>2
  <1>6. Lifecycle!LetGo(t, p)
    BY <1>3, <1>4, <1>5 DEF Lifecycle!LetGo, Workers
  <1> QED
    BY <1>6 DEF Step, Lifecycle!Next

\* A consumer takes a task, is given it, and is done with it.
LEMMA ConsumerSteps ==
  ASSUME IInv, Setting, Tracked, NEW p \in Consumers,
         \/ \E t \in Tasks : ClaimDequeue(p, t)
         \/ \E o \in Outcomes : Finish(p, o)
         \/ ClaimStep(p)
  PROVE  Step
  <1>0. /\ pc \in [Procs -> Pcs] /\ task \in [Procs -> Tasks \cup {NULL}]
        /\ status \in [Tasks -> StoredStatuses]
        /\ out \in [Procs -> Statuses \cup {NULL}] /\ snap \in [Procs -> 0 .. MaxRetries]
        /\ retries \in [Tasks -> 0 .. MaxRetries] /\ handed \in [Tasks -> Nat]
        /\ Store = "redis" /\ p \in Procs /\ p \notin Producers /\ p \notin Reapers
        /\ pc[p] # "idle" => task[p] \in Tasks
    BY DEF IInv, TypeOK, Setting, Locals
  <1>1. CASE ClaimIndex(p) \/ \E t \in Tasks : ClaimDequeue(p, t)
    <2>1. /\ Moves(p) /\ pc[p] \notin SeenPcs /\ pc'[p] \notin SeenPcs
          /\ handed' = handed /\ status' = status
      BY <1>0, <1>1 DEF ClaimDequeue, ClaimIndex, Moves, SeenPcs
    <2> QED
      BY <1>0, <2>1, UnseenStutters
  <1>2. CASE ClaimUpdate(p)
    <2>t. PICK t \in Tasks : task[p] = t
      BY <1>0, <1>2 DEF ClaimUpdate
    <2>1. /\ Moves(p) /\ pc[p] \notin SeenPcs /\ pc'[p] \notin SeenPcs /\ handed' = handed
          /\ Holds(p, t) /\ pc[p] # "exec"
      BY <1>0, <1>2, <2>t, RedisAnswers
         DEF ClaimUpdate, Transitioned, Moves, SeenPcs, Statuses, Holds
    <2>2. CASE Outcome(status[t], "running") = "OK"
      <3>1. status' = [status EXCEPT ![t] = "running"] /\ status[t] = "pending"
        BY <1>0, <1>2, <2>t, <2>2 DEF ClaimUpdate, Update, Outcome, RedisOutcome, ValidTransition
      <3>2. StageOf(t) = "waiting" /\ StageOf(t)' = "executing"
        BY <1>0, <3>1 DEF StageOf
      <3>3. Lifecycle!Idle(t)
        BY <1>0, <2>1, IdleWhenHeld
      <3>4. /\ Lifecycle!Becomes(t, "executing")
            /\ [u \in Tasks |-> {c \in Consumers : Busy(c, u, {"exec"})}]'
                 = [u \in Tasks |-> {c \in Consumers : Busy(c, u, {"exec"})}]
        BY <1>0, <2>1, <3>1, <3>2, UnseenBecomes
      <3>5. Lifecycle!Begin(t)
        BY <2>1, <3>2, <3>3, <3>4 DEF Lifecycle!Begin
      <3> QED
        BY <3>5 DEF Step, Lifecycle!Next
    <2>3. CASE Outcome(status[t], "running") # "OK"
      <3>1. status' = status
        BY <1>2, <2>t, <2>3 DEF ClaimUpdate, Update
      <3> QED
        BY <1>0, <2>1, <3>1, UnseenStutters
    <2> QED
      BY <2>2, <2>3
  <1>3. CASE ClaimGet(p)
    <2>t. PICK t \in Tasks : task[p] = t
      BY <1>0, <1>3 DEF ClaimGet
    <2>0. status[t] \notin {"none", "partial", "pending"} /\ handed[t] <= retries[t]
      BY <1>0, <1>3, <2>t DEF ClaimGet, IInv, StatusKnown, Tracked, Counted, CountOf
    <2>1. /\ Moves(p) /\ pc[p] = "clm_get" /\ pc'[p] = "exec" /\ task'[p] = t
          /\ handed' = [handed EXCEPT ![t] = @ + 1] /\ status' = status /\ Holds(p, t)
      BY <1>0, <1>3, <2>t, <2>0 DEF ClaimGet, Moves, Holds
    <2>2. /\ \A u \in Tasks \ {t} : StageOf(u)' = StageOf(u) /\ Workers(u)' = Workers(u)
          /\ BeingRetried(t)' <=> BeingRetried(t)
      BY <1>0, <2>t, <2>1, Seen DEF SeenPcs
    <2>3. \A u \in Tasks : StageOf(u)' = StageOf(u)
      BY <2>1, <2>2 DEF StageOf
    <2>4. StageOf(t) \notin {"absent", "waiting"}
      BY <1>0, <2>0 DEF StageOf, StoredStatuses, Statuses
    <2>5. Lifecycle!Idle(t)
      BY <1>0, <2>1, IdleWhenHeld
    <2>6. Workers(t)' = {p}
      <3>1. Workers(t) = {}
        BY <2>5 DEF Lifecycle!Idle, Workers
      <3> QED
        BY <1>0, <2>1, <3>1 DEF Workers, Busy, Moves
    <2>7. [u \in Tasks |-> Workers(u)]' = [[u \in Tasks |-> Workers(u)] EXCEPT ![t] = {p}]
      BY <2>2, <2>6
    <2>8. handed[t] < MaxRetries + 1
      BY <1>0, <2>0
    <2>9. [u \in Tasks |-> StageOf(u)]' = [u \in Tasks |-> StageOf(u)]
      BY <2>3
    <2>10. Lifecycle!Deliver(t, p)
      BY <2>1, <2>4, <2>5, <2>7, <2>8, <2>9 DEF Lifecycle!Deliver, Workers
    <2> QED
      BY <2>10 DEF Step, Lifecycle!Next
  <1>4. ASSUME NEW o \in Outcomes, Finish(p, o) PROVE Step
    <2>t. PICK t \in Tasks : task[p] = t
      BY <1>0, <1>4 DEF Finish
    <2>1. /\ Moves(p) /\ pc[p] = "exec" /\ pc'[p] = "rep_get" /\ handed' = handed /\ status' = status
      BY <1>0, <1>4 DEF Finish, Moves
    <2> QED
      BY <1>0, <2>t, <2>1, LetsGo DEF SeenPcs
  <1> QED
    BY <1>1, <1>2, <1>3, <1>4 DEF ClaimStep

\* A failure or a timeout is recorded.
LEMMA Fails ==
  ASSUME NEW p \in Procs, Moves(p), pc[p] \notin SeenPcs, pc'[p] \notin SeenPcs,
         handed' = handed, NEW t \in Tasks, \A u \in Tasks \ {t} : status'[u] = status[u],
         StageOf(t) \in {"waiting", "executing"}, StageOf(t)' = "unsuccessful"
  PROVE  Step
  <1>1. /\ Lifecycle!Becomes(t, "unsuccessful")
        /\ [u \in Tasks |-> {c \in Consumers : Busy(c, u, {"exec"})}]'
             = [u \in Tasks |-> {c \in Consumers : Busy(c, u, {"exec"})}]
    BY UnseenBecomes
  <1>2. Lifecycle!Fail(t)
    BY <1>1 DEF Lifecycle!Fail
  <1> QED
    BY <1>2 DEF Step, Lifecycle!Next

\* A retry ends before it has written the new record: if no other retry is left, the
\* task is gone.
LEMMA Drops ==
  ASSUME IInv, NEW p \in Procs, Moves(p), NEW t \in Tasks, task[p] = t,
         pc[p] \in {"try_save", "try_fill"}, pc'[p] = "idle", handed' = handed,
         \A u \in Tasks \ {t} : status'[u] = status[u],
         \/ status'[t] = status[t]
         \/ status[t] = "partial" /\ status'[t] = "none"
  PROVE  Step
  <1>1. /\ \A u \in Tasks : Workers(u)' = Workers(u)
        /\ \A u \in Tasks \ {t} : StageOf(u)' = StageOf(u)
    BY Seen DEF SeenPcs
  <1>2. BeingRetried(t)
    BY DEF BeingRetried, Busy
  <1>3. CASE StageOf(t)' = StageOf(t)
    BY <1>1, <1>3, Stutters
  <1>4. CASE StageOf(t)' # StageOf(t)
    <2>1. status[t] \in {"none", "partial"} /\ status'[t] \in {"none", "partial"}
      BY <1>4 DEF StageOf
    <2>2. StageOf(t) = "unsuccessful" /\ StageOf(t)' = "absent"
      BY <1>2, <1>4, <2>1 DEF StageOf
    <2>3. Lifecycle!Idle(t)
      BY <2>1, IdleWhenHeld
    <2>4. Lifecycle!Becomes(t, "absent")
      BY <1>1, <2>2, StageBecomes
    <2>5. Lifecycle!Forget(t)
      BY <1>1, <2>2, <2>3, <2>4, SameWorkers DEF Lifecycle!Forget
    <2> QED
      BY <2>5 DEF Step, Lifecycle!Next
  <1> QED
    BY <1>3, <1>4

\* The report of a consumer, or of a reaper.
LEMMA ReportSteps ==
  ASSUME IInv, Setting, Tracked, NEW p \in Consumers \cup Reapers, ReportStep(p)
  PROVE  Step
  <1>0. /\ pc \in [Procs -> Pcs] /\ task \in [Procs -> Tasks \cup {NULL}]
        /\ status \in [Tasks -> StoredStatuses]
        /\ out \in [Procs -> Statuses \cup {NULL}] /\ snap \in [Procs -> 0 .. MaxRetries]
        /\ handed \in [Tasks -> Nat]
        /\ Store = "redis" /\ p \in Procs /\ p \notin Producers
        /\ pc[p] # "idle" => task[p] \in Tasks
        /\ pc[p] \in ReportPcs => out[p] \in {"success", "failed", "skipped", "timeout"}
        /\ p \in Reapers /\ pc[p] # "idle" => out[p] = "timeout"
    BY DEF IInv, TypeOK, Setting, Locals
  <1>r. ReportReturns(p) => Return(p) /\ UNCHANGED resends
    BY ReturnsOnce
  <1>1. CASE ReportGet(p) \/ ReportIndex(p) \/ ReportResult(p)
    <2>1. /\ Moves(p) /\ pc[p] \notin SeenPcs /\ pc'[p] \notin SeenPcs
          /\ handed' = handed /\ status' = status
      BY <1>0, <1>1, <1>r DEF ReportGet, ReportIndex, ReportResult, Moves, SeenPcs
    <2> QED
      BY <1>0, <2>1, UnseenStutters
  <1>2. CASE ReportUpdate(p)
    <2>t. PICK t \in Tasks : task[p] = t
      BY <1>0, <1>2 DEF ReportUpdate
    <2>o. PICK o \in {"success", "failed", "skipped", "timeout"} : out[p] = o
      BY <1>0, <1>2 DEF ReportUpdate
    <2>1. /\ Moves(p) /\ pc[p] \notin SeenPcs /\ pc'[p] \notin SeenPcs /\ handed' = handed
      <3>1. Outcome(status[t], o) \in {"OK", "SAME", "INVALID", "TERMINAL", "NOT_FOUND"}
        BY <1>0, RedisAnswers DEF Statuses
      <3> QED
        BY <1>0, <1>2, <1>r, <2>t, <2>o, <3>1 DEF ReportUpdate, Transitioned, Moves, SeenPcs
    <2>2. CASE Outcome(status[t], o) = "OK"
      <3>1. status' = [status EXCEPT ![t] = o] /\ status[t] \in {"pending", "running"}
        BY <1>0, <1>2, <2>t, <2>o, <2>2
           DEF ReportUpdate, Update, Outcome, RedisOutcome, ValidTransition
      <3>2. CASE o \in {"success", "skipped"}
        <4>1. p \in Consumers
          BY <1>0, <1>2, <2>o, <3>2 DEF ReportUpdate
        <4>2. status[t] = "running" /\ Holds(p, t) /\ pc[p] # "exec"
          BY <1>0, <1>2, <2>t, <3>1, <4>1 DEF ReportUpdate, IInv, StatusKnown, Holds
        <4>3. Lifecycle!Idle(t)
          BY <1>0, <4>2, IdleWhenHeld
        <4>4. StageOf(t) = "executing" /\ StageOf(t)' = o
          BY <1>0, <3>1, <3>2, <4>2 DEF StageOf
        <4>5. /\ Lifecycle!Becomes(t, o)
              /\ [u \in Tasks |-> {c \in Consumers : Busy(c, u, {"exec"})}]'
                   = [u \in Tasks |-> {c \in Consumers : Busy(c, u, {"exec"})}]
          BY <1>0, <2>1, <3>1, <4>4, UnseenBecomes
        <4>6. Lifecycle!Succeed(t, o)
          BY <2>1, <3>2, <4>3, <4>4, <4>5 DEF Lifecycle!Succeed
        <4> QED
          BY <3>2, <4>6 DEF Step, Lifecycle!Next
      <3>3. CASE o \in {"failed", "timeout"}
        <4>1. StageOf(t) \in {"waiting", "executing"} /\ StageOf(t)' = "unsuccessful"
          BY <1>0, <3>1, <3>3 DEF StageOf
        <4> QED
          BY <1>0, <2>1, <3>1, <4>1, Fails
      <3> QED
        BY <3>2, <3>3
    <2>3. CASE Outcome(status[t], o) # "OK"
      <3>1. status' = status
        BY <1>2, <2>t, <2>o, <2>3 DEF ReportUpdate, Update
      <3> QED
        BY <1>0, <2>1, <3>1, UnseenStutters
    <2> QED
      BY <2>2, <2>3
  <1> QED
    BY <1>1, <1>2 DEF ReportStep

\* The retry of a task: it stays unsuccessful until its new record is written.
LEMMA RetrySteps ==
  ASSUME IInv, Setting, Tracked, NEW p \in Consumers, RetryStep(p) \/ RetryStepFails(p)
  PROVE  Step
  <1>0. /\ pc \in [Procs -> Pcs] /\ task \in [Procs -> Tasks \cup {NULL}]
        /\ status \in [Tasks -> StoredStatuses]
        /\ out \in [Procs -> Statuses \cup {NULL}] /\ snap \in [Procs -> 0 .. MaxRetries]
        /\ handed \in [Tasks -> Nat]
        /\ Store = "redis" /\ p \in Procs /\ p \notin Producers /\ p \notin Reapers
        /\ pc[p] # "idle" => task[p] \in Tasks
        /\ pc[p] \in RetryPcs => snap[p] < MaxRetries
    BY DEF IInv, TypeOK, Setting, Locals
  <1>r. ReportReturns(p) => Return(p) /\ UNCHANGED resends
    BY ReturnsOnce
  <1>t. PICK t \in Tasks : task[p] = t
    BY <1>0 DEF RetryStep, RetryStepFails, RetryResult, RetryUpdate, RetryIndex, RetryLookup,
                RetryDelete, RetrySave, RetryFill, RetryEnqueue
  <1>1. CASE \/ RetryResult(p) \/ RetryIndex(p) \/ RetryLookup(p) \/ RetryEnqueue(p)
             \/ (RetryStepFails(p) /\ At(p, "try_result"))
    <2>1. At(p, "try_lookup") => status[t] \in {"failed", "timeout"}
      BY <1>0, <1>t DEF IInv, StatusKnown
    <2>2. /\ Moves(p) /\ pc[p] \notin SeenPcs /\ pc'[p] \notin SeenPcs
          /\ handed' = handed /\ status' = status
      BY <1>0, <1>1, <1>r, <1>t, <2>1
         DEF RetryResult, RetryIndex, RetryLookup, RetryEnqueue, RetryStepFails, Failure, Moves,
             SeenPcs
    <2> QED
      BY <1>0, <2>2, UnseenStutters
  <1>2. CASE RetryUpdate(p)
    <2>1. /\ Moves(p) /\ pc[p] \notin SeenPcs /\ pc'[p] \notin SeenPcs /\ handed' = handed
      <3>1. Outcome(status[t], "failed") \in {"OK", "SAME", "INVALID", "TERMINAL", "NOT_FOUND"}
        BY <1>0, RedisAnswers DEF Statuses
      <3> QED
        BY <1>0, <1>2, <1>r, <1>t, <3>1 DEF RetryUpdate, DeleteFrom, Transitioned, Moves, SeenPcs
    <2>2. CASE Outcome(status[t], "failed") = "OK"
      <3>1. status' = [status EXCEPT ![t] = "failed"] /\ status[t] \in {"pending", "running"}
        BY <1>0, <1>2, <1>t, <2>2 DEF RetryUpdate, Update, Outcome, RedisOutcome, ValidTransition
      <3>2. StageOf(t) \in {"waiting", "executing"} /\ StageOf(t)' = "unsuccessful"
        BY <1>0, <3>1 DEF StageOf
      <3> QED
        BY <1>0, <2>1, <3>1, <3>2, Fails
    <2>3. CASE Outcome(status[t], "failed") # "OK"
      <3>1. status' = status
        BY <1>2, <1>t, <2>3 DEF RetryUpdate, Update
      <3> QED
        BY <1>0, <2>1, <3>1, UnseenStutters
    <2> QED
      BY <2>2, <2>3
  <1>3. CASE RetryDelete(p) \/ (RetryStepFails(p) /\ ~At(p, "try_result"))
    <2>1. /\ Moves(p) /\ pc[p] \in {"try_lookup", "try_delete"} /\ pc'[p] = "try_save"
          /\ task'[p] = t /\ handed' = handed
          /\ \A u \in Tasks \ {t} : status'[u] = status[u]
          /\ status'[t] = "none" \/ status'[t] = status[t]
      BY <1>0, <1>3, <1>t DEF RetryDelete, RetryStepFails, Failure, DeleteRecord, Moves
    <2>2. status[t] \in {"failed", "timeout"}
      BY <1>0, <1>t, <2>1 DEF IInv, StatusKnown
    <2>3. BeingRetried(t)'
      BY <1>0, <2>1 DEF BeingRetried, Busy
    <2>4. StageOf(t)' = StageOf(t)
      BY <2>1, <2>2, <2>3 DEF StageOf
    <2>5. \A u \in Tasks : StageOf(u)' = StageOf(u) /\ Workers(u)' = Workers(u)
      BY <1>0, <1>t, <2>1, <2>4, Seen DEF SeenPcs
    <2> QED
      BY <2>1, <2>5, Stutters
  <1>4. CASE RetrySave(p)
    <2>1. CASE status[t] = "none"
      <3>1. /\ Moves(p) /\ pc[p] = "try_save" /\ pc'[p] = "try_fill" /\ task'[p] = t
            /\ handed' = handed /\ status' = [status EXCEPT ![t] = "partial"]
        BY <1>0, <1>4, <1>t, <2>1 DEF RetrySave, Save, Moves
      <3>2. BeingRetried(t) /\ BeingRetried(t)'
        BY <1>0, <1>t, <3>1 DEF BeingRetried, Busy
      <3>3. StageOf(t)' = StageOf(t)
        BY <1>0, <2>1, <3>1, <3>2 DEF StageOf
      <3>4. \A u \in Tasks : StageOf(u)' = StageOf(u) /\ Workers(u)' = Workers(u)
        BY <1>0, <1>t, <3>1, <3>3, Seen DEF SeenPcs
      <3> QED
        BY <3>1, <3>4, Stutters
    <2>2. CASE status[t] # "none"
      <3>1. /\ Moves(p) /\ pc[p] = "try_save" /\ pc'[p] = "idle"
            /\ handed' = handed /\ status' = status
        BY <1>0, <1>4, <1>t, <2>2 DEF RetrySave, Save, Moves
      <3> QED
        BY <1>0, <1>t, <3>1, Drops
    <2> QED
      BY <2>1, <2>2
  <1>5. CASE RetryFill(p)
    <2>1. /\ Moves(p) /\ pc[p] = "try_fill" /\ pc'[p] = "try_enqueue"
          /\ handed' = handed /\ status' = [status EXCEPT ![t] = "pending"]
      BY <1>0, <1>5, <1>t DEF RetryFill, WriteRecord, Moves
    <2>2. status[t] = "partial" /\ handed[t] < MaxRetries + 1
      BY <1>0, <1>t, <2>1 DEF IInv, StatusKnown, Tracked, Counted, CountOf
    <2>3. BeingRetried(t)
      BY <1>0, <1>t, <2>1 DEF BeingRetried, Busy
    <2>4. StageOf(t) = "unsuccessful" /\ StageOf(t)' = "waiting"
      BY <1>0, <2>1, <2>2, <2>3 DEF StageOf
    <2>5. Lifecycle!Idle(t)
      BY <2>2, IdleWhenHeld
    <2>6. \A u \in Tasks : Workers(u)' = Workers(u)
      BY <1>0, <1>t, <2>1, Seen DEF SeenPcs
    <2>7. \A u \in Tasks \ {t} : StageOf(u)' = StageOf(u)
      BY <1>0, <1>t, <2>1, Seen DEF SeenPcs
    <2>8. Lifecycle!Becomes(t, "waiting")
      BY <2>4, <2>7, StageBecomes
    <2>9. Lifecycle!Retry(t)
      BY <2>1, <2>2, <2>4, <2>5, <2>6, <2>8, SameWorkers DEF Lifecycle!Retry
    <2> QED
      BY <2>9 DEF Step, Lifecycle!Next
  <1> QED
    BY <1>1, <1>2, <1>3, <1>4, <1>5 DEF RetryStep

\* What can be cut short or fail, at any point of a call.
LEMMA FaultSteps ==
  ASSUME IInv, Setting, Tracked, NEW p \in Procs, Abort(p) \/ IndexFails(p) \/ FillFails(p)
  PROVE  Step
  <1>0. /\ pc \in [Procs -> Pcs] /\ task \in [Procs -> Tasks \cup {NULL}]
        /\ status \in [Tasks -> StoredStatuses]
        /\ out \in [Procs -> Statuses \cup {NULL}] /\ snap \in [Procs -> 0 .. MaxRetries]
        /\ pc[p] # "idle" => task[p] \in Tasks
        /\ pc[p] = "exec" => p \in Consumers
    BY DEF IInv, TypeOK, Setting, Locals, Roles
  <1>1. CASE IndexFails(p)
    <2>1. /\ Moves(p) /\ pc[p] \notin SeenPcs /\ pc'[p] \notin SeenPcs
          /\ handed' = handed /\ status' = status
      BY <1>0, <1>1 DEF IndexFails, Failure, Moves, SeenPcs
    <2> QED
      BY <2>1, UnseenStutters
  <1>2. CASE Abort(p)
    <2>t. PICK t \in Tasks : task[p] = t
      BY <1>0, <1>2 DEF Abort
    <2>1. Moves(p) /\ pc'[p] = "idle" /\ handed' = handed /\ status' = status
      BY <1>0, <1>2 DEF Abort, Moves
    <2>2. CASE pc[p] = "exec"
      BY <1>0, <2>t, <2>1, <2>2, LetsGo DEF SeenPcs
    <2>3. CASE pc[p] \in {"try_save", "try_fill"}
      BY <2>t, <2>1, <2>3, Drops
    <2>4. CASE pc[p] \notin SeenPcs
      BY <2>1, <2>4, UnseenStutters DEF SeenPcs
    <2> QED
      BY <2>2, <2>3, <2>4 DEF SeenPcs
  <1>3. CASE FillFails(p)
    <2>t. PICK t \in Tasks : task[p] = t
      BY <1>0, <1>3 DEF FillFails
    <2>1. /\ Moves(p) /\ pc'[p] = "idle" /\ handed' = handed
          /\ status' = [status EXCEPT ![t] = "none"] /\ pc[p] \in {"sub_fill", "try_fill"}
      BY <1>0, <1>3, <2>t DEF FillFails, Failure, Moves
    <2>2. status[t] = "partial"
      BY <2>t, <2>1 DEF IInv, StatusKnown
    <2>3. CASE pc[p] = "try_fill"
      BY <1>0, <2>t, <2>1, <2>2, <2>3, Drops
    <2>4. CASE pc[p] = "sub_fill"
      <3>1. /\ \A u \in Tasks : Workers(u)' = Workers(u)
            /\ \A u \in Tasks \ {t} : StageOf(u)' = StageOf(u)
            /\ BeingRetried(t)' <=> BeingRetried(t)
        BY <1>0, <2>t, <2>1, <2>4, Seen DEF SeenPcs
      <3>2. StageOf(t)' = StageOf(t)
        BY <1>0, <2>1, <2>2, <3>1 DEF StageOf
      <3> QED
        BY <2>1, <3>1, <3>2, Stutters
    <2> QED
      BY <2>1, <2>3, <2>4
  <1> QED
    BY <1>1, <1>2, <1>3

\* Every step of the engine is a step of the abstract specification, or none.
LEMMA NextStep ==
  ASSUME IInv, Setting, Tracked, [Next]_vars
  PROVE  Step
  <1>1. ASSUME NEW p \in Producers,
               \/ \E t \in Tasks : SubmitCheck(p, t) \/ CancelCheck(p, t)
               \/ SubmitStep(p) \/ CancelStep(p)
        PROVE  Step
    BY <1>1, ProducerSteps
  <1>2. ASSUME NEW c \in Consumers,
               \/ \E t \in Tasks : ClaimDequeue(c, t)
               \/ \E o \in Outcomes : Finish(c, o)
               \/ ClaimStep(c)
        PROVE  Step
    BY <1>2, ConsumerSteps
  <1>3. ASSUME NEW p \in Consumers \cup Reapers, ReportStep(p)
        PROVE  Step
    BY <1>3, ReportSteps
  <1>4. ASSUME NEW c \in Consumers, RetryStep(c)
        PROVE  Step
    BY <1>4, RetrySteps
  <1>5. ASSUME NEW r \in Reapers, Scan(r) \/ \E t \in Tasks : ReapCheck(r, t)
        PROVE  Step
    <2>1. /\ Moves(r) /\ pc[r] \notin SeenPcs /\ pc'[r] \notin SeenPcs
          /\ handed' = handed /\ status' = status
      BY <1>5 DEF IInv, TypeOK, Scan, ReapCheck, Moves, SeenPcs
    <2> QED
      BY <2>1, UnseenStutters
  <1>6. ASSUME NEW p \in Procs, FaultStep(p)
        PROVE  Step
    <2>1. CASE SubmitEnqueueFails(p)
      <3>1. p \in Producers
        BY <2>1 DEF IInv, Roles, SubmitEnqueueFails
      <3> QED
        BY <2>1, <3>1, ProducerSteps
    <2>2. CASE RetryStepFails(p)
      <3>1. p \in Consumers
        BY <2>2 DEF IInv, Roles, RetryStepFails
      <3> QED
        BY <2>2, <3>1, RetrySteps
    <2> QED
      BY <1>6, <2>1, <2>2, FaultSteps DEF FaultStep
  <1>7. CASE UNCHANGED vars
    <2>1. \A u \in Tasks : StageOf(u)' = StageOf(u) /\ Workers(u)' = Workers(u)
      BY <1>7 DEF vars, StageOf, Workers, BeingRetried, Busy
    <2> QED
      BY <1>7, <2>1, Stutters DEF vars
  <1> QED
    BY <1>1, <1>2, <1>3, <1>4, <1>5, <1>6, <1>7 DEF Next

\* The initial states are mapped to initial states.
LEMMA InitStep == Init => Lifecycle!Init
  <1> SUFFICES ASSUME Init PROVE Lifecycle!Init
    OBVIOUS
  <1>1. \A t \in Tasks : StageOf(t) = "absent"
    BY DEF Init, StageOf, BeingRetried, Busy
  <1>2. \A t \in Tasks : {c \in Consumers : Busy(c, t, {"exec"})} = {}
    BY DEF Init, Busy
  <1> QED
    BY <1>1, <1>2 DEF Init, Lifecycle!Init

\* The engine keeps the promises of TaskLifecycle, above all that a task is executed by
\* one consumer at a time and no more often than MaxRetries allows, for any number of
\* tasks, processes and faults.  With two retries or more it does so only as long as no
\* ID is submitted again while a retry of it is about to write its record: then two
\* retries of one attempt can follow each other.
THEOREM ImplementsLifecycleHolds ==
  ASSUME Setting
  PROVE  Spec /\ [](MaxRetries <= 1 \/ NotOvertaken) => ImplementsLifecycle
  <1>1. IInv /\ Tracked /\ [Next]_vars /\ (MaxRetries <= 1 \/ NotOvertaken)' => Tracked'
    BY TrackedNext
  <1>2. IInv /\ Tracked /\ [Next]_vars => [Lifecycle!Next]_(Lifecycle!vars)
    BY NextStep DEF Step
  <1> QED
    BY <1>1, <1>2, TrackedInit, InitStep, Invariance, PTL
       DEF Spec, ImplementsLifecycle, Lifecycle!Spec

\* With the default, no retry, or one, nothing more is needed.
COROLLARY FewRetriesImplementLifecycle ==
  ASSUME Setting, MaxRetries <= 1
  PROVE  Spec => ImplementsLifecycle
  BY ImplementsLifecycleHolds, PTL

(***************************************************************************)
(* What becomes of a task, while calls run to their end.                     *)
(***************************************************************************)

\* Pending tasks, until a call or an operation fails: nobody takes a submission back,
\* and Cancel removes the entry of a task that it has cancelled.
Reached(t) ==
  queued[t] > 0 \/ \E p \in Procs : Busy(p, t, {"sub_enqueue", "try_enqueue", "clm_update"})

Reach ==
  /\ \A t \in Tasks : status[t] = "pending" => Reached(t)
  /\ \A p \in Procs : /\ pc[p] \notin {"undo_lookup", "undo_delete"}
                      /\ pc[p] \in {"can_index", "can_remove"} => status[task[p]] = "cancelled"

\* A step keeps pending tasks in reach if it keeps those it moves and leaves the others queued.
LEMMA ReachStays ==
  ASSUME IInv, Setting, Reach, [Next]_vars, NEW p \in Procs, Moves(p),
         pc'[p] \notin {"undo_lookup", "undo_delete"},
         pc'[p] \in {"can_index", "can_remove"} => status'[task'[p]] = "cancelled",
         \A t \in Tasks : status'[t] = "pending" =>
           \/ Reached(t)'
           \/ /\ status[t] = "pending" /\ (queued[t] > 0 => queued'[t] > 0)
              /\ ~Busy(p, t, {"sub_enqueue", "try_enqueue", "clm_update"})
  PROVE  Reach'
  <1>0. \A q \in Procs : pc[q] # "idle" => task[q] \in Tasks
    BY DEF IInv, Locals
  <1>1. ASSUME NEW t \in Tasks, status'[t] = "pending" PROVE Reached(t)'
    <2> SUFFICES ASSUME status[t] = "pending", queued[t] > 0 => queued'[t] > 0,
                        ~Busy(p, t, {"sub_enqueue", "try_enqueue", "clm_update"})
                 PROVE  Reached(t)'
      BY <1>1
    <2>1. CASE queued[t] > 0
      BY <2>1 DEF Reached
    <2>2. ASSUME NEW q \in Procs, Busy(q, t, {"sub_enqueue", "try_enqueue", "clm_update"})
          PROVE  Reached(t)'
      BY <2>2 DEF Reached, Busy, Moves
    <2> QED
      BY <2>1, <2>2 DEF Reach, Reached
  <1>2. ASSUME NEW q \in Procs, pc'[q] \in {"can_index", "can_remove"}
        PROVE  status'[task'[q]] = "cancelled"
    <2>1. CASE q # p
      <3>1. /\ pc[q] \in {"can_index", "can_remove"} /\ task'[q] = task[q] /\ task[q] \in Tasks
            /\ status[task[q]] = "cancelled"
        BY <1>0, <1>2, <2>1 DEF Reach, Moves
      <3>2. ~\E r \in Producers : Busy(r, task[q], {"undo_delete"})
        BY DEF Reach, Busy
      <3> QED
        BY <3>1, <3>2, FinalStep DEF FullyTerminal
    <2> QED
      BY <1>2, <2>1
  <1>3. \A q \in Procs : pc'[q] \notin {"undo_lookup", "undo_delete"}
    BY DEF Reach, Moves
  <1> QED
    BY <1>1, <1>2, <1>3 DEF Reach

\* As long as no call is cut short and no operation fails.
LEMMA ReachNext ==
  ASSUME IInv, Setting, aborts = 0 /\ failures = 0 => Reach, [Next]_vars
  PROVE  (aborts = 0 /\ failures = 0 => Reach)'
  <1> SUFFICES ASSUME aborts' = 0, failures' = 0 PROVE Reach'
    OBVIOUS
  <1>0. /\ pc \in [Procs -> Pcs] /\ task \in [Procs -> Tasks \cup {NULL}]
        /\ status \in [Tasks -> StoredStatuses] /\ queued \in [Tasks -> Nat]
        /\ out \in [Procs -> Statuses \cup {NULL}] /\ snap \in [Procs -> 0 .. MaxRetries]
        /\ Store = "redis" /\ aborts \in Nat /\ failures \in Nat
        /\ \A p \in Procs : pc[p] # "idle" => task[p] \in Tasks
        /\ \A t \in Tasks : queued[t] \in {0, 1}
    BY DEF IInv, TypeOK, Setting, Locals, OneHolder
  <1>r. ASSUME NEW p \in Consumers \cup Reapers, ReportReturns(p)
        PROVE  Return(p) /\ UNCHANGED resends
    BY <1>r, ReturnsOnce
  <1>n. ASSUME UNCHANGED faults PROVE Reach
    BY <1>n
  <1>1. ASSUME NEW p \in Producers,
               \/ \E t \in Tasks : SubmitCheck(p, t) \/ CancelCheck(p, t)
               \/ SubmitStep(p) \/ CancelStep(p)
        PROVE  Reach'
    <2>0. Reach /\ p \in Procs
      BY <1>1, <1>n DEF SubmitCheck, CancelCheck, SubmitStep, CancelStep, SubmitSave, SubmitFill,
                        SubmitEnqueue, UndoLookup, UndoDelete, CancelUpdate, CancelIndex, CancelRemove
    <2>1. CASE \E t \in Tasks : SubmitCheck(p, t) \/ CancelCheck(p, t)
      BY <1>0, <2>0, <2>1, ReachStays DEF SubmitCheck, CancelCheck, Moves, Busy
    <2>2. CASE SubmitSave(p)
      BY <1>0, <2>0, <2>2, ReachStays DEF SubmitSave, Save, Moves, Busy
    <2>3. CASE SubmitFill(p)
      BY <1>0, <2>0, <2>3, ReachStays DEF SubmitFill, WriteRecord, Moves, Busy, Reached
    <2>4. CASE SubmitEnqueue(p)
      <3>1. Moves(p) /\ pc'[p] = "idle" /\ status' = status
        BY <1>0, <2>0, <2>4 DEF SubmitEnqueue, Moves
      <3>2. \A t \in Tasks : \/ queued'[t] > 0
                             \/ queued'[t] = queued[t] /\ ~Busy(p, t, Pcs)
        BY <1>0, <2>0, <2>4 DEF SubmitEnqueue, Busy
      <3>3. \A t \in Tasks : queued'[t] > 0 => Reached(t)'
        BY DEF Reached
      <3> QED
        BY <1>0, <2>0, <3>1, <3>2, <3>3, ReachStays DEF Busy
    <2>5. CASE UndoLookup(p) \/ UndoDelete(p)
      BY <2>0, <2>5 DEF UndoLookup, UndoDelete, Reach
    <2>6. CASE CancelUpdate(p)
      <3>1. /\ Moves(p) /\ queued' = queued /\ pc[p] = "can_update"
            /\ pc'[p] \in {"idle", "can_index", "can_remove"}
            /\ pc'[p] # "idle" => status'[task'[p]] = "cancelled"
            /\ \A t \in Tasks : status'[t] = status[t] \/ status'[t] = "cancelled"
        BY <1>0, <2>0, <2>6 DEF CancelUpdate, Update, Transitioned, Moves, Outcome, RedisOutcome
      <3> QED
        BY <2>0, <3>1, ReachStays DEF Busy
    <2>7. CASE CancelIndex(p)
      BY <1>0, <2>0, <2>7, ReachStays DEF CancelIndex, Moves, Busy, Reach
    <2>8. CASE CancelRemove(p)
      <3>1. /\ Moves(p) /\ pc[p] = "can_remove" /\ pc'[p] = "idle" /\ status' = status
            /\ \A t \in Tasks : t # task[p] => queued'[t] = queued[t]
        BY <1>0, <2>0, <2>8 DEF CancelRemove, Moves
      <3>2. status[task[p]] = "cancelled"
        BY <2>0, <3>1 DEF Reach
      <3> QED
        BY <2>0, <3>1, <3>2, ReachStays DEF Busy
    <2> QED
      BY <1>1, <2>1, <2>2, <2>3, <2>4, <2>5, <2>6, <2>7, <2>8 DEF SubmitStep, CancelStep
  <1>2. ASSUME NEW p \in Consumers,
               \/ \E t \in Tasks : ClaimDequeue(p, t)
               \/ \E o \in Outcomes : Finish(p, o)
               \/ ClaimStep(p)
        PROVE  Reach'
    <2>0. Reach /\ p \in Procs
      BY <1>2, <1>n DEF ClaimDequeue, Finish, ClaimStep, ClaimUpdate, ClaimIndex, ClaimGet
    <2>1. ASSUME NEW t \in Tasks, ClaimDequeue(p, t) PROVE Reach'
      <3>1. /\ Moves(p) /\ pc[p] = "idle" /\ pc'[p] = "clm_update" /\ task'[p] = t
            /\ status' = status /\ \A u \in Tasks \ {t} : queued'[u] = queued[u]
        BY <1>0, <2>0, <2>1 DEF ClaimDequeue, Moves
      <3>2. Reached(t)'
        BY <2>0, <3>1 DEF Reached, Busy
      <3> QED
        BY <2>0, <3>1, <3>2, ReachStays DEF Busy
    <2>2. CASE ClaimUpdate(p)
      <3>1. /\ Moves(p) /\ queued' = queued /\ pc'[p] \in {"idle", "clm_index", "clm_get"}
            /\ \A t \in Tasks : status'[t] = status[t] \/ status'[t] = "running"
            /\ pc[p] = "clm_update" /\ status'[task[p]] # "pending"
        BY <1>0, <2>0, <2>2 DEF ClaimUpdate, Update, Transitioned, Moves, Outcome, RedisOutcome,
                                           ValidTransition, FullyTerminal
      <3> QED
        BY <2>0, <3>1, ReachStays DEF Busy
    <2>3. CASE ClaimIndex(p) \/ ClaimGet(p) \/ \E o \in Outcomes : Finish(p, o)
      BY <1>0, <2>0, <2>3, ReachStays DEF ClaimIndex, ClaimGet, Finish, Moves, Busy
    <2> QED
      BY <1>2, <2>1, <2>2, <2>3 DEF ClaimStep
  <1>3. ASSUME NEW p \in Consumers \cup Reapers, ReportStep(p)
        PROVE  Reach'
    <2>0. Reach /\ p \in Procs
      BY <1>3, <1>n DEF ReportStep, ReportGet, ReportUpdate, ReportIndex, ReportResult
    <2>1. CASE ReportGet(p) \/ ReportIndex(p) \/ ReportResult(p)
      BY <1>0, <1>r, <2>0, <2>1, ReachStays DEF ReportGet, ReportIndex, ReportResult, Moves, Busy
    <2>2. CASE ReportUpdate(p)
      <3>1. out[p] \in {"success", "failed", "skipped", "timeout"}
        BY <2>0, <2>2 DEF IInv, Locals, ReportUpdate
      <3>2. /\ Moves(p) /\ queued' = queued /\ pc[p] = "rep_update"
            /\ pc'[p] \in {"idle", "rep_index", "rep_result"}
            /\ \A t \in Tasks : status'[t] = status[t] \/ status'[t] = out[p]
        BY <1>0, <1>r, <2>0, <2>2
           DEF ReportUpdate, Update, Transitioned, Moves, Outcome, RedisOutcome
      <3> QED
        BY <2>0, <3>1, <3>2, ReachStays DEF Busy
    <2> QED
      BY <1>3, <2>1, <2>2 DEF ReportStep
  <1>4. ASSUME NEW p \in Consumers, RetryStep(p)
        PROVE  Reach'
    <2>0. Reach /\ p \in Procs
      BY <1>4, <1>n DEF RetryStep, RetryResult, RetryUpdate, RetryIndex, RetryLookup, RetryDelete,
                        RetrySave, RetryFill, RetryEnqueue
    <2>1. CASE RetryResult(p) \/ RetryIndex(p) \/ RetryLookup(p)
      BY <1>0, <2>0, <2>1, ReachStays DEF RetryResult, RetryIndex, RetryLookup, Moves, Busy
    <2>2. CASE RetryUpdate(p)
      <3>1. /\ Moves(p) /\ queued' = queued /\ pc[p] = "try_update"
            /\ pc'[p] \in {"idle", "try_index", "try_lookup"}
            /\ \A t \in Tasks : status'[t] = status[t] \/ status'[t] = "failed"
        BY <1>0, <1>r, <2>0, <2>2
           DEF RetryUpdate, Update, Transitioned, DeleteFrom, Moves, Outcome, RedisOutcome
      <3> QED
        BY <2>0, <3>1, ReachStays DEF Busy
    <2>3. CASE RetryDelete(p)
      BY <1>0, <2>0, <2>3, ReachStays DEF RetryDelete, DeleteRecord, Moves, Busy
    <2>4. CASE RetrySave(p)
      BY <1>0, <2>0, <2>4, ReachStays DEF RetrySave, Save, Moves, Busy
    <2>5. CASE RetryFill(p)
      BY <1>0, <2>0, <2>5, ReachStays DEF RetryFill, WriteRecord, Moves, Busy, Reached
    <2>6. CASE RetryEnqueue(p)
      <3>1. Moves(p) /\ pc'[p] = "idle" /\ status' = status
        BY <1>0, <1>r, <2>0, <2>6 DEF RetryEnqueue, Moves
      <3>2. \A t \in Tasks : \/ queued'[t] > 0
                             \/ queued'[t] = queued[t] /\ ~Busy(p, t, Pcs)
        BY <1>0, <2>0, <2>6 DEF RetryEnqueue, Busy
      <3>3. \A t \in Tasks : queued'[t] > 0 => Reached(t)'
        BY DEF Reached
      <3> QED
        BY <1>0, <2>0, <3>1, <3>2, <3>3, ReachStays DEF Busy
    <2> QED
      BY <1>4, <2>1, <2>2, <2>3, <2>4, <2>5, <2>6 DEF RetryStep
  <1>5. ASSUME NEW p \in Reapers, Scan(p) \/ \E t \in Tasks : ReapCheck(p, t)
        PROVE  Reach'
    <2>0. Reach /\ p \in Procs
      BY <1>5, <1>n DEF Scan, ReapCheck
    <2> QED
      BY <1>0, <1>5, <2>0, ReachStays DEF Scan, ReapCheck, Moves, Busy
  <1>6. ASSUME NEW p \in Procs, FaultStep(p)
        PROVE  FALSE
    BY <1>0, <1>6
       DEF FaultStep, Abort, SubmitEnqueueFails, IndexFails, FillFails, RetryStepFails,
           Failure
  <1>7. CASE UNCHANGED vars
    BY <1>7, <1>n DEF vars, Reach, Reached, Busy
  <1> QED
    BY <1>1, <1>2, <1>3, <1>4, <1>5, <1>6, <1>7 DEF Next

\* No pending task is lost between Submit, or a retry, and a consumer, as long as nothing
\* fails, for any number of tasks, processes and retries.
THEOREM PendingIsReachableHolds ==
  ASSUME Setting
  PROVE  Spec => []PendingIsReachable
  <1>1. Init => (aborts = 0 /\ failures = 0 => Reach)
    BY DEF Init, Reach
  <1>2. IInv /\ (aborts = 0 /\ failures = 0 => Reach) /\ [Next]_vars
          => (aborts = 0 /\ failures = 0 => Reach)'
    BY ReachNext
  <1>3. (aborts = 0 /\ failures = 0 => Reach) => PendingIsReachable
    BY DEF Reach, Reached, PendingIsReachable
  <1> QED
    BY <1>1, <1>2, <1>3, Invariance, PTL DEF Spec

\* The points at which a consumer has a running task.
OwnPcs == {"clm_index", "clm_get", "exec", "rep_get", "rep_update", "try_result", "try_update"}

Owned ==
  \A t \in Tasks : status[t] = "running" =>
    \E c \in Consumers : claimedBy[t] = c /\ Busy(c, t, OwnPcs)

\* A task runs on if it is not the one that p owns, or p keeps it.
LEMMA StillOwned ==
  ASSUME Owned, NEW p \in Procs, Moves(p), NEW t \in Tasks,
         status[t] = "running", claimedBy'[t] = claimedBy[t],
         p \in Consumers /\ Busy(p, t, OwnPcs) => Busy(p, t, OwnPcs)'
  PROVE  \E c \in Consumers : claimedBy'[t] = c /\ Busy(c, t, OwnPcs)'
  <1>1. PICK c \in Consumers : claimedBy[t] = c /\ Busy(c, t, OwnPcs)
    BY DEF Owned
  <1>2. Busy(c, t, OwnPcs)'
    BY <1>1 DEF Moves, Busy
  <1> QED
    BY <1>1, <1>2

\* As long as no call is cut short, whatever operations fail.
LEMMA OwnedNext ==
  ASSUME Basics, aborts = 0 => Owned, [Next]_vars
  PROVE  (aborts = 0 => Owned)'
  <1> SUFFICES ASSUME aborts' = 0, NEW t \in Tasks, status'[t] = "running"
               PROVE  \E c \in Consumers : claimedBy'[t] = c /\ Busy(c, t, OwnPcs)'
    BY DEF Owned
  <1>0. /\ pc \in [Procs -> Pcs] /\ task \in [Procs -> Tasks \cup {NULL}]
        /\ status \in [Tasks -> StoredStatuses] /\ claimedBy \in [Tasks -> Consumers \cup {NULL}]
        /\ out \in [Procs -> Statuses \cup {NULL}] /\ snap \in [Procs -> 0 .. MaxRetries]
        /\ aborts \in Nat
        /\ \A p \in Procs : pc[p] # "idle" => task[p] \in Tasks
    BY DEF Basics, TypeOK, Locals
  <1>r. ASSUME NEW p \in Consumers \cup Reapers, ReportReturns(p)
        PROVE  Moves(p)
    BY <1>0, <1>r DEF ReportReturns, Moves
  <1>n. ASSUME UNCHANGED aborts PROVE Owned
    BY <1>n
  <1>1. ASSUME NEW p \in Producers,
               \/ \E u \in Tasks : SubmitCheck(p, u) \/ CancelCheck(p, u)
               \/ SubmitStep(p) \/ CancelStep(p) \/ SubmitEnqueueFails(p)
        PROVE  status[t] = "running" /\ claimedBy'[t] = claimedBy[t] /\ Owned /\ Moves(p)
    <2>1. CASE \E u \in Tasks : SubmitCheck(p, u) \/ CancelCheck(p, u)
      BY <1>0, <1>n, <2>1 DEF SubmitCheck, CancelCheck, Moves
    <2>2. CASE SubmitSave(p) \/ SubmitFill(p)
      BY <1>0, <1>n, <2>2 DEF SubmitSave, Save, SubmitFill, WriteRecord, Moves
    <2>3. CASE SubmitEnqueue(p) \/ UndoLookup(p) \/ SubmitEnqueueFails(p)
      BY <1>0, <1>n, <2>3
         DEF SubmitEnqueue, UndoLookup, SubmitEnqueueFails, DeleteFrom, Failure, Moves
    <2>4. CASE UndoDelete(p)
      BY <1>0, <1>n, <2>4 DEF UndoDelete, DeleteRecord, Moves
    <2>5. CASE CancelUpdate(p)
      BY <1>0, <1>n, <2>5
         DEF CancelUpdate, Update, Transitioned, Moves, Outcome, RedisOutcome, MemoryOutcome
    <2>6. CASE CancelIndex(p) \/ CancelRemove(p)
      BY <1>0, <1>n, <2>6 DEF CancelIndex, CancelRemove, Moves
    <2> QED
      BY <1>1, <2>1, <2>2, <2>3, <2>4, <2>5, <2>6 DEF SubmitStep, CancelStep
  <1>2. ASSUME NEW p \in Consumers, ClaimUpdate(p)
        PROVE  \/ claimedBy'[t] = p /\ Busy(p, t, OwnPcs)'
               \/ /\ status[t] = "running" /\ claimedBy'[t] = claimedBy[t] /\ Owned
                  /\ Moves(p) /\ pc[p] = "clm_update"
    <2>0. p \in Procs /\ p # NULL /\ Owned
      BY <1>n, <1>2 DEF ClaimUpdate
    <2>1. CASE task[p] = t /\ Outcome(status[t], "running") = "OK"
      BY <1>0, <1>2, <2>0, <2>1 DEF ClaimUpdate, Update, Transitioned, Busy, OwnPcs
    <2>2. CASE task[p] = t /\ Outcome(status[t], "running") = "SAME" /\ Store = "memory"
      BY <1>0, <1>2, <2>0, <2>2 DEF ClaimUpdate, Update, Goto, Busy, OwnPcs
    <2>3. CASE ~(task[p] = t /\ (\/ Outcome(status[t], "running") = "OK"
                                 \/ Outcome(status[t], "running") = "SAME" /\ Store = "memory"))
      <3>1. status[t] = "running" /\ claimedBy'[t] = claimedBy[t] /\ pc[p] = "clm_update"
        BY <1>0, <1>2, <2>0, <2>3 DEF ClaimUpdate, Update
      <3>2. Moves(p)
        BY <1>0, <1>2, <2>0 DEF ClaimUpdate, Transitioned, Moves
      <3> QED
        BY <2>0, <3>1, <3>2
    <2> QED
      BY <2>1, <2>2, <2>3
  <1>3. ASSUME NEW p \in Consumers,
               \/ \E u \in Tasks : ClaimDequeue(p, u)
               \/ \E o \in Outcomes : Finish(p, o)
               \/ ClaimIndex(p) \/ ClaimGet(p)
        PROVE  /\ status[t] = "running" /\ claimedBy'[t] = claimedBy[t] /\ Owned /\ Moves(p)
               /\ Busy(p, t, OwnPcs) => Busy(p, t, OwnPcs)'
    BY <1>0, <1>n, <1>3 DEF ClaimDequeue, Finish, ClaimIndex, ClaimGet, Moves, Busy, OwnPcs
  <1>4. ASSUME NEW p \in Consumers \cup Reapers, ReportStep(p)
        PROVE  /\ status[t] = "running" /\ claimedBy'[t] = claimedBy[t] /\ Owned /\ Moves(p)
               /\ Busy(p, t, OwnPcs) => Busy(p, t, OwnPcs)'
    <2>0. p \in Procs /\ Owned
      BY <1>n, <1>4 DEF ReportStep, ReportGet, ReportUpdate, ReportIndex, ReportResult
    <2>1. CASE ReportGet(p)
      BY <1>0, <1>r, <2>0, <2>1 DEF ReportGet, Moves, Busy, OwnPcs
    <2>2. CASE ReportIndex(p) \/ ReportResult(p)
      BY <1>0, <1>r, <2>0, <2>2 DEF ReportIndex, ReportResult, Moves, Busy, OwnPcs
    <2>3. CASE ReportUpdate(p)
      <3>1. out[p] \in {"success", "failed", "skipped", "timeout"} /\ pc[p] = "rep_update"
        BY <2>0, <2>3 DEF Basics, Locals, ReportUpdate
      <3>2. status[t] = "running" /\ claimedBy'[t] = claimedBy[t]
        BY <1>0, <2>0, <2>3, <3>1 DEF ReportUpdate, Update
      <3>3. task[p] # t
        <4>1. task[p] = t => Outcome(status[t], out[p]) = "OK"
          BY <1>0, <3>1, <3>2
             DEF Outcome, RedisOutcome, MemoryOutcome, ValidTransition, FullyTerminal
        <4> QED
          BY <1>0, <2>0, <2>3, <3>1, <4>1 DEF ReportUpdate, Update
      <3>4. Moves(p)
        BY <1>0, <1>r, <2>0, <2>3 DEF ReportUpdate, Transitioned, Moves
      <3> QED
        BY <2>0, <3>2, <3>3, <3>4 DEF Busy
    <2> QED
      BY <1>4, <2>1, <2>2, <2>3 DEF ReportStep
  <1>5. ASSUME NEW p \in Consumers, RetryStep(p) \/ RetryStepFails(p)
        PROVE  /\ status[t] = "running" /\ claimedBy'[t] = claimedBy[t] /\ Owned /\ Moves(p)
               /\ Busy(p, t, OwnPcs) => Busy(p, t, OwnPcs)'
    <2>0. p \in Procs /\ Owned
      BY <1>n, <1>5 DEF RetryStep, RetryResult, RetryUpdate, RetryIndex, RetryLookup, RetryDelete,
                        RetrySave, RetryFill, RetryEnqueue, RetryStepFails, Failure
    <2>1. CASE RetryResult(p) \/ RetryIndex(p) \/ RetryLookup(p) \/ RetryEnqueue(p) \/ RetryStepFails(p)
      BY <1>0, <1>r, <2>0, <2>1
         DEF RetryResult, RetryIndex, RetryLookup, RetryEnqueue, RetryStepFails,
                                    Failure, Moves, Busy, OwnPcs
    <2>2. CASE RetryDelete(p)
      BY <1>0, <2>0, <2>2 DEF RetryDelete, DeleteRecord, Moves, Busy, OwnPcs
    <2>3. CASE RetrySave(p) \/ RetryFill(p)
      BY <1>0, <2>0, <2>3 DEF RetrySave, Save, RetryFill, WriteRecord, Moves, Busy, OwnPcs
    <2>4. CASE RetryUpdate(p)
      <3>1. pc[p] = "try_update"
        BY <2>4 DEF RetryUpdate
      <3>2. status[t] = "running" /\ claimedBy'[t] = claimedBy[t]
        BY <1>0, <2>0, <2>4, <3>1 DEF RetryUpdate, Update
      <3>3. task[p] # t
        <4>1. task[p] = t => Outcome(status[t], "failed") = "OK"
          BY <1>0, <3>1, <3>2
             DEF Outcome, RedisOutcome, MemoryOutcome, ValidTransition, FullyTerminal
        <4> QED
          BY <1>0, <2>0, <2>4, <3>1, <4>1 DEF RetryUpdate, Update
      <3>4. Moves(p)
        BY <1>0, <1>r, <2>0, <2>4 DEF RetryUpdate, DeleteFrom, Transitioned, Moves
      <3> QED
        BY <2>0, <3>2, <3>3, <3>4 DEF Busy
    <2> QED
      BY <1>5, <2>1, <2>2, <2>3, <2>4 DEF RetryStep
  <1>6. ASSUME NEW p \in Procs,
               \/ p \in Reapers /\ (Scan(p) \/ \E u \in Tasks : ReapCheck(p, u))
               \/ IndexFails(p) \/ FillFails(p)
        PROVE  /\ status[t] = "running" /\ claimedBy'[t] = claimedBy[t] /\ Owned /\ Moves(p)
               /\ p \in Consumers /\ Busy(p, t, OwnPcs) => Busy(p, t, OwnPcs)'
    BY <1>0, <1>n, <1>6 DEF Scan, ReapCheck, IndexFails, FillFails, Failure, Moves, Busy, OwnPcs
  <1>7. ASSUME NEW p \in Procs, Abort(p) PROVE FALSE
    BY <1>0, <1>7 DEF Abort
  <1>8. CASE UNCHANGED vars
    BY <1>8, <1>n DEF vars, Owned, Busy, OwnPcs
  <1>9. ASSUME NEW p \in Procs, FaultStep(p)
        PROVE  \/ p \in Producers /\ SubmitEnqueueFails(p)
               \/ p \in Consumers /\ RetryStepFails(p)
               \/ IndexFails(p) \/ FillFails(p)
    BY <1>7, <1>9 DEF FaultStep, Basics, Roles, SubmitEnqueueFails, RetryStepFails
  <1>10. ASSUME NEW p \in Procs, status[t] = "running", claimedBy'[t] = claimedBy[t], Owned,
                Moves(p), p \in Consumers /\ Busy(p, t, OwnPcs) => Busy(p, t, OwnPcs)'
         PROVE  \E c \in Consumers : claimedBy'[t] = c /\ Busy(c, t, OwnPcs)'
    BY <1>10, StillOwned
  <1>11. CASE \E p \in Producers : \/ \E u \in Tasks : SubmitCheck(p, u) \/ CancelCheck(p, u)
                                   \/ SubmitStep(p) \/ CancelStep(p) \/ SubmitEnqueueFails(p)
    BY <1>1, <1>10, <1>11
  <1>12. ASSUME NEW p \in Consumers,
                \/ \E u \in Tasks : ClaimDequeue(p, u)
                \/ \E o \in Outcomes : Finish(p, o)
                \/ ClaimStep(p)
         PROVE  \E c \in Consumers : claimedBy'[t] = c /\ Busy(c, t, OwnPcs)'
    <2>1. CASE ClaimUpdate(p)
      BY <1>2, <1>10, <2>1 DEF Busy, OwnPcs
    <2> QED
      BY <1>3, <1>10, <1>12, <2>1 DEF ClaimStep
  <1>13. ASSUME NEW p \in Consumers, ReportStep(p) \/ RetryStep(p) \/ RetryStepFails(p)
         PROVE  \E c \in Consumers : claimedBy'[t] = c /\ Busy(c, t, OwnPcs)'
    BY <1>4, <1>5, <1>10, <1>13
  <1>14. ASSUME NEW p \in Reapers,
                ReportStep(p) \/ Scan(p) \/ \E u \in Tasks : ReapCheck(p, u)
         PROVE  \E c \in Consumers : claimedBy'[t] = c /\ Busy(c, t, OwnPcs)'
    BY <1>4, <1>6, <1>10, <1>14
  <1>15. ASSUME NEW p \in Procs, FaultStep(p)
         PROVE  \E c \in Consumers : claimedBy'[t] = c /\ Busy(c, t, OwnPcs)'
    BY <1>6, <1>9, <1>10, <1>11, <1>13, <1>15
  <1> QED
    BY <1>8, <1>11, <1>12, <1>13, <1>14, <1>15 DEF Next

\* Over both stores, and whatever operations fail or reports are delivered twice, a running
\* task belongs to the consumer its record names, which is still working on it or reporting
\* it, as long as no call is cut short.
THEOREM RunningIsOwnedHolds == Spec => []RunningIsOwned
  <1>1. Init => (aborts = 0 => Owned)
    BY DEF Init, Owned
  <1>2. Basics /\ (aborts = 0 => Owned) /\ [Next]_vars => (aborts = 0 => Owned)'
    BY OwnedNext
  <1>3. (aborts = 0 => Owned) => RunningIsOwned
    BY DEF Owned, OwnPcs, RunningIsOwned
  <1> QED
    BY <1>1, <1>2, <1>3, BasicsHold, PTL DEF Spec

\* The reports of tasks that are not retried: what a consumer is about to save is the
\* outcome the task has; a reaper has nothing to save for a task that has one, and no
\* interest in a task that is being submitted.
Ended == {"success", "skipped"}

ConsumersReport ==
  \A c \in Consumers :
    pc[c] \in {"rep_index", "rep_result"} /\ status[task[c]] \in Ended => out[c] = status[task[c]]

ReapersReport ==
  \A r \in Reapers :
    /\ pc[r] \in {"rep_index", "rep_result"} => status[task[r]] \in {"failed", "timeout"}
    /\ pc[r] \in ReportPcs => status[task[r]] \notin {"none", "partial", "pending"}

SubmittedAnew ==
  \A p \in Producers, t \in Tasks : Holds(p, t) =>
    /\ status[t] \in {"partial", "pending", "cancelled"}
    /\ \A r \in Reapers : ~Busy(r, t, ReportPcs)

Reported == ConsumersReport /\ ReapersReport /\ SubmittedAnew /\ ResultMatchesOutcome

\* How a step of p may move a task: to an outcome by the report of its holder, out of
\* failure, or out of a submission, only in the ways named here.
Moderate(p) ==
  /\ \A t \in Tasks : status'[t] \in Ended =>
       \/ /\ status'[t] = status[t] /\ result'[t] = result[t]
          /\ p \in Consumers => ~Busy(p, t, {"rep_index", "rep_result"})
       \/ /\ p \in Consumers /\ Busy(p, t, {"rep_index", "rep_result"})' /\ out'[p] = status'[t]
          /\ status'[t] = status[t] \/ Holds(p, t)
       \/ result'[t] = status'[t] /\ status'[t] = status[t]
  /\ \A t \in Tasks : status[t] \in {"failed", "timeout"} =>
       status'[t] = status[t] \/ \E q \in Producers : Holds(q, t)
  /\ \A t \in Tasks : status'[t] \in {"none", "partial", "pending"} =>
       status'[t] = status[t] \/ status[t] = "none" \/ (p \in Producers /\ Holds(p, t))
  /\ \A t \in Tasks : status[t] \in {"partial", "pending", "cancelled"} =>
       \/ status'[t] \in {status[t], "cancelled"} \/ Holds(p, t)
       \/ p \in Reapers /\ Busy(p, t, ReportPcs)

\* What p itself goes on with.
Proceeds(p) ==
  /\ p \in Consumers /\ pc'[p] \in {"rep_index", "rep_result"} /\ status'[task'[p]] \in Ended
       => out'[p] = status'[task'[p]]
  /\ p \in Reapers =>
       /\ pc'[p] \in {"rep_index", "rep_result"} => status'[task'[p]] \in {"failed", "timeout"}
       /\ pc'[p] \in ReportPcs => status'[task'[p]] \notin {"none", "partial", "pending"}
       /\ \A t \in Tasks : Busy(p, t, ReportPcs)' => Busy(p, t, ReportPcs) \/ status[t] = "running"
  /\ p \in Producers => \A t \in Tasks : Holds(p, t)' =>
       /\ Holds(p, t) \/ status[t] = "none"
       /\ status'[t] \in {"partial", "pending", "cancelled"}

\* Steps of these kinds keep results and outcomes together.
LEMMA ReportedStays ==
  ASSUME IInv, Reported, NEW p \in Procs, Moves(p), Moderate(p), Proceeds(p)
  PROVE  Reported'
  <1>0. /\ \A q \in Procs : pc[q] # "idle" => task[q] \in Tasks
        /\ \A q, r \in Procs, t \in Tasks : Holds(q, t) /\ Holds(r, t) => q = r
    BY DEF IInv, Locals, OneHolder
  <1>1. ASSUME NEW c \in Consumers, pc'[c] \in {"rep_index", "rep_result"},
               status'[task'[c]] \in Ended
        PROVE  out'[c] = status'[task'[c]]
    <2>1. CASE c # p
      <3>1. /\ pc[c] \in {"rep_index", "rep_result"} /\ task'[c] = task[c] /\ out'[c] = out[c]
            /\ task[c] \in Tasks /\ Holds(c, task[c])
        BY <1>0, <1>1, <2>1 DEF Moves, Holds
      <3>2. status'[task[c]] = status[task[c]]
        BY <1>0, <1>1, <2>1, <3>1 DEF Moderate
      <3> QED
        BY <1>1, <3>1, <3>2 DEF Reported, ConsumersReport
    <2> QED
      BY <1>1, <2>1 DEF Proceeds
  <1>2. ASSUME NEW r \in Reapers
        PROVE  /\ pc'[r] \in {"rep_index", "rep_result"} => status'[task'[r]] \in {"failed", "timeout"}
               /\ pc'[r] \in ReportPcs => status'[task'[r]] \notin {"none", "partial", "pending"}
    <2>1. CASE r # p /\ pc'[r] \in ReportPcs
      <3>1. /\ pc[r] = pc'[r] /\ task'[r] = task[r] /\ task[r] \in Tasks /\ Busy(r, task[r], ReportPcs)
        BY <1>0, <2>1 DEF Moves, Busy
      <3>2. \A q \in Producers : ~Holds(q, task[r])
        BY <3>1 DEF Reported, SubmittedAnew
      <3>3. status[task[r]] \notin {"none", "partial", "pending"}
        BY <2>1, <3>1 DEF Reported, ReapersReport
      <3>4. pc[r] \in {"rep_index", "rep_result"} => status[task[r]] \in {"failed", "timeout"}
        BY DEF Reported, ReapersReport
      <3> QED
        BY <3>1, <3>2, <3>3, <3>4 DEF Moderate
    <2> QED
      BY <2>1 DEF Proceeds
  <1>3. ASSUME NEW q \in Producers, NEW t \in Tasks, Holds(q, t)'
        PROVE  /\ status'[t] \in {"partial", "pending", "cancelled"}
               /\ \A r \in Reapers : ~Busy(r, t, ReportPcs)'
    <2>1. Holds(q, t) \/ status[t] = "none"
      BY <1>3 DEF Proceeds, Moves, Holds
    <2>2. \A r \in Reapers : ~Busy(r, t, ReportPcs)
      BY <2>1 DEF Reported, SubmittedAnew, ReapersReport, Busy
    <2>3. status[t] # "running"
      BY <2>1 DEF Reported, SubmittedAnew
    <2>4. \A r \in Reapers : ~Busy(r, t, ReportPcs)'
      BY <2>2, <2>3 DEF Proceeds, Moves, Busy
    <2>5. status'[t] \in {"partial", "pending", "cancelled"}
      <3>1. CASE q # p
        <4>1. Holds(q, t) /\ status[t] \in {"partial", "pending", "cancelled"} /\ ~Holds(p, t)
          BY <1>0, <1>3, <3>1 DEF Moves, Holds, Reported, SubmittedAnew
        <4> QED
          BY <2>2, <4>1 DEF Moderate
      <3> QED
        BY <1>3, <3>1 DEF Proceeds
    <2> QED
      BY <2>4, <2>5
  <1>4. ASSUME NEW t \in Tasks, status'[t] \in Ended
        PROVE  \/ result'[t] = status'[t]
               \/ \E c \in Consumers : Busy(c, t, {"rep_index", "rep_result"})' /\ out'[c] = status'[t]
    <2>1. CASE /\ status'[t] = status[t] /\ result'[t] = result[t]
               /\ p \in Consumers => ~Busy(p, t, {"rep_index", "rep_result"})
      <3>1. CASE result[t] = status[t]
        BY <2>1, <3>1
      <3>2. CASE \E c \in Consumers : Busy(c, t, {"rep_index", "rep_result"}) /\ out[c] = status[t]
        BY <2>1, <3>2 DEF Busy, Moves
      <3> QED
        BY <1>4, <2>1, <3>1, <3>2 DEF Reported, ResultMatchesOutcome, Ended
    <2> QED
      BY <1>4, <2>1 DEF Moderate
  <1> QED
    BY <1>1, <1>2, <1>3, <1>4
       DEF Reported, ConsumersReport, ReapersReport, SubmittedAnew, ResultMatchesOutcome, Ended

\* While a process runs no retry, and cuts no call short, it moves tasks in these ways.
LEMMA ReportedNext ==
  ASSUME IInv, Setting, MaxRetries = 0, MaxAborts = 0, Reported, [Next]_vars
  PROVE  Reported'
  <1>0. /\ pc \in [Procs -> Pcs] /\ task \in [Procs -> Tasks \cup {NULL}]
        /\ status \in [Tasks -> StoredStatuses] /\ out \in [Procs -> Statuses \cup {NULL}]
        /\ snap \in [Procs -> 0 .. MaxRetries] /\ result \in [Tasks -> Statuses \cup {NULL}]
        /\ Store = "redis" /\ aborts = 0
        /\ \A p \in Procs : pc[p] # "idle" => task[p] \in Tasks
    BY DEF IInv, TypeOK, Setting, Locals
  <1>s. /\ \A t \in Tasks : status[t] \in {"none", "partial", "pending", "running", "success",
                                           "failed", "timeout", "skipped", "cancelled"}
        /\ \A c \in Consumers : pc[c] \in {"rep_index", "rep_result"} /\ status[task[c]] \in Ended
                                  => out[c] = status[task[c]]
        /\ \A r \in Reapers :
             /\ pc[r] \in {"rep_index", "rep_result"} => status[task[r]] \in {"failed", "timeout"}
             /\ pc[r] \in ReportPcs => status[task[r]] \notin {"none", "partial", "pending"}
        /\ \A p \in Producers, t \in Tasks :
             Holds(p, t) => status[t] \in {"partial", "pending", "cancelled"}
        /\ \A r \in Reapers : pc[r] # "idle" => out[r] = "timeout"
        /\ \A p \in Consumers \cup Reapers :
             pc[p] \in ReportPcs => out[p] \in {"success", "failed", "skipped", "timeout"}
        /\ \A p \in Producers : pc[p] \notin ReportPcs
    BY <1>0 DEF Reported, ConsumersReport, ReapersReport, SubmittedAnew, StoredStatuses, Statuses,
                IInv, Locals, Roles
  <1>t. \A p \in Procs : pc[p] \notin RetryPcs
    BY DEF IInv, Locals, TypeOK
  <1>r. ASSUME NEW p \in Consumers \cup Reapers, ReportReturns(p)
        PROVE  Return(p)
    BY <1>r, ReturnsOnce
  <1>m. ASSUME NEW p \in Procs, Moves(p), Moderate(p), Proceeds(p) PROVE Reported'
    BY <1>m, ReportedStays
  <1>1. ASSUME NEW p \in Producers, \E u \in Tasks : SubmitCheck(p, u) \/ CancelCheck(p, u)
        PROVE  Reported'
    <2>1. Moves(p) /\ Moderate(p) /\ Proceeds(p)
      BY <1>0, <1>1 DEF SubmitCheck, CancelCheck, Moves, Moderate, Proceeds, Holds, Busy
    <2> QED
      BY <1>m, <2>1
  <1>2. ASSUME NEW p \in Producers, SubmitSave(p) \/ SubmitFill(p) PROVE Reported'
    <2>1. Moves(p)
      BY <1>0, <1>2 DEF SubmitSave, Save, SubmitFill, WriteRecord, Moves
    <2>2. Moderate(p)
      BY <1>0, <1>2 DEF SubmitSave, Save, SubmitFill, WriteRecord, Moderate, Holds, Busy, Ended
    <2>3. Proceeds(p)
      BY <1>0, <1>2 DEF SubmitSave, Save, SubmitFill, WriteRecord, Proceeds, Holds, Busy
    <2> QED
      BY <1>m, <2>1, <2>2, <2>3
  <1>3. ASSUME NEW p \in Producers, SubmitEnqueue(p) \/ UndoLookup(p) \/ SubmitEnqueueFails(p)
        PROVE  Reported'
    <2>1. UNCHANGED <<status, result>> /\ Moves(p)
      BY <1>0, <1>3 DEF SubmitEnqueue, UndoLookup, SubmitEnqueueFails, DeleteFrom, Failure, Moves
    <2>2. \A t \in Tasks : Holds(p, t)' => Holds(p, t)
      BY <1>0, <1>3 DEF SubmitEnqueue, UndoLookup, SubmitEnqueueFails, DeleteFrom, Failure, Holds
    <2>3. Moderate(p) /\ Proceeds(p)
      BY <1>0, <1>s, <2>1, <2>2 DEF Moderate, Proceeds
    <2> QED
      BY <1>m, <2>1, <2>3
  <1>4. ASSUME NEW p \in Producers, UndoDelete(p) PROVE Reported'
    <2>1. Moves(p)
      BY <1>0, <1>4 DEF UndoDelete, DeleteRecord, Moves
    <2>2. Holds(p, task[p]) /\ task[p] \in Tasks
      BY <1>0, <1>4 DEF UndoDelete, Holds
    <2>3. /\ status'[task[p]] = "none"
          /\ \A t \in Tasks \ {task[p]} : status'[t] = status[t] /\ result'[t] = result[t]
      BY <1>0, <1>4 DEF UndoDelete, DeleteRecord
    <2>4. Moderate(p)
      BY <2>2, <2>3 DEF Moderate, Ended
    <2>5. Proceeds(p)
      BY <1>0, <1>4 DEF UndoDelete, Proceeds, Holds, Busy
    <2> QED
      BY <1>m, <2>1, <2>4, <2>5
  <1>5. ASSUME NEW p \in Producers, CancelUpdate(p) PROVE Reported'
    <2>1. Moves(p)
      BY <1>0, <1>5 DEF CancelUpdate, Transitioned, Moves, Outcome, RedisOutcome
    <2>2. \A t \in Tasks :
            status'[t] = status[t] \/ (status[t] \in {"pending", "running"} /\ status'[t] = "cancelled")
      BY <1>0, <1>5 DEF CancelUpdate, Update, Outcome, RedisOutcome, ValidTransition
    <2>3. /\ result' = result
          /\ \A t \in Tasks : ~Holds(p, t)'
      BY <1>0, <1>5 DEF CancelUpdate, Transitioned, Outcome, RedisOutcome, Holds
    <2>4. Moderate(p) /\ Proceeds(p)
      BY <1>0, <2>2, <2>3 DEF Moderate, Proceeds, Ended
    <2> QED
      BY <1>m, <2>1, <2>4
  <1>6. ASSUME NEW p \in Producers, CancelIndex(p) \/ CancelRemove(p) PROVE Reported'
    <2>1. Moves(p) /\ Moderate(p) /\ Proceeds(p)
      BY <1>0, <1>6 DEF CancelIndex, CancelRemove, Moves, Moderate, Proceeds, Holds, Busy
    <2> QED
      BY <1>m, <2>1
  <1>7. ASSUME NEW p \in Consumers, ClaimUpdate(p) PROVE Reported'
    <2>1. Moves(p)
      BY <1>0, <1>7 DEF ClaimUpdate, Transitioned, Moves
    <2>2. Holds(p, task[p]) /\ task[p] \in Tasks
      BY <1>0, <1>7 DEF ClaimUpdate, Holds
    <2>3. /\ result' = result
          /\ \A t \in Tasks : status'[t] = status[t] \/ (t = task[p] /\ status[t] = "pending"
                                                          /\ status'[t] = "running")
      BY <1>0, <1>7 DEF ClaimUpdate, Update, Outcome, RedisOutcome, ValidTransition
    <2>4. pc[p] = "clm_update" /\ pc'[p] \notin ReportPcs
      BY <1>0, <1>7 DEF ClaimUpdate, Transitioned
    <2>5. Moderate(p) /\ Proceeds(p)
      BY <2>2, <2>3, <2>4 DEF Moderate, Proceeds, Ended, Busy
    <2> QED
      BY <1>m, <2>1, <2>5
  <1>8. ASSUME NEW p \in Consumers,
               \/ \E u \in Tasks : ClaimDequeue(p, u)
               \/ \E o \in Outcomes : Finish(p, o)
               \/ ClaimIndex(p) \/ ClaimGet(p)
        PROVE  Reported'
    <2>1. Moves(p)
      BY <1>0, <1>8 DEF ClaimDequeue, Finish, ClaimIndex, ClaimGet, Moves
    <2>2. UNCHANGED <<status, result>> /\ pc[p] \notin ReportPcs
          /\ pc'[p] \notin {"rep_index", "rep_result"}
      BY <1>0, <1>8 DEF ClaimDequeue, Finish, ClaimIndex, ClaimGet
    <2>3. Moderate(p) /\ Proceeds(p)
      BY <2>2 DEF Moderate, Proceeds, Busy
    <2> QED
      BY <1>m, <2>1, <2>3
  <1>9. ASSUME NEW p \in Consumers \cup Reapers, ReportGet(p) PROVE Reported'
    <2>1. Moves(p)
      BY <1>0, <1>r, <1>9 DEF ReportGet, Moves
    <2>2. /\ UNCHANGED <<status, result>> /\ pc[p] = "rep_get"
          /\ pc'[p] \in {"rep_update", "try_result"} \/ pc'[p] = "idle"
          /\ pc'[p] # "idle" => task'[p] = task[p]
      BY <1>0, <1>r, <1>9 DEF ReportGet
    <2>3. Moderate(p) /\ Proceeds(p)
      BY <1>0, <1>s, <2>2 DEF Moderate, Proceeds, Busy
    <2> QED
      BY <1>m, <2>1, <2>3
  <1>10. ASSUME NEW p \in Consumers \cup Reapers, ReportUpdate(p) PROVE Reported'
    <2>1. Moves(p)
      BY <1>0, <1>r, <1>10 DEF ReportUpdate, Transitioned, Moves
    <2>2. /\ pc[p] = "rep_update" /\ task[p] \in Tasks /\ result' = result
          /\ out[p] \in {"success", "failed", "skipped", "timeout"}
          /\ p \in Consumers => Holds(p, task[p])
      BY <1>0, <1>s, <1>10 DEF ReportUpdate, Holds
    <2>3. \A t \in Tasks : \/ status'[t] = status[t]
                           \/ /\ t = task[p] /\ status[t] \in {"pending", "running"}
                              /\ status'[t] = out[p]
      BY <1>0, <2>2, <1>10 DEF ReportUpdate, Update, Outcome, RedisOutcome, ValidTransition
    <2>4. \/ pc'[p] = "idle" /\ status' = status
          \/ /\ pc'[p] \in {"rep_index", "rep_result"} /\ task'[p] = task[p] /\ out'[p] = out[p]
             /\ status'[task[p]] = out[p]
          \/ /\ pc'[p] = "rep_result" /\ task'[p] = task[p] /\ out'[p] = out[p]
             /\ status'[task[p]] = status[task[p]]
             /\ status[task[p]] \in {"pending", "running", "failed", "timeout"}
             /\ ~ValidTransition(status[task[p]], out[p])
      <3>1. CASE Outcome(status[task[p]], out[p]) = "OK"
        BY <1>0, <1>10, <2>2, <3>1 DEF ReportUpdate, Update, Transitioned
      <3>2. CASE Outcome(status[task[p]], out[p]) \in {"SAME", "INVALID"}
        <4>1. /\ pc'[p] = "rep_result" /\ task'[p] = task[p] /\ out'[p] = out[p]
              /\ status' = status
          BY <1>0, <1>10, <2>2, <3>2 DEF ReportUpdate, Update
        <4>2. \/ status[task[p]] = out[p]
              \/ /\ status[task[p]] \in {"pending", "running", "failed", "timeout"}
                 /\ ~ValidTransition(status[task[p]], out[p])
          BY <1>0, <1>s, <2>2, <3>2 DEF Outcome, RedisOutcome, FullyTerminal
        <4> QED
          BY <4>1, <4>2
      <3>3. CASE Outcome(status[task[p]], out[p]) \in {"TERMINAL", "NOT_FOUND"}
        BY <1>0, <1>r, <1>10, <2>2, <3>3 DEF ReportUpdate, Update
      <3> QED
        BY <1>0, <3>1, <3>2, <3>3 DEF Outcome, RedisOutcome
    <2>5. p \in Reapers => out[p] = "timeout" /\ status[task[p]] \notin {"none", "partial", "pending"}
      BY <1>s, <2>2
    <2>6. Moderate(p)
      <3>1. p \in Consumers => p \notin Reapers
        OBVIOUS
      <3>2. ASSUME NEW t \in Tasks, status'[t] \in Ended
            PROVE  \/ /\ status'[t] = status[t] /\ result'[t] = result[t]
                      /\ p \in Consumers => ~Busy(p, t, {"rep_index", "rep_result"})
                   \/ /\ p \in Consumers /\ Busy(p, t, {"rep_index", "rep_result"})'
                      /\ out'[p] = status'[t] /\ (status'[t] = status[t] \/ Holds(p, t))
        <4>1. CASE status'[t] = status[t]
          BY <2>2, <4>1 DEF Busy
        <4>2. CASE status'[t] # status[t]
          <5>1. t = task[p] /\ status'[t] = out[p] /\ status[t] \in {"pending", "running"}
            BY <2>3, <4>2
          <5>2. p \in Consumers
            BY <2>5, <3>2, <5>1 DEF Ended
          <5>3. pc'[p] \in {"rep_index", "rep_result"} /\ task'[p] = task[p] /\ out'[p] = out[p]
            BY <2>4, <4>2, <5>1
          <5> QED
            BY <2>2, <5>1, <5>2, <5>3 DEF Busy
        <4> QED
          BY <4>1, <4>2
      <3>3. \A t \in Tasks : status'[t] # status[t] =>
              /\ status'[t] \in {"success", "failed", "skipped", "timeout"}
              /\ status[t] \notin {"failed", "timeout"}
              /\ Holds(p, t) \/ (p \in Reapers /\ Busy(p, t, ReportPcs))
        BY <2>2, <2>3 DEF Busy
      <3> QED
        BY <3>2, <3>3 DEF Moderate
    <2>7. Proceeds(p)
      BY <1>0, <1>s, <2>2, <2>4, <2>5 DEF Proceeds, Busy, ValidTransition, Ended
    <2> QED
      BY <1>m, <2>1, <2>6, <2>7
  <1>11. ASSUME NEW p \in Consumers \cup Reapers, ReportIndex(p) PROVE Reported'
    <2>1. Moves(p)
      BY <1>0, <1>11 DEF ReportIndex, Moves
    <2>2. /\ UNCHANGED <<status, result>> /\ pc[p] = "rep_index" /\ pc'[p] = "rep_result"
          /\ task'[p] = task[p] /\ out'[p] = out[p]
      BY <1>0, <1>11 DEF ReportIndex
    <2>3. Moderate(p)
      BY <1>0, <1>s, <2>2 DEF Moderate, Busy, Ended
    <2>4. Proceeds(p)
      BY <1>0, <1>s, <2>2 DEF Proceeds, Busy, Ended
    <2> QED
      BY <1>m, <2>1, <2>3, <2>4
  <1>12. ASSUME NEW p \in Consumers \cup Reapers, ReportResult(p) PROVE Reported'
    <2>1. Moves(p)
      BY <1>0, <1>r, <1>12 DEF ReportResult, Moves
    <2>2. /\ status' = status /\ pc[p] = "rep_result" /\ pc'[p] = "idle" /\ task[p] \in Tasks
          /\ result'[task[p]] = out[p]
          /\ \A t \in Tasks \ {task[p]} : result'[t] = result[t]
      BY <1>0, <1>r, <1>12 DEF ReportResult
    <2>3. Moderate(p)
      BY <1>0, <1>s, <2>2 DEF Moderate, Busy, Ended
    <2>4. Proceeds(p)
      BY <1>0, <2>2 DEF Proceeds, Busy
    <2> QED
      BY <1>m, <2>1, <2>3, <2>4
  <1>13. ASSUME NEW p \in Reapers, Scan(p) \/ \E u \in Tasks : ReapCheck(p, u) PROVE Reported'
    <2>1. Moves(p)
      BY <1>0, <1>13 DEF Scan, ReapCheck, Moves
    <2>2. /\ UNCHANGED <<status, result>> /\ pc[p] = "idle"
          /\ \/ pc'[p] = "idle"
             \/ pc'[p] = "rep_get" /\ status[task'[p]] = "running"
      BY <1>0, <1>13 DEF Scan, ReapCheck
    <2>3. Moderate(p) /\ Proceeds(p)
      BY <2>2 DEF Moderate, Proceeds, Busy
    <2> QED
      BY <1>m, <2>1, <2>3
  <1>14. ASSUME NEW p \in Procs, IndexFails(p) PROVE Reported'
    <2>1. Moves(p)
      BY <1>0, <1>14 DEF IndexFails, Moves
    <2>2. /\ UNCHANGED <<status, result>> /\ task'[p] = task[p] /\ out'[p] = out[p]
          /\ \/ pc[p] = "rep_index" /\ pc'[p] = "rep_result"
             \/ pc[p] = "can_index" /\ pc'[p] = "can_remove"
             \/ pc[p] = "clm_index" /\ pc'[p] = "clm_get"
      BY <1>0, <1>t, <1>14 DEF IndexFails
    <2>3. Moderate(p)
      BY <1>0, <1>s, <2>2 DEF Moderate, Busy, Ended
    <2>4. Proceeds(p)
      BY <1>0, <1>s, <2>2 DEF Proceeds, Busy, Ended, Holds
    <2> QED
      BY <1>m, <2>1, <2>3, <2>4
  <1>15. ASSUME NEW p \in Procs, FillFails(p) PROVE Reported'
    <2>1. pc[p] = "sub_fill" /\ task[p] \in Tasks /\ p \in Producers
      BY <1>0, <1>t, <1>15 DEF FillFails, IInv, Roles
    <2>2. Moves(p)
      BY <1>0, <1>15 DEF FillFails, Moves
    <2>3. /\ Holds(p, task[p]) /\ pc'[p] = "idle" /\ result' = result
          /\ status'[task[p]] = "none"
          /\ \A t \in Tasks \ {task[p]} : status'[t] = status[t]
      BY <1>0, <1>15, <2>1 DEF FillFails, Holds
    <2>4. Moderate(p) /\ Proceeds(p)
      BY <2>1, <2>3 DEF Moderate, Proceeds, Ended, Holds, Busy
    <2> QED
      BY <1>m, <2>2, <2>4
  <1>16. ASSUME NEW p \in Procs, FaultStep(p) PROVE Reported'
    <2>1. ~Abort(p)
      BY <1>0 DEF Abort
    <2>2. ~RetryStepFails(p)
      BY <1>t DEF RetryStepFails
    <2>3. SubmitEnqueueFails(p) => p \in Producers
      BY DEF SubmitEnqueueFails, IInv, Roles
    <2> QED
      BY <1>3, <1>14, <1>15, <1>16, <2>1, <2>2, <2>3 DEF FaultStep
  <1>17. ASSUME NEW p \in Consumers PROVE ~RetryStep(p)
    BY <1>t DEF RetryStep, RetryResult, RetryUpdate, RetryIndex, RetryLookup, RetryDelete,
                RetrySave, RetryFill, RetryEnqueue
  <1>18. CASE UNCHANGED vars
    BY <1>18 DEF vars, Reported, ConsumersReport, ReapersReport, SubmittedAnew,
                 ResultMatchesOutcome, Holds, Busy
  <1> QED
    BY <1>1, <1>2, <1>3, <1>4, <1>5, <1>6, <1>7, <1>8, <1>9, <1>10, <1>11, <1>12, <1>13,
       <1>16, <1>17, <1>18
       DEF Next, SubmitStep, CancelStep, ClaimStep, ReportStep

\* A task that succeeded or was skipped shows that result, for tasks that are not retried
\* (DefaultMaxRetries is 0) and calls that are not cut short, whatever operations fail.
THEOREM ResultMatchesOutcomeHolds ==
  ASSUME Setting, MaxRetries = 0, MaxAborts = 0
  PROVE  Spec => []ResultMatchesOutcome
  <1>1. Init => Reported
    BY DEF Init, Reported, ConsumersReport, ReapersReport, SubmittedAnew, ResultMatchesOutcome,
           Holds, Busy
  <1>2. IInv /\ Reported /\ [Next]_vars => Reported'
    BY ReportedNext
  <1>3. Reported => ResultMatchesOutcome
    BY DEF Reported
  <1> QED
    BY <1>1, <1>2, <1>3, Invariance, PTL DEF Spec

==============================================================================
