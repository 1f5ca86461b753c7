------------------------------ MODULE TaskEngine ------------------------------
(***************************************************************************)
(* The unified task engine (taskengine/engine_impl.go) over its two stores   *)
(* (store_redis.go, store_memory.go), with the stale task reaper             *)
(* (taskmanager/reaper_engine.go).                                           *)
(*                                                                         *)
(* Every API call runs on a goroutine of its own and touches the store in    *)
(* several separate operations; one store operation is one step here, so the *)
(* calls of producers, consumers and reapers interleave between any two of   *)
(* them.  A consumer runs one claimed task at a time: it claims, executes    *)
(* (pc = "exec", the work happens outside this program) and reports.         *)
(*                                                                         *)
(* The payload, timestamps, event publication, and the per-agent and legacy  *)
(* copies Redis keeps for listings are left out; time is abstracted: any     *)
(* task in the running index may be overdue when a reaper scans.  The queues *)
(* are kept as a number of occurrences per task: the engine may pop any task *)
(* of the first non-empty queue.                                             *)
(***************************************************************************)
EXTENDS Naturals, Sequences, FiniteSets, TaskModel

CONSTANTS
  Tasks,       \* task IDs
  Producers,   \* goroutines that call Submit and Cancel
  Consumers,   \* goroutines that call Claim, execute, and call Report
  Reapers,     \* one stale task reaper per collector process
  QueueOf,     \* [Tasks -> queue], the router's Route
  Listens,     \* [Consumers -> Seq(queue)], the router's MatchQueues
  MaxRetries,  \* Task.MaxRetries after applyDefaults
  Store,       \* "redis" or "memory"
  Outcomes,    \* statuses a consumer reports
  MaxResends,  \* bound: reports delivered more than once
  MaxAborts,   \* bound: calls cut short by a crash or a returned error
  MaxFailures, \* bound: failed store operations after which the call goes on
  NULL

VARIABLES
  status, claimedBy, retries,  \* the task's record (te:{id}:meta, or tasks[id])
  queued,      \* how often the task's ID is in its queue
  running,     \* the running_deadlines index
  pending,     \* the pending index
  group,       \* the members of the (one) group set
  result,      \* status of the stored TaskResult, or NULL
  pc, task,    \* where each process is, and the task its call is about
  out,         \* the status being reported
  snap,        \* Task.RetryCount as the call read it
  from,        \* the status UpdateTaskStatus replaced, for updateIndex
  overdue,     \* what the reaper's scan returned and it has not handled yet
  handed,      \* history: deliveries to a consumer since the last Submit
  resends, aborts, failures

record == <<status, claimedBy, retries>>
indexes == <<running, pending, group>>
locals == <<out, snap, from>>
faults == <<aborts, failures>>
history == <<handed, resends, faults>>
vars == <<record, queued, indexes, result, pc, task, locals, overdue, history>>

Procs == Producers \cup Consumers \cup Reapers

ASSUME ProcsDisjoint ==
  /\ Producers \cap Consumers = {}
  /\ Producers \cap Reapers = {}
  /\ Consumers \cap Reapers = {}
ASSUME BoundsAreNat == MaxRetries \in Nat /\ MaxResends \in Nat /\ MaxAborts \in Nat
                       /\ MaxFailures \in Nat
ASSUME StoreKind == Store \in {"redis", "memory"}
ASSUME OutcomesReported == Outcomes \subseteq {"success", "failed", "skipped"}
ASSUME NullIsNoValue == NULL \notin Consumers \cup Tasks \cup StoredStatuses

SubmitPcs == {"sub_save", "sub_fill", "sub_enqueue", "undo_lookup", "undo_delete"}
CancelPcs == {"can_update", "can_index", "can_remove"}
ClaimPcs == {"clm_update", "clm_index", "clm_get"}
ReportPcs == {"rep_get", "rep_update", "rep_index", "rep_result"}
RetryPcs == {"try_result", "try_update", "try_index", "try_lookup", "try_delete",
             "try_save", "try_fill", "try_enqueue"}
Pcs == {"idle", "exec"} \cup SubmitPcs \cup CancelPcs \cup ClaimPcs \cup ReportPcs
         \cup RetryPcs

(***************************************************************************)
(* Control flow                                                              *)
(***************************************************************************)
At(p, l) == pc[p] = l
Goto(p, l) == pc' = [pc EXCEPT ![p] = l] /\ UNCHANGED <<task, locals>>

Begin(p, l, t) ==
  /\ pc' = [pc EXCEPT ![p] = l]
  /\ task' = [task EXCEPT ![p] = t]

\* The call returns, whatever it answers, and its local variables are gone.
Return(p) ==
  /\ pc' = [pc EXCEPT ![p] = "idle"]
  /\ task' = [task EXCEPT ![p] = NULL]
  /\ out' = [out EXCEPT ![p] = NULL]
  /\ snap' = [snap EXCEPT ![p] = 0]
  /\ from' = [from EXCEPT ![p] = NULL]

\* A store operation fails and the call goes on.
Failure == failures < MaxFailures /\ failures' = failures + 1 /\ UNCHANGED aborts

\* Report returns; the agent may deliver the same report again.
ReportReturns(p) ==
  \/ Return(p) /\ UNCHANGED resends
  \/ /\ p \in Consumers /\ resends < MaxResends
     /\ resends' = resends + 1
     /\ Goto(p, "rep_get")

(***************************************************************************)
(* Store operations                                                          *)
(***************************************************************************)
Outcome(cur, new) ==
  IF Store = "redis" THEN RedisOutcome(cur, new) ELSE MemoryOutcome(cur, new)

\* Mutant of Update: the claimer is not recorded.
UpdateAnonymous(t, new, by) ==
  IF Outcome(status[t], new) = "OK"
  THEN status' = [status EXCEPT ![t] = new] /\ UNCHANGED <<claimedBy, retries>>
  ELSE UNCHANGED record

\* UpdateTaskStatus up to the atomic transition.  Where the task has that status
\* already, the memory store still records who claims it, and Redis nothing.
Update(t, new, by) ==
  LET o == Outcome(status[t], new)
  IN IF o = "OK" \/ (o = "SAME" /\ Store = "memory")
     THEN /\ status' = IF o = "OK" THEN [status EXCEPT ![t] = new] ELSE status
          /\ claimedBy' = [claimedBy EXCEPT ![t] = IF by = NULL THEN @ ELSE by]
          /\ UNCHANGED retries
     ELSE UNCHANGED record

\* After the transition the Redis store goes on to updateIndex, which is told
\* the status that was replaced; the memory store keeps no index.
Transitioned(p, index, next) ==
  IF Store = "redis"
  THEN /\ pc' = [pc EXCEPT ![p] = index]
       /\ from' = [from EXCEPT ![p] = status[task[p]]]
       /\ UNCHANGED <<task, out, snap>>
  ELSE Goto(p, next)

\* Mutant of UpdateIndex: entries are removed from the running index, never added.
UpdateIndexRemoveOnly(p, t, new) ==
  /\ running' = IF from[p] = "running" THEN running \ {t} ELSE running
  /\ pending' = IF from[p] = "pending" THEN pending \ {t} ELSE pending
  /\ UNCHANGED group

\* RedisStore.updateIndex, a pipeline of its own after the transition.
UpdateIndex(p, t, new) ==
  /\ running' = IF new = "running" THEN running \cup {t}
                ELSE IF from[p] = "running" THEN running \ {t} ELSE running
  /\ pending' = IF from[p] = "pending" THEN pending \ {t} ELSE pending
  /\ UNCHANGED group

\* RedisStore.DeleteTask looks the task up before its pipeline.
DeleteFrom(lookup, delete) == IF Store = "redis" THEN lookup ELSE delete

\* Mutant of DeleteRecord: the pipeline leaves the hash of the task.
DeleteRecordLeavesHash(t) ==
  /\ running' = running \ {t}
  /\ pending' = pending \ {t}
  /\ group' = group \ {t}
  /\ result' = [result EXCEPT ![t] = NULL]
  /\ UNCHANGED <<record, queued>>

\* The pipeline of RedisStore.DeleteTask (which leaves queues alone), or
\* MemoryStore.DeleteTask (which also takes the ID out of the queues).
DeleteRecord(t) ==
  /\ status' = [status EXCEPT ![t] = "none"]
  /\ claimedBy' = [claimedBy EXCEPT ![t] = NULL]
  /\ retries' = [retries EXCEPT ![t] = 0]
  /\ running' = running \ {t}
  /\ pending' = pending \ {t}
  /\ group' = group \ {t}
  /\ result' = [result EXCEPT ![t] = NULL]
  /\ queued' = IF Store = "memory" /\ queued[t] > 0
               THEN [queued EXCEPT ![t] = @ - 1] ELSE queued

\* The full record, written by the pipeline of RedisStore.SaveTask or by
\* MemoryStore.SaveTask.
WriteRecord(t, count) ==
  /\ status' = [status EXCEPT ![t] = "pending"]
  /\ claimedBy' = [claimedBy EXCEPT ![t] = NULL]
  /\ retries' = [retries EXCEPT ![t] = count]
  /\ pending' = IF Store = "redis" THEN pending \cup {t} ELSE pending
  /\ group' = group \cup {t}
  /\ UNCHANGED running

\* Mutant of Save: SaveTask overwrites in both stores.
SaveOverwrites(p, t, count, fill, enqueue) == WriteRecord(t, count) /\ Goto(p, enqueue)

\* RedisStore.SaveTask creates the hash with HSETNX and fails if it is there;
\* MemoryStore.SaveTask overwrites what is there.
Save(p, t, count, fill, enqueue) ==
  IF Store = "redis"
  THEN /\ status' = IF status[t] = "none" THEN [status EXCEPT ![t] = "partial"] ELSE status
       /\ IF status[t] = "none" THEN Goto(p, fill) ELSE Return(p)
       /\ UNCHANGED <<claimedBy, retries, indexes>>
  ELSE WriteRecord(t, count) /\ Goto(p, enqueue)

(***************************************************************************)
(* Submit                                                                    *)
(***************************************************************************)
\* Submit of an ID GetTask finds is refused at once and changes nothing.
SubmitCheck(p, t) ==
  /\ At(p, "idle")
  /\ status[t] = "none"
  /\ Begin(p, "sub_save", t)
  /\ UNCHANGED <<record, queued, indexes, result, locals, overdue, history>>

SubmitSave(p) ==
  /\ At(p, "sub_save")
  /\ Save(p, task[p], 0, "sub_fill", "sub_enqueue")
  /\ handed' = IF Store = "memory" THEN [handed EXCEPT ![task[p]] = 0] ELSE handed
  /\ UNCHANGED <<queued, result, overdue, resends, faults>>

SubmitFill(p) ==
  /\ At(p, "sub_fill")
  /\ WriteRecord(task[p], 0)
  /\ Goto(p, "sub_enqueue")
  /\ handed' = [handed EXCEPT ![task[p]] = 0]
  /\ UNCHANGED <<queued, result, overdue, resends, faults>>

SubmitEnqueue(p) ==
  /\ At(p, "sub_enqueue")
  /\ queued' = [queued EXCEPT ![task[p]] = @ + 1]
  /\ Return(p)
  /\ UNCHANGED <<record, indexes, result, overdue, history>>

\* Enqueue failed: Submit rolls the save back with DeleteTask.
SubmitEnqueueFails(p) ==
  /\ At(p, "sub_enqueue")
  /\ Failure
  /\ Goto(p, DeleteFrom("undo_lookup", "undo_delete"))
  /\ UNCHANGED <<record, queued, indexes, result, overdue, handed, resends>>

UndoLookup(p) ==
  /\ At(p, "undo_lookup")
  /\ IF status[task[p]] = "none" THEN Return(p) ELSE Goto(p, "undo_delete")
  /\ UNCHANGED <<record, queued, indexes, result, overdue, history>>

UndoDelete(p) ==
  /\ At(p, "undo_delete")
  /\ DeleteRecord(task[p])
  /\ Return(p)
  /\ UNCHANGED <<overdue, history>>

(***************************************************************************)
(* Cancel                                                                    *)
(***************************************************************************)
\* Cancel of an unknown or terminal task returns at once and changes nothing.
CancelCheck(p, t) ==
  /\ At(p, "idle")
  /\ status[t] \notin Terminal \cup {"none"}
  /\ Begin(p, "can_update", t)
  /\ UNCHANGED <<record, queued, indexes, result, locals, overdue, history>>

CancelUpdate(p) ==
  LET t == task[p]
      o == Outcome(status[t], "cancelled")
  IN /\ At(p, "can_update")
     /\ Update(t, "cancelled", NULL)
     /\ \/ o = "OK" /\ Transitioned(p, "can_index", "can_remove")
        \/ o = "SAME" /\ Goto(p, "can_remove")
        \/ o \notin {"OK", "SAME"} /\ Return(p)
     /\ UNCHANGED <<queued, indexes, result, overdue, history>>

CancelIndex(p) ==
  /\ At(p, "can_index")
  /\ UpdateIndex(p, task[p], "cancelled")
  /\ Goto(p, "can_remove")
  /\ UNCHANGED <<record, queued, result, overdue, history>>

\* RemoveFromQueue: Redis removes every occurrence, memory the first.
CancelRemove(p) ==
  /\ At(p, "can_remove")
  /\ queued' = [queued EXCEPT ![task[p]] =
                  IF Store = "redis" \/ @ = 0 THEN 0 ELSE @ - 1]
  /\ Return(p)
  /\ UNCHANGED <<record, indexes, result, overdue, history>>

(***************************************************************************)
(* Claim                                                                     *)
(***************************************************************************)
\* t is in the first of c's queues that is not empty.
Dequeuable(c, t) ==
  /\ queued[t] > 0
  /\ \E i \in 1..Len(Listens[c]) :
       /\ Listens[c][i] = QueueOf[t]
       /\ \A j \in 1..(i - 1), u \in Tasks : QueueOf[u] = Listens[c][j] => queued[u] = 0

ClaimDequeue(c, t) ==
  /\ At(c, "idle")
  /\ Dequeuable(c, t)
  /\ queued' = [queued EXCEPT ![t] = @ - 1]
  /\ Begin(c, "clm_update", t)
  /\ UNCHANGED <<record, indexes, result, locals, overdue, history>>

\* A refused transition drops the popped ID.
ClaimUpdate(c) ==
  LET t == task[c]
      o == Outcome(status[t], "running")
  IN /\ At(c, "clm_update")
     /\ Update(t, "running", c)
     /\ \/ o = "OK" /\ Transitioned(c, "clm_index", "clm_get")
        \/ o = "SAME" /\ Goto(c, "clm_get")
        \/ o \notin {"OK", "SAME"} /\ Return(c)
     /\ UNCHANGED <<queued, indexes, result, overdue, history>>

ClaimIndex(c) ==
  /\ At(c, "clm_index")
  /\ UpdateIndex(c, task[c], "running")
  /\ Goto(c, "clm_get")
  /\ UNCHANGED <<record, queued, result, overdue, history>>

\* The task is handed to the consumer, in whatever status it is by now.
ClaimGet(c) ==
  /\ At(c, "clm_get")
  /\ IF status[task[c]] = "none"
     THEN Return(c) /\ UNCHANGED handed
     ELSE Goto(c, "exec") /\ handed' = [handed EXCEPT ![task[c]] = @ + 1]
  /\ UNCHANGED <<record, queued, indexes, result, overdue, resends, faults>>

(***************************************************************************)
(* Report, by the consumer that executed the task or by a reaper             *)
(***************************************************************************)
Finish(c, o) ==
  /\ At(c, "exec")
  /\ pc' = [pc EXCEPT ![c] = "rep_get"]
  /\ out' = [out EXCEPT ![c] = o]
  /\ UNCHANGED <<record, queued, indexes, result, task, snap, from, overdue, history>>

\* Mutant of CanRetry: one retry too many.
CanRetryInclusive(t) == status[t] # "partial" /\ retries[t] <= MaxRetries

CanRetry(t) == status[t] # "partial" /\ retries[t] < MaxRetries

ReportGet(p) ==
  LET t == task[p]
  IN /\ At(p, "rep_get")
     /\ \/ /\ status[t] = "none"
           /\ ReportReturns(p)
        \/ /\ status[t] # "none"
           /\ pc' = [pc EXCEPT ![p] = IF out[p] = "failed" /\ CanRetry(t)
                                      THEN "try_result" ELSE "rep_update"]
           /\ snap' = [snap EXCEPT ![p] = retries[t]]
           /\ UNCHANGED <<task, out, from, resends>>
     /\ UNCHANGED <<record, queued, indexes, result, overdue, handed, faults>>

\* An InvalidTransitionError is tolerated, any other refusal is returned.
ReportUpdate(p) ==
  LET t == task[p]
      o == Outcome(status[t], out[p])
  IN /\ At(p, "rep_update")
     /\ Update(t, out[p], NULL)
     /\ \/ o = "OK" /\ Transitioned(p, "rep_index", "rep_result") /\ UNCHANGED resends
        \/ o \in {"SAME", "INVALID"} /\ Goto(p, "rep_result") /\ UNCHANGED resends
        \/ o \in {"TERMINAL", "NOT_FOUND"} /\ ReportReturns(p)
     /\ UNCHANGED <<queued, indexes, result, overdue, handed, faults>>

ReportIndex(p) ==
  /\ At(p, "rep_index")
  /\ UpdateIndex(p, task[p], out[p])
  /\ Goto(p, "rep_result")
  /\ UNCHANGED <<record, queued, result, overdue, history>>

ReportResult(p) ==
  /\ At(p, "rep_result")
  /\ result' = [result EXCEPT ![task[p]] = out[p]]
  /\ ReportReturns(p)
  /\ UNCHANGED <<record, queued, indexes, overdue, handed, faults>>

(***************************************************************************)
(* retryTask                                                                 *)
(***************************************************************************)
RetryResult(p) ==
  /\ At(p, "try_result")
  /\ result' = [result EXCEPT ![task[p]] = "failed"]
  /\ Goto(p, "try_update")
  /\ UNCHANGED <<record, queued, indexes, overdue, history>>

RetryUpdate(p) ==
  LET t == task[p]
      o == Outcome(status[t], "failed")
      delete == DeleteFrom("try_lookup", "try_delete")
  IN /\ At(p, "try_update")
     /\ Update(t, "failed", NULL)
     /\ \/ o = "OK" /\ Transitioned(p, "try_index", delete) /\ UNCHANGED resends
        \/ o \in {"SAME", "INVALID"} /\ Goto(p, delete) /\ UNCHANGED resends
        \/ o \in {"TERMINAL", "NOT_FOUND"} /\ ReportReturns(p)
     /\ UNCHANGED <<queued, indexes, result, overdue, handed, faults>>

RetryIndex(p) ==
  /\ At(p, "try_index")
  /\ UpdateIndex(p, task[p], "failed")
  /\ Goto(p, "try_lookup")
  /\ UNCHANGED <<record, queued, result, overdue, history>>

RetryLookup(p) ==
  /\ At(p, "try_lookup")
  /\ Goto(p, IF status[task[p]] = "none" THEN "try_save" ELSE "try_delete")
  /\ UNCHANGED <<record, queued, indexes, result, overdue, history>>

RetryDelete(p) ==
  /\ At(p, "try_delete")
  /\ IF Store = "memory" /\ status[task[p]] = "none"
     THEN UNCHANGED <<record, queued, indexes, result>>
     ELSE DeleteRecord(task[p])
  /\ Goto(p, "try_save")
  /\ UNCHANGED <<overdue, history>>

\* The copy of the task read at the start, with one more retry counted.
RetrySave(p) ==
  /\ At(p, "try_save")
  /\ Save(p, task[p], snap[p] + 1, "try_fill", "try_enqueue")
  /\ UNCHANGED <<queued, result, overdue, history>>

\* Mutant of RetryFill: the retry is not counted.
RetryFillUncounted(p) ==
  /\ At(p, "try_fill")
  /\ WriteRecord(task[p], snap[p])
  /\ Goto(p, "try_enqueue")
  /\ UNCHANGED <<queued, result, overdue, history>>

RetryFill(p) ==
  /\ At(p, "try_fill")
  /\ WriteRecord(task[p], snap[p] + 1)
  /\ Goto(p, "try_enqueue")
  /\ UNCHANGED <<queued, result, overdue, history>>

\* Mutant of RetryEnqueue: the saved copy is not queued.
RetryEnqueueForgotten(p) ==
  /\ At(p, "try_enqueue")
  /\ ReportReturns(p)
  /\ UNCHANGED <<record, queued, indexes, result, overdue, handed, faults>>

RetryEnqueue(p) ==
  /\ At(p, "try_enqueue")
  /\ queued' = [queued EXCEPT ![task[p]] = @ + 1]
  /\ ReportReturns(p)
  /\ UNCHANGED <<record, indexes, result, overdue, handed, faults>>

(***************************************************************************)
(* The stale task reaper (scanOptimized)                                     *)
(***************************************************************************)
\* GetOverdueRunningTasks reads the index; the memory store walks its tasks.
RunningIndex ==
  IF Store = "redis" THEN running ELSE {t \in Tasks : status[t] = "running"}

Scan(r) ==
  /\ At(r, "idle")
  /\ overdue[r] = {}
  /\ \E due \in SUBSET RunningIndex \ {{}} : overdue' = [overdue EXCEPT ![r] = due]
  /\ UNCHANGED <<record, queued, indexes, result, pc, task, locals, history>>

\* GetTaskMeta confirms that the task is still running, then Report(timeout).
ReapCheck(r, t) ==
  /\ At(r, "idle")
  /\ t \in overdue[r]
  /\ overdue' = [overdue EXCEPT ![r] = @ \ {t}]
  /\ IF status[t] = "running"
     THEN Begin(r, "rep_get", t) /\ out' = [out EXCEPT ![r] = "timeout"]
     ELSE UNCHANGED <<pc, task, out>>
  /\ UNCHANGED <<record, queued, indexes, result, snap, from, history>>

(***************************************************************************)
(* Crashes and failed store operations                                       *)
(***************************************************************************)
\* The process crashes between two store operations, or the next one fails and
\* the call returns its error.  At "exec" it is the agent that dies.
Abort(p) ==
  /\ pc[p] # "idle"
  /\ aborts < MaxAborts /\ aborts' = aborts + 1 /\ UNCHANGED failures
  /\ Return(p)
  /\ UNCHANGED <<record, queued, indexes, result, overdue, handed, resends>>

\* updateIndex fails: logged, and the call goes on.
IndexFails(p) ==
  /\ \/ At(p, "can_index") /\ Goto(p, "can_remove")
     \/ At(p, "clm_index") /\ Goto(p, "clm_get")
     \/ At(p, "rep_index") /\ Goto(p, "rep_result")
     \/ At(p, "try_index") /\ Goto(p, "try_lookup")
  /\ Failure
  /\ UNCHANGED <<record, queued, indexes, result, overdue, handed, resends>>

\* The pipeline of SaveTask fails after some of its commands: the hash is
\* deleted again, the index and group entries are not.
FillFails(p) ==
  LET t == task[p]
  IN /\ pc[p] \in {"sub_fill", "try_fill"}
     /\ Failure
     /\ status' = [status EXCEPT ![t] = "none"]
     /\ \E written \in SUBSET {"pending", "group"} :
          /\ pending' = IF "pending" \in written THEN pending \cup {t} ELSE pending
          /\ group' = IF "group" \in written THEN group \cup {t} ELSE group
     /\ Return(p)
     /\ UNCHANGED <<claimedBy, retries, queued, running, result, overdue,
                    handed, resends>>

\* retryTask goes on when SaveResult or DeleteTask fails.
RetryStepFails(p) ==
  /\ \/ At(p, "try_result") /\ Goto(p, "try_update")
     \/ pc[p] \in {"try_lookup", "try_delete"} /\ Goto(p, "try_save")
  /\ Failure
  /\ UNCHANGED <<record, queued, indexes, result, overdue, handed, resends>>

(***************************************************************************)
(* Specification                                                             *)
(***************************************************************************)
Init ==
  /\ status = [t \in Tasks |-> "none"]
  /\ claimedBy = [t \in Tasks |-> NULL]
  /\ retries = [t \in Tasks |-> 0]
  /\ queued = [t \in Tasks |-> 0]
  /\ running = {} /\ pending = {} /\ group = {}
  /\ result = [t \in Tasks |-> NULL]
  /\ pc = [p \in Procs |-> "idle"]
  /\ task = [p \in Procs |-> NULL]
  /\ out = [p \in Procs |-> NULL]
  /\ snap = [p \in Procs |-> 0]
  /\ from = [p \in Procs |-> NULL]
  /\ overdue = [r \in Reapers |-> {}]
  /\ handed = [t \in Tasks |-> 0]
  /\ resends = 0 /\ aborts = 0 /\ failures = 0

SubmitStep(p) ==
  \/ SubmitSave(p) \/ SubmitFill(p) \/ SubmitEnqueue(p)
  \/ UndoLookup(p) \/ UndoDelete(p)

CancelStep(p) == CancelUpdate(p) \/ CancelIndex(p) \/ CancelRemove(p)

ClaimStep(c) == ClaimUpdate(c) \/ ClaimIndex(c) \/ ClaimGet(c)

ReportStep(p) == ReportGet(p) \/ ReportUpdate(p) \/ ReportIndex(p) \/ ReportResult(p)

RetryStep(p) ==
  \/ RetryResult(p) \/ RetryUpdate(p) \/ RetryIndex(p)
  \/ RetryLookup(p) \/ RetryDelete(p) \/ RetrySave(p) \/ RetryFill(p) \/ RetryEnqueue(p)

FaultStep(p) ==
  Abort(p) \/ SubmitEnqueueFails(p) \/ IndexFails(p) \/ FillFails(p) \/ RetryStepFails(p)

Next ==
  \/ \E p \in Producers : \/ \E t \in Tasks : SubmitCheck(p, t) \/ CancelCheck(p, t)
                          \/ SubmitStep(p) \/ CancelStep(p)
  \/ \E c \in Consumers : \/ \E t \in Tasks : ClaimDequeue(c, t)
                          \/ \E o \in Outcomes : Finish(c, o)
                          \/ ClaimStep(c) \/ ReportStep(c) \/ RetryStep(c)
  \/ \E r \in Reapers : \/ Scan(r)
                        \/ \E t \in Tasks : ReapCheck(r, t)
                        \/ ReportStep(r)
  \/ \E p \in Procs : FaultStep(p)

Spec == Init /\ [][Next]_vars

(***************************************************************************)
(* Fairness: a call that has begun runs to its end (its goroutine is         *)
(* scheduled and its context is not cancelled), an idle consumer polls       *)
(* (the claim loops of the agent gateway and of the lifecycle workers), and  *)
(* every task that stays in the running index is overdue at some scan.       *)
(* Nothing makes a producer call, an agent finish (or die), or a fault       *)
(* happen.                                                                   *)
(***************************************************************************)
AgentsFinish == \A c \in Consumers : WF_vars(\E o \in Outcomes : Finish(c, o))

Fairness ==
  /\ \A p \in Producers : WF_vars(SubmitStep(p)) /\ WF_vars(CancelStep(p))
  /\ \A c \in Consumers : /\ WF_vars(ClaimStep(c) \/ ReportStep(c) \/ RetryStep(c))
                          /\ WF_vars(\E t \in Tasks : ClaimDequeue(c, t))
  /\ \A r \in Reapers : /\ WF_vars(ReportStep(r) \/ \E t \in Tasks : ReapCheck(r, t))
                        /\ \A t \in Tasks : SF_vars(Scan(r) /\ t \in overdue'[r])

FairSpec == Spec /\ Fairness /\ AgentsFinish

\* Agents may die or hang while they execute.
HangingAgentsSpec == Spec /\ Fairness

(***************************************************************************)
(* Properties                                                                *)
(***************************************************************************)
TypeOK ==
  /\ status \in [Tasks -> StoredStatuses]
  /\ claimedBy \in [Tasks -> Consumers \cup {NULL}]
  /\ retries \in [Tasks -> 0..MaxRetries]
  /\ queued \in [Tasks -> Nat]
  /\ running \subseteq Tasks /\ pending \subseteq Tasks /\ group \subseteq Tasks
  /\ result \in [Tasks -> Statuses \cup {NULL}]
  /\ pc \in [Procs -> Pcs]
  /\ task \in [Procs -> Tasks \cup {NULL}]
  /\ out \in [Procs -> Statuses \cup {NULL}]
  /\ snap \in [Procs -> 0..MaxRetries]
  /\ from \in [Procs -> Statuses \cup {NULL}]
  /\ overdue \in [Reapers -> SUBSET Tasks]
  /\ handed \in [Tasks -> Nat]
  /\ resends \in 0..MaxResends /\ aborts \in 0..MaxAborts /\ failures \in 0..MaxFailures

\* p runs a call about t and is at one of the points ls.
Busy(p, t, ls) == task[p] = t /\ pc[p] \in ls

\* Two consumers never execute the same task at the same time, whatever calls
\* crash, fail or race: Claim "atomically dequeues a task and marks it as
\* running" (engine_impl.go).
ExclusiveExecution ==
  \A t \in Tasks, c, d \in Consumers :
    Busy(c, t, {"exec"}) /\ Busy(d, t, {"exec"}) => c = d

\* A task that has succeeded, was skipped or was cancelled never takes another
\* status ("Fully terminal states - no outgoing transitions", state_machine.go);
\* only the rollback of a Submit whose Enqueue failed removes it.
FullyTerminalIsFinal ==
  [][\A t \in Tasks : status[t] \in FullyTerminal =>
       \/ status'[t] = status[t]
       \/ \E p \in Producers : Busy(p, t, {"undo_delete"})]_vars

\* Over Redis, and as long as nothing has failed, no task is lost between Submit or
\* retryTask and a consumer: a pending task is in its queue, or a call is about to put
\* it there, or has just taken it out to run it.
PendingIsReachable ==
  aborts = 0 /\ failures = 0 => \A t \in Tasks : status[t] = "pending" =>
    \/ queued[t] > 0
    \/ \E p \in Procs : Busy(p, t, {"sub_enqueue", "try_enqueue", "clm_update"})

\* As long as no call is cut short, a running task belongs to the consumer that its record
\* names, and that consumer is still working on it or reporting it.
RunningIsOwned ==
  aborts = 0 => \A t \in Tasks : status[t] = "running" =>
    \E c \in Consumers :
      /\ claimedBy[t] = c
      /\ Busy(c, t, {"clm_index", "clm_get", "exec", "rep_get", "rep_update",
                     "try_result", "try_update"})

\* A task that succeeded or was skipped shows that result as soon as the Report
\* that moved it has saved it, and no later Report, retry or reaper replaces it.
ResultMatchesOutcome ==
  \A t \in Tasks : status[t] \in {"success", "skipped"} =>
    \/ result[t] = status[t]
    \/ \E c \in Consumers : Busy(c, t, {"rep_index", "rep_result"}) /\ out[c] = status[t]

\* As long as no call is cut short, a task that a report or a reaper has ended shows a
\* result (that of the call that lost the race, if both saved theirs), or a call is about
\* to save one or to try the task again: nobody who sees the end waits for ever.
EndedTasksShowResults ==
  aborts = 0 => \A t \in Tasks : status[t] \in {"success", "skipped", "failed", "timeout"} =>
    \/ result[t] # NULL
    \/ \E p \in Procs : Busy(p, t, {"rep_index", "rep_result"} \cup RetryPcs)

\* "Task already in terminal state (race condition) - save result anyway"
\* (engine_impl.go): a report that finds its task ended goes on to save its result.
RacedResultIsSaved ==
  \A p \in Consumers \cup Reapers :
    At(p, "rep_update") /\ status[task[p]] \in Terminal =>
      Outcome(status[task[p]], out[p]) \in {"OK", "SAME", "INVALID"}

\* Every attempt of a submitted task comes to an end while agents answer: it is
\* claimed and reported, cancelled, or timed out by the reaper.
TasksAreDecided == \A t \in Tasks : status[t] = "pending" ~> status[t] \in Terminal

\* "StaleTaskReaperEngine periodically scans for stale RUNNING tasks ... and marks
\* them as TIMEOUT": a task does not stay running for ever, even when the agent
\* that executes it never answers.
RunningTasksEnd == \A t \in Tasks : status[t] = "running" ~> status[t] # "running"

==============================================================================
