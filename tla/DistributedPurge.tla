--------------------------- MODULE DistributedPurge ---------------------------
(***************************************************************************)
(* The distributed purge of expired indices: every replica's scheduler        *)
(* (lifecycle/scheduler.go) runs a cycle in which one replica, elected in     *)
(* Redis (leader_elector.go), plans an epoch and submits a task per index to   *)
(* the task engine, and all replicas claim and execute the tasks              *)
(* (lifecycle/engine_adapter.go).                                             *)
(*                                                                         *)
(* Of the engine only what the purge sees of it is kept: how many tasks per   *)
(* index wait in its queue (WorkerConcurrency only paces their execution).  A *)
(* failed task is retried by the engine or not; a task whose worker died is   *)
(* timed out and not retried.  Time is abstracted: locks and markers may      *)
(* expire when the comments at their actions say so.                          *)
(***************************************************************************)
EXTENDS Naturals, FiniteSets

CONSTANTS
  Nodes,       \* the replicas
  Indices,     \* the date-partitioned indices of the signals
  Threshold,   \* DistributedThreshold
  DryRun,      \* SchedulerConfig.DryRun
  MaxFaults,   \* bound: crashes, lapsed locks and failed operations
  NULL

VARIABLES
  index,   \* [Indices -> "live", "expired" or "gone"]
  leader,  \* lifecycle:leader
  marker,  \* whether lifecycle:active_epoch is set
  queue,   \* [Indices -> how many tasks for it are queued]
  pc,      \* where a replica's cycle is
  leads,   \* whether the cycle runs as the leader
  plan,    \* the indices of the epoch it planned, or of its single-node purge
  work,    \* [Nodes -> [Indices -> tasks it has claimed and is executing]]
  faults

vars == <<index, leader, marker, queue, pc, leads, plan, work, faults>>

At(n, l) == pc[n] = l
Goto(n, l) == pc' = [pc EXCEPT ![n] = l]
Fault == faults < MaxFaults /\ faults' = faults + 1

Expired == {i \in Indices : index[i] = "expired"}
Deleted(i) == index' = [index EXCEPT ![i] = "gone"]
TaskCounts == 0..(Cardinality(Nodes) + MaxFaults)
Planning == {"plan", "mark", "submit"}

(***************************************************************************)
(* Election                                                                  *)
(***************************************************************************)
\* GetActiveEpoch: an epoch is joined as a worker.
Look(n) ==
  /\ At(n, "idle")
  /\ leads' = [leads EXCEPT ![n] = FALSE]
  /\ plan' = [plan EXCEPT ![n] = {}]
  /\ Goto(n, IF marker THEN "work" ELSE "elect")
  /\ UNCHANGED <<index, leader, marker, queue, work, faults>>

\* Mutant of Elect: the lock is taken whoever holds it.
ElectAlways(n) ==
  /\ At(n, "elect")
  /\ leader' = n
  /\ leads' = [leads EXCEPT ![n] = TRUE]
  /\ Goto(n, "plan")
  /\ UNCHANGED <<index, marker, queue, plan, work, faults>>

\* TryBecomeLeader: SET NX.
Elect(n) ==
  /\ At(n, "elect")
  /\ leader' = IF leader = NULL THEN n ELSE leader
  /\ leads' = [leads EXCEPT ![n] = leader = NULL]
  /\ Goto(n, IF leader = NULL THEN "plan" ELSE "wait")
  /\ UNCHANGED <<index, marker, queue, plan, work, faults>>

\* Not elected: two seconds later the epoch is looked up once more.
Wait(n) ==
  /\ At(n, "wait")
  /\ Goto(n, IF marker THEN "work" ELSE "idle")
  /\ UNCHANGED <<index, leader, marker, queue, leads, plan, work, faults>>

(***************************************************************************)
(* The leader's cycle                                                        *)
(***************************************************************************)
\* planTasks.  Too few tasks are left to the single-node purge.
PlanTasks(n) ==
  /\ At(n, "plan")
  /\ plan' = [plan EXCEPT ![n] = Expired]
  /\ Goto(n, IF Expired = {} THEN "unlock"
             ELSE IF Cardinality(Expired) <= Threshold THEN "unlock_single" ELSE "mark")
  /\ UNCHANGED <<index, leader, marker, queue, leads, work, faults>>

\* SetActiveEpoch.
Mark(n) ==
  /\ At(n, "mark")
  /\ marker' = TRUE
  /\ Goto(n, "submit")
  /\ UNCHANGED <<index, leader, queue, leads, plan, work, faults>>

\* SubmitBatch goes through all tasks, whatever fails, and returns the first
\* error.
Submitted(is) == queue' = [i \in Indices |-> queue[i] + IF i \in is THEN 1 ELSE 0]

Submit(n) ==
  /\ At(n, "submit")
  /\ Submitted(plan[n])
  /\ Goto(n, "work")
  /\ UNCHANGED <<index, leader, marker, leads, plan, work, faults>>

\* Some tasks were not submitted: the marker stays and the single-node purge runs.
SubmitFails(n) ==
  /\ At(n, "submit") /\ Fault
  /\ \E is \in SUBSET plan[n] : is # plan[n] /\ Submitted(is)
  /\ Goto(n, "unlock_single")
  /\ UNCHANGED <<index, leader, marker, leads, plan, work>>

\* verifyAndComplete waits until the tasks of the epoch are done or VerifyTimeout
\* has passed.  The deadline is longer than TaskTimeout: it passes only for tasks
\* that the engine has queued again.
Verify(n) ==
  /\ At(n, "verify")
  /\ \A m \in Nodes, i \in plan[n] : work[m][i] = 0
  /\ Goto(n, "clear")
  /\ UNCHANGED <<index, leader, marker, queue, leads, plan, work, faults>>

\* ClearActiveEpoch, whoever has set it.
Clear(n) ==
  /\ At(n, "clear")
  /\ marker' = FALSE
  /\ Goto(n, "unlock")
  /\ UNCHANGED <<index, leader, queue, leads, plan, work, faults>>

\* The deferred ReleaseLeader: the lock is deleted only by its holder.
Unlock(n) ==
  /\ pc[n] \in {"unlock", "unlock_single"}
  /\ leader' = IF leader = n THEN NULL ELSE leader
  /\ leads' = [leads EXCEPT ![n] = FALSE]
  /\ Goto(n, IF At(n, "unlock") THEN "idle" ELSE "single")
  /\ UNCHANGED <<index, marker, queue, plan, work, faults>>

(***************************************************************************)
(* The worker phase of leader and followers                                  *)
(***************************************************************************)
Working(n) == {i \in Indices : work[n][i] > 0}

ClaimTask(n, i) ==
  /\ At(n, "work") /\ queue[i] > 0
  /\ queue' = [queue EXCEPT ![i] = @ - 1]
  /\ work' = [work EXCEPT ![n][i] = @ + 1]
  /\ UNCHANGED <<index, leader, marker, pc, leads, plan, faults>>

\* DeleteSingleIndex succeeds, also for an index that is gone, and is reported.
Delete(n, i) ==
  /\ work[n][i] > 0
  /\ Deleted(i)
  /\ work' = [work EXCEPT ![n][i] = @ - 1]
  /\ UNCHANGED <<leader, marker, queue, pc, leads, plan, faults>>

\* It fails, or times out: the engine queues the task again, or the attempt was
\* its last.
DeleteFails(n, i) ==
  /\ work[n][i] > 0 /\ Fault
  /\ work' = [work EXCEPT ![n][i] = @ - 1]
  /\ queue' = [queue EXCEPT ![i] = @ + 1] \/ UNCHANGED queue
  /\ UNCHANGED <<index, leader, marker, pc, leads, plan>>

\* The queue is empty: no more claims, and the goroutines are waited for.
Drained(n) ==
  /\ At(n, "work") /\ \A i \in Indices : queue[i] = 0
  /\ Goto(n, "drain")
  /\ UNCHANGED <<index, leader, marker, queue, leads, plan, work, faults>>

\* A failed Claim ends the phase as well.
ClaimFails(n) ==
  /\ At(n, "work") /\ Fault
  /\ Goto(n, "drain")
  /\ UNCHANGED <<index, leader, marker, queue, leads, plan, work>>

PhaseEnds(n) ==
  /\ At(n, "drain") /\ Working(n) = {}
  /\ Goto(n, IF leads[n] THEN "verify" ELSE "idle")
  /\ UNCHANGED <<index, leader, marker, queue, leads, plan, work, faults>>

(***************************************************************************)
(* The single-node purge                                                     *)
(***************************************************************************)
\* purgeSignal lists the expired indices itself; a dry run only estimates.
SingleList(n) ==
  /\ At(n, "single")
  /\ plan' = [plan EXCEPT ![n] = IF DryRun THEN {} ELSE Expired]
  /\ Goto(n, "delete")
  /\ UNCHANGED <<index, leader, marker, queue, leads, work, faults>>

SingleDelete(n, i) ==
  /\ At(n, "delete") /\ i \in plan[n]
  /\ Deleted(i)
  /\ plan' = [plan EXCEPT ![n] = @ \ {i}]
  /\ UNCHANGED <<leader, marker, queue, pc, leads, work, faults>>

\* A failed deletion is logged and skipped.
SingleDeleteFails(n, i) ==
  /\ At(n, "delete") /\ i \in plan[n] /\ Fault
  /\ plan' = [plan EXCEPT ![n] = @ \ {i}]
  /\ UNCHANGED <<index, leader, marker, queue, pc, leads, work>>

SingleEnds(n) ==
  /\ At(n, "delete") /\ plan[n] = {}
  /\ Goto(n, "idle")
  /\ UNCHANGED <<index, leader, marker, queue, leads, plan, work, faults>>

(***************************************************************************)
(* Faults and time                                                           *)
(***************************************************************************)
\* A Redis error: Execute is not "handled", and the single-node purge runs.
FallsBack(n) ==
  /\ pc[n] \in {"idle", "elect", "mark"} /\ Fault
  /\ Goto(n, IF leads[n] THEN "unlock_single" ELSE "single")
  /\ UNCHANGED <<index, leader, marker, queue, leads, plan, work>>

\* The replica restarts.  Its lock and its marker stay, the engine times its
\* tasks out.
Crash(n) ==
  /\ ~At(n, "idle") /\ Fault
  /\ Goto(n, "idle")
  /\ work' = [work EXCEPT ![n] = [i \in Indices |-> 0]]
  /\ leads' = [leads EXCEPT ![n] = FALSE]
  /\ UNCHANGED <<index, leader, marker, queue, plan>>

\* The lock lives 30 seconds and is not renewed, so that an epoch outlives it.  It
\* outlives the planning of its holder, and the two operations between which a
\* candidate stands ...
LockExpires ==
  /\ leader # NULL
  /\ leads[leader] => pc[leader] \notin Planning /\ \A n \in Nodes : ~At(n, "elect")
  /\ leader' = NULL
  /\ UNCHANGED <<index, marker, queue, pc, leads, plan, work, faults>>

\* ... unless those take longer than that.
LockLapses ==
  /\ leader # NULL /\ Fault
  /\ leader' = NULL
  /\ UNCHANGED <<index, marker, queue, pc, leads, plan, work>>

\* Mutant of MarkerExpires: the marker is set without a time to live.
MarkerExpiresNever == FALSE /\ UNCHANGED vars

\* The marker lives two hours, longer than any cycle.
MarkerExpires ==
  /\ marker /\ \A n \in Nodes : ~leads[n]
  /\ marker' = FALSE
  /\ UNCHANGED <<index, leader, queue, pc, leads, plan, work, faults>>

\* The retention period of an index ends.
Expires(i) ==
  /\ index[i] = "live"
  /\ index' = [index EXCEPT ![i] = "expired"]
  /\ UNCHANGED <<leader, marker, queue, pc, leads, plan, work, faults>>

(***************************************************************************)
(* Specification                                                             *)
(***************************************************************************)
Init ==
  /\ index = [i \in Indices |-> "live"]
  /\ leader = NULL /\ marker = FALSE
  /\ queue = [i \in Indices |-> 0]
  /\ pc = [n \in Nodes |-> "idle"]
  /\ leads = [n \in Nodes |-> FALSE]
  /\ plan = [n \in Nodes |-> {}]
  /\ work = [n \in Nodes |-> [i \in Indices |-> 0]]
  /\ faults = 0

Step(n) ==
  \/ Look(n) \/ Elect(n) \/ Wait(n)
  \/ PlanTasks(n) \/ Mark(n) \/ Submit(n) \/ Verify(n) \/ Clear(n) \/ Unlock(n)
  \/ Drained(n) \/ PhaseEnds(n) \/ SingleList(n) \/ SingleEnds(n)
  \/ \E i \in Indices : ClaimTask(n, i) \/ Delete(n, i) \/ SingleDelete(n, i)

FaultStep(n) ==
  \/ SubmitFails(n) \/ ClaimFails(n) \/ FallsBack(n) \/ Crash(n)
  \/ \E i \in Indices : DeleteFails(n, i) \/ SingleDeleteFails(n, i)

Next ==
  \/ \E n \in Nodes : Step(n) \/ FaultStep(n)
  \/ LockExpires \/ LockLapses \/ MarkerExpires
  \/ \E i \in Indices : Expires(i)

Spec == Init /\ [][Next]_vars

\* The schedulers run a cycle every interval, Elasticsearch answers in the end, and
\* what is left in Redis expires.
Fairness ==
  /\ \A n \in Nodes : WF_vars(Step(n))
  /\ WF_vars(LockExpires) /\ WF_vars(MarkerExpires)

(***************************************************************************)
(* Properties                                                                *)
(***************************************************************************)
TypeOK ==
  /\ index \in [Indices -> {"live", "expired", "gone"}]
  /\ leader \in Nodes \cup {NULL} /\ marker \in BOOLEAN
  /\ queue \in [Indices -> TaskCounts]
  /\ pc \in [Nodes -> {"idle", "elect", "wait", "work", "drain", "verify", "clear", "unlock",
                       "unlock_single", "single", "delete"} \cup Planning]
  /\ leads \in [Nodes -> BOOLEAN] /\ plan \in [Nodes -> SUBSET Indices]
  /\ work \in [Nodes -> [Indices -> TaskCounts]]
  /\ faults \in 0..MaxFaults

\* Every index whose retention has ended is deleted in the end, by whatever mix
\* of epochs and single-node purges, though leaders crash at any point, leave
\* their lock, marker or tasks behind, or fail to submit.
ExpiredIsPurged == \A i \in Indices : index[i] = "expired" ~> index[i] = "gone"

\* How many tasks for i are queued or executed.
Live(i) == queue[i] + Cardinality({s \in Nodes \X TaskCounts : s[2] < work[s[1]][i]})

\* As long as nothing fails the replicas never have two tasks for one index: the
\* lock, the marker and the verification keep the epochs apart, although the
\* lock is released by time while the epoch still runs.
OneTaskPerIndex == faults = 0 => \A i \in Indices : Live(i) <= 1

\* "DryRun previews what would be deleted without executing" (types.go).
DryRunDeletesNothing == DryRun => \A i \in Indices : index[i] # "gone"

==============================================================================
