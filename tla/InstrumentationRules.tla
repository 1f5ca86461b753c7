------------------------- MODULE InstrumentationRules -------------------------
(***************************************************************************)
(* One dynamic instrumentation rule of a service (instrumentationmanager): its *)
(* record and the blob of its targets in the rule store, the requests of the   *)
(* admin API, the reconcile loop of each replica, the collection of deleted     *)
(* rules, and the tasks that change the agents.  Each process works on copies   *)
(* it has read earlier and writes them back whole.                             *)
(*                                                                         *)
(* A task is the version of the rule it installs, 0 to remove it.  An agent runs *)
(* its tasks in the order they were submitted, and what refers to one refers to *)
(* its place among them and, once it has ended, to how it ended: it succeeded or  *)
(* failed, or its result was lost, as when it was cancelled.                     *)
(***************************************************************************)
EXTENDS Naturals, Sequences, FiniteSets

CONSTANTS
  Agents,       \* the instances of the service
  Admins,       \* requests under way at a time
  Reconcilers,  \* one loop per replica
  NULL,         \* no rule, no target, no task
  MaxRequests,  \* bound on requests
  MaxTroubles   \* bound: agents that leave, tasks, submissions and saves that fail

VARIABLES
  rule,     \* the stored record: what is desired, its version, its summary
  targets,  \* the stored blob: of each agent its state, last task and that task's type
  life,     \* "new", "created", or "collected"
  queue,    \* of each agent, the tasks it has not run
  on,       \* the version an agent runs, or 0
  link,     \* of each agent: "new", or as the registry has it, "online", "offline" or "gone"
  pc, mine, \* of each process: where it is, and its copies
  collect,  \* the collector has found the rule to be collectable
  harm,     \* history: copies were "overwritten", submissions or saves "failed"
  requests, troubles

stored == <<rule, targets, life, collect>>
agent == <<queue, on, link>>
counts == <<requests, troubles>>
vars == <<stored, agent, pc, mine, harm, counts>>

Procs == Admins \cup Reconcilers
InFlight == "dispatched"
Terminal == {"removed", "failed", "offline"}
States == Terminal \cup {InFlight, "applied"}
InService(a) == link[a] \in {"online", "offline"}
NoTargets == [a \in Agents |-> NULL]
NoCopy == [rule |-> NULL, targets |-> NoTargets, todo |-> {}, changed |-> FALSE, stale |-> {}]

IsActive(r) == r.desired = "active"
Version(r) == IF IsActive(r) THEN r.version ELSE 0

Init ==
  /\ rule = NULL /\ targets = NoTargets /\ life = "new" /\ collect = FALSE
  /\ queue = [a \in Agents |-> <<>>] /\ on = [a \in Agents |-> 0]
  /\ link \in [Agents -> {"new", "online"}]
  /\ pc = [p \in Procs |-> "idle"] /\ mine = [p \in Procs |-> NoCopy]
  /\ harm = {} /\ requests = 0 /\ troubles = 0

(***************************************************************************)
(* The rule store                                                          *)
(***************************************************************************)
Trouble == troubles < MaxTroubles /\ troubles' = troubles + 1

At(p, where) == pc[p] = where
Goto(p, where) == pc' = [pc EXCEPT ![p] = where]
Stop(p) == Goto(p, "idle") /\ mine' = [mine EXCEPT ![p] = NoCopy]

Copied(q, what) ==
  IF what = "rule" THEN ~At(q, "idle") ELSE pc[q] \in {"dispatch", "reconcile", "save targets"}

\* p writes back its copy of what ("rule" or "targets"): the copies of the others are
\* stale from now on, and p may have overwritten what another has written.
Writes(p, what, copy) ==
  /\ mine' = [q \in Procs |->
       IF q = p THEN copy
       ELSE IF Copied(q, what) THEN [mine[q] EXCEPT !.stale = @ \cup {what}] ELSE mine[q]]
  /\ harm' = IF what \in mine[p].stale THEN harm \cup {"overwritten"} ELSE harm

\* Mutant of Exists: a save does not look whether the rule exists.
ExistsAlways == TRUE

\* HEXISTS under WATCH, by every save of a rule or of its targets.
Exists == rule # NULL

SaveRule(p, where) ==
  IF Exists
  THEN /\ rule' = mine[p].rule /\ Goto(p, where)
       /\ Writes(p, "rule", IF where \in {"idle", "get"} THEN NoCopy
                            ELSE [NoCopy EXCEPT !.rule = mine[p].rule])
       /\ UNCHANGED <<targets, life, collect>>
  ELSE Stop(p) /\ UNCHANGED <<stored, harm>>

SaveTargetStatuses(p, where) ==
  IF Exists
  THEN /\ targets' = mine[p].targets /\ Goto(p, where)
       /\ Writes(p, "targets", [NoCopy EXCEPT !.rule = mine[p].rule,
                                              !.stale = mine[p].stale \ {"targets"}])
       /\ UNCHANGED <<rule, life, collect>>
  ELSE Stop(p) /\ UNCHANGED <<stored, harm>>

\* ListTargetStatuses and resolveTargets: agents that have left are dropped.
ListTargets(p, where, copy) ==
  IF rule = NULL THEN Stop(p)
  ELSE /\ Goto(p, where)
       /\ mine' = [mine EXCEPT ![p] = [copy EXCEPT
            !.targets = [a \in Agents |-> IF InService(a) THEN targets[a] ELSE NULL],
            !.todo = {a \in Agents : InService(a)},
            !.changed = \E a \in Agents : ~InService(a) /\ targets[a] # NULL,
            !.stale = @ \ {"targets"}]]

(***************************************************************************)
(* Requests                                                                *)
(***************************************************************************)
Ask(p) == At(p, "idle") /\ requests < MaxRequests /\ requests' = requests + 1

CreateRule(p) ==
  /\ Ask(p) /\ life = "new"
  /\ rule' = [desired |-> "active", version |-> 1]
  /\ life' = "created"
  /\ mine' = [mine EXCEPT ![p].rule = rule'] /\ Goto(p, "list")
  /\ UNCHANGED <<targets, collect, agent, harm, troubles>>

Load(p, where, r) ==
  /\ Ask(p) /\ rule # NULL
  /\ mine' = [mine EXCEPT ![p].rule = r] /\ Goto(p, where)
  /\ UNCHANGED <<stored, agent, harm, troubles>>

GetRule(p) == Load(p, "refresh", rule)

\* A deleted rule cannot be updated, paused or resumed, and is not deleted again.
Editable == rule # NULL /\ rule.desired # "deleted"

UpdateRule(p) ==
  /\ Editable
  /\ Load(p, IF IsActive(rule) THEN "save" ELSE "save only", [rule EXCEPT !.version = @ + 1])

\* Mutant of SetDesired: the loop is left to dispatch what is desired now.
SetDesiredOnly(p, d) == Editable /\ Load(p, "save only", [rule EXCEPT !.desired = d])

SetDesired(p, d) == Editable /\ Load(p, "save", [rule EXCEPT !.desired = d])

PauseRule(p) == SetDesired(p, "paused")

ResumeRule(p) == SetDesired(p, "active")

DeleteRule(p) == SetDesired(p, "deleted")

SaveRequest(p) ==
  /\ pc[p] \in {"save", "save only"}
  /\ SaveRule(p, IF At(p, "save") THEN "list" ELSE "get")
  /\ UNCHANGED <<agent, counts>>

\* dispatchRuleOperation: one agent after the other, then the targets and the rule.
List(p) ==
  /\ At(p, "list") /\ ListTargets(p, "dispatch", mine[p])
  /\ UNCHANGED <<stored, agent, harm, counts>>

NoTarget == [state |-> InFlight, place |-> 0, end |-> "none", apply |-> FALSE]
Current(p, a) == IF mine[p].targets[a] = NULL THEN NoTarget ELSE mine[p].targets[a]

Sets(p, a, t, changed) ==
  mine' = [mine EXCEPT ![p] = [@ EXCEPT
    !.targets[a] = t, !.todo = @ \ {a}, !.changed = @ \/ changed]]

\* The stale task is forgotten, lest its result is taken for that of this operation.
OfflineTarget(p, a) ==
  [Current(p, a) EXCEPT !.state = "offline", !.place = 0, !.end = "none",
                         !.apply = IsActive(mine[p].rule)]

\* dispatchOperationToAgent: the operation is to apply an active rule, to remove another.
\* A submission that fails leaves the target its earlier task.
DispatchTo(p, a) ==
  LET apply == IsActive(mine[p].rule) IN
  \/ /\ link[a] # "online"
     /\ Sets(p, a, OfflineTarget(p, a), TRUE)
     /\ UNCHANGED <<queue, harm, troubles>>
  \/ /\ link[a] = "online"
     /\ queue' = [queue EXCEPT ![a] = Append(@, Version(mine[p].rule))]
     /\ Sets(p, a, [state |-> InFlight, place |-> Len(queue[a]) + 1, end |-> "none",
                    apply |-> apply], TRUE)
     /\ UNCHANGED <<harm, troubles>>
  \/ /\ link[a] = "online" /\ Trouble
     /\ harm' = harm \cup {"failed"}
     /\ Sets(p, a, [Current(p, a) EXCEPT !.state = "failed", !.apply = apply], TRUE)
     /\ UNCHANGED queue

Dispatch(p, a) ==
  /\ At(p, "dispatch") /\ a \in mine[p].todo
  /\ DispatchTo(p, a)
  /\ UNCHANGED <<stored, on, link, pc, requests>>

Dispatched(p) ==
  /\ At(p, "dispatch") /\ mine[p].todo = {}
  /\ SaveTargetStatuses(p, "save summary")
  /\ UNCHANGED <<agent, counts>>

SaveSummary(p) ==
  /\ At(p, "save summary")
  /\ SaveRule(p, IF p \in Admins THEN "get" ELSE "idle")
  /\ UNCHANGED <<agent, counts>>

\* The answer of every request is the rule, read and refreshed again.
Reload(p) ==
  /\ At(p, "get")
  /\ IF rule = NULL THEN Stop(p)
     ELSE mine' = [mine EXCEPT ![p] = [NoCopy EXCEPT !.rule = rule]] /\ Goto(p, "refresh")
  /\ UNCHANGED <<stored, agent, harm, counts>>

(***************************************************************************)
(* refreshRule: what became of the tasks                                     *)
(***************************************************************************)
\* A task that has ended without a result is taken for one that is pending.
Refreshed(t, r) ==
  IF t = NULL \/ (t.place = 0 /\ t.end = "none") \/ t.state = "offline" THEN t
  ELSE [t EXCEPT !.state =
    CASE t.end = "success" -> IF IsActive(r) THEN "applied" ELSE "removed"
      [] t.end = "failed" -> "failed"
      [] OTHER -> InFlight]

After(p) == IF p \in Admins THEN "idle" ELSE "plan"

\* The results are read with the targets: they only ever advance.
Refresh(p) ==
  /\ At(p, "refresh")
  /\ LET new == [a \in Agents |-> Refreshed(targets[a], mine[p].rule)]
         same == new = targets
     IN IF rule = NULL \/ (same /\ p \in Admins) THEN Stop(p)
        ELSE IF same THEN Goto(p, "plan") /\ UNCHANGED mine
        ELSE /\ mine' = [mine EXCEPT ![p] = [@ EXCEPT !.targets = new, !.stale = @ \ {"targets"}]]
             /\ Goto(p, "save targets")
  /\ UNCHANGED <<stored, agent, harm, counts>>

SaveRefreshed(p) ==
  /\ At(p, "save targets") /\ SaveTargetStatuses(p, "save refreshed")
  /\ UNCHANGED <<agent, counts>>

SaveRefreshedRule(p) ==
  /\ At(p, "save refreshed")
  /\ SaveRule(p, After(p))
  /\ UNCHANGED <<agent, counts>>

(***************************************************************************)
(* The reconcile loop                                                        *)
(***************************************************************************)
Reconcile(p) ==
  /\ At(p, "idle") /\ rule # NULL
  /\ mine' = [mine EXCEPT ![p].rule = rule] /\ Goto(p, "refresh")
  /\ UNCHANGED <<stored, agent, harm, counts>>

Plan(p) ==
  /\ At(p, "plan") /\ ListTargets(p, "reconcile", mine[p])
  /\ UNCHANGED <<stored, agent, harm, counts>>

\* Mutant of Outdated: what failed is not tried again.
OutdatedUnlessFailed(t, r) ==
  CASE t.state = InFlight -> t.apply # IsActive(r)
    [] t.state = "applied" -> ~IsActive(r)
    [] t.state = "removed" -> IsActive(r)
    [] t.state = "failed" -> FALSE
    [] OTHER -> TRUE

\* shouldDispatchReconcileApply and -Remove, without what a snapshot of the agent's
\* runtime adds.
Outdated(t, r) ==
  CASE t.state = InFlight -> t.apply # IsActive(r)
    [] t.state = "applied" -> ~IsActive(r)
    [] t.state = "removed" -> IsActive(r)
    [] OTHER -> TRUE

\* An agent that is new to an active rule gets it once it is online; one that is away is
\* recorded to be, and expires when it has been for long.
Waits(p, a) ==
  LET t == mine[p].targets[a] IN
  IF t = NULL THEN (IsActive(mine[p].rule) => link[a] # "online") /\ Sets(p, a, NULL, FALSE)
  ELSE IF link[a] # "online"
  THEN Sets(p, a, [t EXCEPT !.state = "offline"], t.state # "offline")
  ELSE \* canRetryDispatch: it may be too early for another dispatch.
       Sets(p, a, t, FALSE)

Redispatches(p, a) ==
  /\ link[a] = "online"
  /\ IF mine[p].targets[a] = NULL THEN IsActive(mine[p].rule)
     ELSE Outdated(mine[p].targets[a], mine[p].rule)
  /\ DispatchTo(p, a)

ReconcileTarget(p, a, do) ==
  /\ At(p, "reconcile") /\ a \in mine[p].todo
  /\ IF do THEN Redispatches(p, a) ELSE Waits(p, a) /\ UNCHANGED <<queue, harm, troubles>>
  /\ UNCHANGED <<stored, on, link, pc, requests>>

Reconciled(p) ==
  /\ At(p, "reconcile") /\ mine[p].todo = {}
  /\ IF mine[p].changed THEN SaveTargetStatuses(p, "save summary")
     ELSE Stop(p) /\ UNCHANGED <<stored, harm>>
  /\ UNCHANGED <<agent, counts>>

(***************************************************************************)
(* The collector of deleted rules                                            *)
(***************************************************************************)
\* Mutant of AllTerminal: only agents that have removed the rule count.
AllRemoved(ts) == \A a \in Agents : ts[a] # NULL => ts[a].state = "removed"

AllTerminal(ts) == \A a \in Agents : ts[a] # NULL => ts[a].state \in Terminal

\* The retention, a week, may be over at any time.
GcFinds ==
  /\ ~collect /\ rule # NULL /\ rule.desired = "deleted" /\ AllTerminal(targets)
  /\ collect' = TRUE
  /\ UNCHANGED <<rule, targets, life, agent, pc, mine, harm, counts>>

PhysicalDeleteRule ==
  /\ collect /\ collect' = FALSE /\ life' = "collected"
  /\ rule' = NULL /\ targets' = NoTargets
  /\ UNCHANGED <<agent, pc, mine, harm, counts>>

(***************************************************************************)
(* Agents and their tasks, and faults                                        *)
(***************************************************************************)
\* What refers to the first task refers to its end, and the others move up.
Ended(t, end) ==
  IF t = NULL \/ t.place = 0 THEN t
  ELSE [t EXCEPT !.place = @ - 1, !.end = IF t.place = 1 THEN end ELSE "none"]

TaskEnds(a, end) ==
  /\ link[a] = "online" /\ queue[a] # <<>> /\ queue' = [queue EXCEPT ![a] = Tail(@)]
  /\ targets' = [targets EXCEPT ![a] = Ended(@, end)]
  /\ mine' = [p \in Procs |-> [mine[p] EXCEPT !.targets[a] = Ended(@, end)]]
  /\ UNCHANGED <<rule, life, collect, link, pc, harm, requests>>

RunTask(a) ==
  /\ TaskEnds(a, "success") /\ on' = [on EXCEPT ![a] = Head(queue[a])]
  /\ UNCHANGED troubles

\* The task is reported as failed, or the reaper ends it: either saves a result.
FailTask(a) ==
  /\ Trouble
  /\ TaskEnds(a, "failed") /\ on' \in {on, [on EXCEPT ![a] = Head(queue[a])]}

\* An administrator cancels the task, or its result is not saved: it has ended, and will
\* never have a result.
LoseTask(a) ==
  /\ Trouble
  /\ TaskEnds(a, "lost") /\ on' \in {on, [on EXCEPT ![a] = Head(queue[a])]}

Links(a, from, to) ==
  /\ link[a] \in from /\ link' = [link EXCEPT ![a] = to]
  /\ UNCHANGED <<stored, queue, on, pc, mine, harm, requests>>

\* An agent that was restarted is another one: it registers under another ID.
Join(a) == Links(a, {"new"}, "online") /\ UNCHANGED troubles
Leave(a) == Links(a, {"online"}, "offline") /\ Trouble
Return(a) == Links(a, {"offline"}, "online") /\ UNCHANGED troubles
Forgotten(a) == Links(a, {"offline"}, "gone") /\ UNCHANGED troubles

SaveFails(p) ==
  /\ pc[p] \in {"save", "save only", "save summary", "save targets", "save refreshed"}
  /\ Trouble
  /\ harm' = harm \cup {"failed"} /\ Stop(p)
  /\ UNCHANGED <<stored, agent, requests>>

(***************************************************************************)
(* Specification                                                           *)
(***************************************************************************)
LinkStep(a) == Join(a) \/ Leave(a) \/ Return(a) \/ Forgotten(a)

Request(p) ==
  \/ CreateRule(p) \/ GetRule(p) \/ UpdateRule(p) \/ PauseRule(p) \/ ResumeRule(p) \/ DeleteRule(p)

Step(p) ==
  \/ SaveRequest(p) \/ List(p) \/ Dispatched(p) \/ SaveSummary(p) \/ Reload(p)
  \/ Refresh(p) \/ SaveRefreshed(p) \/ SaveRefreshedRule(p) \/ Plan(p) \/ Reconciled(p)
  \/ \E a \in Agents : Dispatch(p, a) \/ \E do \in BOOLEAN : ReconcileTarget(p, a, do)

Next ==
  \/ \E p \in Admins : Request(p)
  \/ \E p \in Reconcilers : Reconcile(p)
  \/ \E p \in Procs : Step(p) \/ SaveFails(p)
  \/ GcFinds \/ PhysicalDeleteRule
  \/ \E a \in Agents : RunTask(a) \/ FailTask(a) \/ LoseTask(a) \/ LinkStep(a)

\* Calls go on, the loops run on their tickers, the interval after which a dispatch is
\* repeated passes, and an agent that is online runs its tasks.  An agent may stay away.
Fairness ==
  /\ \A p \in Procs : WF_vars(Step(p))
  /\ \A p \in Reconcilers : WF_vars(Reconcile(p))
  /\ \A p \in Reconcilers, a \in Agents : SF_vars(ReconcileTarget(p, a, TRUE))
  /\ WF_vars(GcFinds) /\ WF_vars(PhysicalDeleteRule)
  /\ \A a \in Agents : WF_vars(RunTask(a))

Spec == Init /\ [][Next]_vars /\ Fairness

(***************************************************************************)
(* Properties                                                              *)
(***************************************************************************)
\* A rule that was collected does not come back, and leaves no targets behind, whatever
\* the requests and loops that were under way still write.
NothingIsResurrected == life = "collected" => rule = NULL /\ targets = NoTargets

Settled(a) ==
  IF targets[a] = NULL THEN ~IsActive(rule)
  ELSE targets[a].state = IF IsActive(rule) THEN "applied" ELSE "removed"

\* The target of an agent waits for a task of the kind now desired, of which the result is
\* lost: nothing but a request, or the agent's absence, ends that.
IsLost(a) ==
  targets[a] # NULL /\ targets[a].state = InFlight /\ targets[a].end = "lost"
    /\ targets[a].apply = IsActive(rule)

\* In the end, the record of every agent that is online says what the rule desires, unless
\* it waits for a lost result, however submissions, tasks and saves failed and copies
\* overwrote each other.
RecordsSettle ==
  <>[](rule # NULL => \A a \in Agents : link[a] = "online" => Settled(a) \/ IsLost(a))

Converged ==
  rule # NULL =>
    \A a \in Agents : link[a] = "online" => on[a] = Version(rule) \/ IsLost(a)

\* In the end the agents run what the rule desires, but for those whose target waits for a
\* lost result, provided no copy was written over a newer one and no submission and no
\* save failed.
AgentsConverge == <>[](harm = {} => Converged)

\* Not so when a submission or a save fails.
RemovesAreRetried == <>[](harm \subseteq {"failed"} => Converged)

\* A deleted rule is collected in the end, with agents that never come back too, unless a
\* target waits for a lost result.
DeletedIsForgotten ==
  <>[](rule # NULL => rule.desired # "deleted" \/ \E a \in Agents : IsLost(a))

\* What was deleted is not made active or paused again.
DeletedStaysDeleted ==
  [][rule # NULL /\ rule.desired = "deleted" /\ rule' # NULL => rule'.desired = "deleted"]_vars

=============================================================================
