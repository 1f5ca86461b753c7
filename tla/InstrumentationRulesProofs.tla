---------------------- MODULE InstrumentationRulesProofs ----------------------
(***************************************************************************)
(* For any number of agents, of requests and of replicas, and with any number  *)
(* of faults: a dynamic instrumentation rule that was collected does not come   *)
(* back, and no targets are left behind it, however many copies of it the      *)
(* processes still hold and write.                                           *)
(*                                                                         *)
(* The property is inductive as it stands.  The argument is that every write   *)
(* looks whether the rule exists: SavesNothing, below, is what the transactions *)
(* of the rule store contribute, and everything else leaves what is stored      *)
(* alone.                                                                    *)
(***************************************************************************)
EXTENDS InstrumentationRules, TLAPS

\* What is stored of a rule that was collected.
Nothing == rule = NULL /\ targets = NoTargets

USE DEF At, Goto, Stop

-----------------------------------------------------------------------------
\* SaveRule and SaveTargetStatuses of the store: HEXISTS under WATCH.
LEMMA SavesNothing ==
  ASSUME NEW p, NEW where, rule = NULL, SaveRule(p, where) \/ SaveTargetStatuses(p, where)
  PROVE  UNCHANGED stored
  BY DEF SaveRule, SaveTargetStatuses, Exists

\* A result that comes in for a target that is gone leaves it gone.
LEMMA EndsNothing ==
  ASSUME targets = NoTargets, NEW a \in Agents, NEW end, TaskEnds(a, end)
  PROVE  targets' = NoTargets /\ UNCHANGED <<rule, life>>
  BY DEF TaskEnds, Ended, NoTargets

\* The requests and the loops change what is stored by its saves only, but for the
\* creation of the rule, which is not repeated.
LEMMA RequestsLeaveNothing ==
  ASSUME Nothing, life = "collected", NEW p, Request(p) \/ Reconcile(p)
  PROVE  UNCHANGED stored
  BY DEF Nothing, Request, Reconcile, CreateRule, GetRule, UpdateRule, PauseRule, ResumeRule,
         DeleteRule, SetDesired, Load, Editable

\* A step of a call writes nothing back where no record is left.
LEMMA StepsLeaveNothing ==
  ASSUME Nothing, NEW p, Step(p) \/ SaveFails(p)
  PROVE  UNCHANGED stored
  <1>0. rule = NULL
    BY DEF Nothing
  <1>1. CASE SaveRequest(p) \/ SaveSummary(p) \/ SaveRefreshedRule(p)
    BY <1>0, <1>1, SavesNothing DEF SaveRequest, SaveSummary, SaveRefreshedRule
  <1>2. CASE Dispatched(p) \/ SaveRefreshed(p)
    BY <1>0, <1>2, SavesNothing DEF Dispatched, SaveRefreshed
  <1>3. CASE Reconciled(p)
    <2>1. CASE mine[p].changed
      BY <1>0, <1>3, <2>1, SavesNothing DEF Reconciled
    <2>2. CASE ~mine[p].changed
      BY <1>3, <2>2 DEF Reconciled
    <2> QED
      BY <2>1, <2>2
  <1>4. CASE List(p) \/ Reload(p) \/ Refresh(p) \/ Plan(p) \/ SaveFails(p)
    BY <1>4 DEF List, Reload, Refresh, Plan, SaveFails
  <1>5. ASSUME NEW a \in Agents, Dispatch(p, a) \/ \E do \in BOOLEAN : ReconcileTarget(p, a, do)
        PROVE  UNCHANGED stored
    BY <1>5 DEF Dispatch, ReconcileTarget
  <1> QED
    BY <1>1, <1>2, <1>3, <1>4, <1>5 DEF Step

\* No step brings back a record that was purged.
LEMMA NothingStep ==
  ASSUME NothingIsResurrected, [Next]_vars
  PROVE  NothingIsResurrected'
  <1> USE DEF Nothing
  \* The collector is the only one to end the life of a rule.
  <1>1. CASE PhysicalDeleteRule
    BY <1>1 DEF NothingIsResurrected, PhysicalDeleteRule, NoTargets
  <1>2. CASE GcFinds
    BY <1>2 DEF NothingIsResurrected, GcFinds, NoTargets
  <1>3. ASSUME NEW a \in Agents, RunTask(a) \/ FailTask(a) \/ LoseTask(a)
        PROVE  NothingIsResurrected'
    <2>1. PICK end : TaskEnds(a, end)
      BY <1>3 DEF RunTask, FailTask, LoseTask
    <2>2. life' = life
      BY <2>1 DEF TaskEnds
    <2>3. NoTargets' = NoTargets
      BY DEF NoTargets
    <2> QED
      BY <2>1, <2>2, <2>3, EndsNothing DEF NothingIsResurrected
  <1>4. ASSUME UNCHANGED stored
        PROVE  NothingIsResurrected'
    BY <1>4 DEF NothingIsResurrected, stored, NoTargets
  <1>5. ASSUME NEW a \in Agents, LinkStep(a)
        PROVE  UNCHANGED stored
    BY <1>5 DEF LinkStep, Join, Leave, Return, Forgotten, Links
  \* Before the collection, a step of a process does not collect.
  <1>6. ASSUME NEW p, \/ Request(p) \/ Reconcile(p)
                      \/ Step(p) \/ SaveFails(p)
        PROVE  NothingIsResurrected'
    <2>1. CASE life = "collected"
      <3>1. Nothing
        BY <2>1 DEF NothingIsResurrected
      <3> QED
        BY <1>4, <1>6, <2>1, <3>1, RequestsLeaveNothing, StepsLeaveNothing
    <2>2. CASE life # "collected"
      <3>1. life' # "collected"
        BY <1>6, <2>2
           DEF Request, Reconcile, CreateRule, GetRule, UpdateRule, PauseRule, ResumeRule,
               DeleteRule, SetDesired, Load, Step, SaveRequest, SaveSummary, SaveRefreshedRule,
               Dispatched, SaveRefreshed, Reconciled, List, Reload, Refresh, Plan, SaveFails,
               Dispatch, ReconcileTarget, SaveRule, SaveTargetStatuses, stored
      <3> QED
        BY <3>1 DEF NothingIsResurrected
    <2> QED
      BY <2>1, <2>2
  <1>7. CASE UNCHANGED vars
    BY <1>4, <1>7 DEF vars
  <1> QED
    BY <1>1, <1>2, <1>3, <1>4, <1>5, <1>6, <1>7 DEF Next

-----------------------------------------------------------------------------
\* A rule that was physically deleted is not written again, nor are its targets, by
\* requests, refreshes and loops that read it before (redis_store.go).
THEOREM NothingIsResurrectedHolds == Spec => []NothingIsResurrected
  <1>1. Init => NothingIsResurrected
    BY DEF Init, NothingIsResurrected
  <1>2. NothingIsResurrected /\ [Next]_vars => NothingIsResurrected'
    BY NothingStep
  <1> QED
    BY <1>1, <1>2, PTL DEF Spec

==============================================================================
