--------------------------- MODULE MCConfigLongPoll ---------------------------
(***************************************************************************)
(* Small instances, for TLC, of the two sides of the agents' long polls: their *)
(* configuration, and their tasks (with a shutdown and a claim that fails).     *)
(* They share no state, so that a behaviour exercises one of them (part) while  *)
(* the other stays in its initial state.                                      *)
(***************************************************************************)
EXTENDS ConfigLongPoll, TLC

CONSTANTS a1, a2, p1, p2, t1, t2, Parts

VARIABLES
  part,
  pending, claimed, delivered, events, notifyCh, twaiters, newest, tpc, left, got, tslot,
  ctxDone, cancelled, request, tconfig, results, seen, dpc, dtodo, dagent, dwaiter, dgot,
  phase, failures

taskVars == <<pending, claimed, delivered, events, notifyCh, twaiters, newest, tpc, left, got,
              tslot, ctxDone, cancelled, request, tconfig, results, seen, dpc, dtodo, dagent,
              dwaiter, dgot, phase, failures>>
allVars == <<part, vars, taskVars>>

Task == INSTANCE TaskLongPoll WITH
  Tasks <- {t1, t2}, Polls <- {p1}, AgentOf <- [p \in {p1} |-> a1], Unified <- {},
  Target <- [t \in {t1, t2} |-> IF t = t1 THEN a1 ELSE NULL],
  PageLimit <- 2, NotifyCap <- 1, Subscribed <- FALSE, Shutdowns <- TRUE, Disconnects <- TRUE,
  MaxFailures <- 1,
  waiters <- twaiters, pc <- tpc, slot <- tslot, config <- tconfig

\* Each agent has a poll of its own.
AgentEach == [p \in Polls |-> IF p = p1 THEN a1 ELSE a2]

InConfig(A) == part = "config" /\ A /\ UNCHANGED <<part, taskVars>>
InTask(A) == part = "task" /\ A /\ UNCHANGED <<part, vars>>

AllInit == part \in Parts /\ Init /\ Task!Init
AllNext == InConfig(Next) \/ InTask(Task!Next)
AllSpec == AllInit /\ [][AllNext]_allVars

(***************************************************************************)
(* The fairness of both, for the behaviours of its part.  As part never        *)
(* changes, fairness of a disjunction over parts is fairness of each.          *)
(***************************************************************************)
AllFairness ==
  /\ \A p \in Polls :
       SF_allVars(InConfig(PollStep(p)) \/ (p = p1 /\ InTask(Task!List(p1) /\ ~ctxDone[p1])))
  /\ SF_allVars(InConfig(CallListener) \/ InTask(Task!ClaimOne(p1) /\ ~ctxDone[p1]))
  /\ SF_allVars(InConfig(Callback) \/ InTask(Task!DispatcherStops))
  /\ \A s \in States : WF_allVars(InConfig(TimerFires(s)))
  /\ WF_allVars(InConfig(CachePublished) \/ InTask(Task!Dispatch))
  /\ \A t \in {t1, t2} : WF_allVars(InTask(Task!NotifyTaskSubmitted(t)))
  /\ WF_allVars(InTask(Task!PollStep(p1)))
  /\ WF_allVars(InTask(Task!Start(p1)))
  /\ WF_allVars(InTask(Task!Deadline(p1)))
  /\ WF_allVars(InTask(Task!Clear \/ Task!Stopped \/ Task!ServersStop \/ Task!ShutdownReturns))

FairAllSpec == AllSpec /\ AllFairness

-----------------------------------------------------------------------------
(* FreshInTheEnd of ConfigLongPoll, for the behaviours of its part: when the  *)
(* configuration no longer changes, every agent that polls has it in the end. *)
ConfigIsFresh == part = "config" => FreshInTheEnd

(* TasksAreClaimed of TaskLongPoll, for the behaviours of its part: a task that *)
(* stays pending is claimed, unless the receiver stops.                        *)
TasksAreClaimed == part = "task" => Task!TasksAreClaimed

(* ShutdownEnds of TaskLongPoll: a shutdown of the receiver comes to its end.  *)
ShutdownEnds == part = "task" => Task!ShutdownEnds

=============================================================================
