--------------------------- MODULE MCTaskEngineParts ---------------------------
(***************************************************************************)
(* Several instances of TaskEngine in one run; part says which one a behaviour *)
(* is of.  In FaultsSpec they are of the engine over Redis with faults, or of   *)
(* two reapers without; in LiveSpec of agents that may hang, without or with     *)
(* faults, of agents that answer, or of the engine over memory.               *)
(***************************************************************************)
EXTENDS MCTaskEngine

CONSTANTS p1, r1

VARIABLE part

partVars == <<part, vars>>
In(p, A) == part = p /\ A /\ UNCHANGED part

(***************************************************************************)
(* Faults, and two reapers                                                   *)
(***************************************************************************)
Faulty == INSTANCE TaskEngine WITH Reapers <- {r1}
Reaped == INSTANCE TaskEngine WITH Producers <- {p1}, MaxAborts <- 0, MaxFailures <- 0

FaultsInit == part \in {"faulty", "reaped"} /\ Init
FaultsNext == In("faulty", Faulty!Next) \/ In("reaped", Reaped!Next)
FaultsSpec == FaultsInit /\ [][FaultsNext]_partVars

(***************************************************************************)
(* Agents that may hang, with tasks that are not retried: two tasks without     *)
(* faults, or one with faults; agents that answer, with a task that is retried; *)
(* and such a task over the memory store, with two consumers or with a reaper   *)
(***************************************************************************)
Hanging == INSTANCE TaskEngine WITH MaxAborts <- 0, MaxFailures <- 0
Crashing == INSTANCE TaskEngine WITH
  Tasks <- {t1}, QueueOf <- [t \in {t1} |-> "global"]

Answering == INSTANCE TaskEngine WITH
  MaxAborts <- 0, MaxFailures <- 0, Tasks <- {t1}, MaxRetries <- 1,
  QueueOf <- [t \in {t1} |-> "global"]

Memory == INSTANCE TaskEngine WITH
  Store <- "memory", MaxAborts <- 0, MaxFailures <- 0,
  Reapers <- {}, Tasks <- {t1}, MaxRetries <- 1, QueueOf <- [t \in {t1} |-> "global"]
MemoryReaped == INSTANCE TaskEngine WITH
  Store <- "memory", MaxAborts <- 0, MaxFailures <- 0,
  Consumers <- {c1}, Tasks <- {t1}, MaxRetries <- 1,
  QueueOf <- [t \in {t1} |-> "global"], Listens <- [c \in {c1} |-> <<"global">>]

LiveInit == part \in {"hanging", "crashing", "answering", "memory", "memory_reaped"} /\ Init
LiveNext ==
  \/ In("hanging", Hanging!Next) \/ In("crashing", Crashing!Next)
  \/ In("answering", Answering!Next)
  \/ In("memory", Memory!Next) \/ In("memory_reaped", MemoryReaped!Next)

\* Fairness of the first three and Answering!AgentsFinish, each for the behaviours of its part.
\* As part never changes, fairness of a disjunction over parts is fairness of each.
LiveFairness ==
  /\ \A p \in Producers :
       /\ WF_partVars(\/ In("hanging", Hanging!SubmitStep(p))
                      \/ In("crashing", Crashing!SubmitStep(p))
                      \/ In("answering", Answering!SubmitStep(p)))
       /\ WF_partVars(\/ In("hanging", Hanging!CancelStep(p))
                      \/ In("crashing", Crashing!CancelStep(p))
                      \/ In("answering", Answering!CancelStep(p)))
  /\ \A c \in Consumers :
       /\ WF_partVars(\/ In("hanging", \/ Hanging!ClaimStep(c) \/ Hanging!ReportStep(c)
                                       \/ Hanging!RetryStep(c))
                      \/ In("crashing", \/ Crashing!ClaimStep(c) \/ Crashing!ReportStep(c)
                                        \/ Crashing!RetryStep(c))
                      \/ In("answering", \/ Answering!ClaimStep(c) \/ Answering!ReportStep(c)
                                         \/ Answering!RetryStep(c)))
       /\ WF_partVars(\/ In("hanging", \E t \in Tasks : Hanging!ClaimDequeue(c, t))
                      \/ In("crashing", Crashing!ClaimDequeue(c, t1))
                      \/ In("answering", Answering!ClaimDequeue(c, t1)))
       /\ WF_partVars(In("answering", \E o \in Outcomes : Answering!Finish(c, o)))
  /\ \A r \in Reapers :
       /\ WF_partVars(\/ In("hanging", \/ Hanging!ReportStep(r)
                                       \/ \E t \in Tasks : Hanging!ReapCheck(r, t))
                      \/ In("crashing", Crashing!ReportStep(r) \/ Crashing!ReapCheck(r, t1))
                      \/ In("answering", Answering!ReportStep(r) \/ Answering!ReapCheck(r, t1)))
       /\ \A t \in Tasks :
            SF_partVars(\/ In("hanging", Hanging!Scan(r) /\ t \in overdue'[r])
                        \/ t = t1 /\ In("crashing", Crashing!Scan(r) /\ t1 \in overdue'[r])
                        \/ t = t1 /\ In("answering", Answering!Scan(r) /\ t1 \in overdue'[r]))

LiveSpec == LiveInit /\ [][LiveNext]_partVars /\ LiveFairness

(***************************************************************************)
(* Properties, of the behaviours they are about                              *)
(***************************************************************************)
\* RunningTasksEnd, where agents may hang; but a task of which the claim could not write
\* the running index, or was cut short before it did, is not found by the reaper.
HangsOn(t) ==
  /\ part \in {"hanging", "crashing"} /\ status[t] = "running"
  /\ t \in running \/ (aborts = 0 /\ failures = 0)
HangingTasksEnd == \A t \in Tasks : HangsOn(t) ~> ~HangsOn(t)

\* TasksAreDecided, where they answer.
AnsweredTasksAreDecided == part = "answering" => Answering!TasksAreDecided

==============================================================================
