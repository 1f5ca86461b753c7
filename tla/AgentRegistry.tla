----------------------------- MODULE AgentRegistry -----------------------------
(***************************************************************************)
(* The Redis agent registry (controlplaneext/agentregistry/redis.go): agents   *)
(* register and send heartbeats through any replica, an administrator          *)
(* unregisters them, and every replica runs a loop that marks agents offline   *)
(* when their heartbeat key has expired.                                       *)
(*                                                                         *)
(* All agents are instances of one service of one application, which is where  *)
(* the index sets of the hierarchy meet.  Every Redis operation, and every     *)
(* MULTI of a TxPipeline, is one step.                                         *)
(***************************************************************************)
EXTENDS Naturals, FiniteSets

CONSTANTS
  Agents,       \* the instances
  Detectors,    \* replicas that run offlineDetectionLoop
  MaxTroubles,  \* bound: delayed heartbeats, Unregister and UpdateHealth requests
  HealthReports, \* whether UpdateHealth is called, which nothing in the collector does
  NULL

VARIABLES
  up,        \* agents whose process runs
  instance,  \* [Agents -> state in the instance key, or NULL]
  ids,       \* _ids
  beat,      \* heartbeat keys
  online,    \* the online sorted set
  members,   \* _instances of the service
  service,   \* whether _services of the application has the service
  group,     \* whether _apps has the application
  scan,      \* [Detectors -> agents it will mark offline]
  mark,      \* [Detectors -> agent it is marking, or NULL]
  saw,       \* [Detectors -> the state it read]
  admin,     \* where the Unregister request is
  target,    \* the agent to unregister
  health,    \* <<agent, state to write>> of UpdateHealth, or NULL
  troubles

keys == <<instance, ids, beat, online>>
indexes == <<members, service, group>>
detection == <<scan, mark, saw>>
requests == <<admin, target, health, troubles>>
vars == <<up, keys, indexes, detection, requests>>

States == {"online", "offline", "unhealthy"}

(***************************************************************************)
(* Agents                                                                    *)
(***************************************************************************)
Trouble == troubles < MaxTroubles /\ troubles' = troubles + 1

\* Mutant of Indexed: the indexes are written at registration only.
IndexedOnce(a) ==
  IF a \in ids THEN UNCHANGED indexes
  ELSE members' = members \cup {a} /\ service' = TRUE /\ group' = TRUE

\* The hierarchy part of upsertAgent.
Indexed(a) == members' = members \cup {a} /\ service' = TRUE /\ group' = TRUE

\* Register, Heartbeat or RegisterOrHeartbeat.  What they read before upsertAgent
\* says what the record contains besides its state, which becomes online.  The
\* request of an agent that has died may arrive late.
Report(a) ==
  /\ IF a \in up THEN UNCHANGED troubles ELSE Trouble
  /\ instance' = [instance EXCEPT ![a] = "online"]
  /\ beat' = beat \cup {a}
  /\ online' = online \cup {a}
  /\ ids' = ids \cup {a}
  /\ Indexed(a)
  /\ UNCHANGED <<up, detection, admin, target, health>>

\* The agent's process dies, or the network between it and the collectors.
Dies(a) ==
  /\ a \in up
  /\ up' = up \ {a}
  /\ UNCHANGED <<keys, indexes, detection, requests>>

\* The heartbeat key of an agent that is up outlives the interval between two
\* heartbeats, unless one of them is delayed.
BeatExpires(a) ==
  /\ a \in beat
  /\ IF a \in up THEN Trouble ELSE UNCHANGED troubles
  /\ beat' = beat \ {a}
  /\ UNCHANGED <<up, instance, ids, online, indexes, detection, admin, target, health>>

\* InstanceTTL, a day, has passed since the record was written.
InstanceExpires(a) ==
  /\ instance[a] # NULL /\ a \notin up \cup beat \cup online
  /\ instance' = [instance EXCEPT ![a] = NULL]
  /\ UNCHANGED <<up, ids, beat, online, indexes, detection, requests>>

(***************************************************************************)
(* detectOfflineAgents                                                       *)
(***************************************************************************)
\* ZRANGE of the online set and the pipeline of EXISTS; a member that leaves the
\* set in between is looked at in vain.
Scan(d) ==
  /\ scan[d] = {} /\ mark[d] = NULL /\ online \ beat # {}
  /\ scan' = [scan EXCEPT ![d] = online \ beat]
  /\ UNCHANGED <<up, keys, indexes, mark, saw, requests>>

\* markAgentOffline: GET.
MarkGet(d, a) ==
  /\ mark[d] = NULL /\ a \in scan[d]
  /\ mark' = [mark EXCEPT ![d] = a]
  /\ saw' = [saw EXCEPT ![d] = instance[a]]
  /\ scan' = [scan EXCEPT ![d] = @ \ {a}]
  /\ UNCHANGED <<up, keys, indexes, requests>>

\* SET, when MarkOffline has changed the state.
MarkSet(d) ==
  /\ mark[d] # NULL /\ saw[d] = "online"
  /\ instance' = [instance EXCEPT ![mark[d]] = "offline"]
  /\ saw' = [saw EXCEPT ![d] = "offline"]
  /\ UNCHANGED <<up, ids, beat, online, indexes, scan, mark, requests>>

\* Mutant of MarkRemove: only a detector that changed the state goes on.
MarkRemoveChanged(d) ==
  /\ mark[d] # NULL /\ saw[d] # "online"
  /\ online' = IF saw[d] = "offline" THEN online \ {mark[d]} ELSE online
  /\ mark' = [mark EXCEPT ![d] = NULL]
  /\ saw' = [saw EXCEPT ![d] = NULL]
  /\ UNCHANGED <<up, instance, ids, beat, indexes, scan, requests>>

\* ZREM.
MarkRemove(d) ==
  /\ mark[d] # NULL /\ saw[d] # "online"
  /\ online' = online \ {mark[d]}
  /\ mark' = [mark EXCEPT ![d] = NULL]
  /\ saw' = [saw EXCEPT ![d] = NULL]
  /\ UNCHANGED <<up, instance, ids, beat, indexes, scan, requests>>

(***************************************************************************)
(* Unregister and UpdateHealth                                               *)
(***************************************************************************)
AdminGoto(l) == admin' = l

\* GetAgent finds it.
Unregister(a) ==
  /\ admin = "idle" /\ Trouble
  /\ a \in ids /\ instance[a] # NULL
  /\ target' = a
  /\ AdminGoto("remove")
  /\ UNCHANGED <<up, keys, indexes, detection, health>>

\* The MULTI that removes all keys of the agent.
Remove ==
  /\ admin = "remove"
  /\ instance' = [instance EXCEPT ![target] = NULL]
  /\ ids' = ids \ {target} /\ beat' = beat \ {target} /\ online' = online \ {target}
  /\ members' = members \ {target}
  /\ target' = NULL
  /\ AdminGoto("count")
  /\ UNCHANGED <<up, service, group, detection, health, troubles>>

\* cleanupEmptyIndexes: SCARD of the instances ...
CountInstances ==
  /\ admin = "count"
  /\ AdminGoto(IF members = {} THEN "drop" ELSE "idle")
  /\ UNCHANGED <<up, keys, indexes, detection, target, health, troubles>>

\* ... which are dropped with the service, whatever has been added since ...
DropService ==
  /\ admin = "drop"
  /\ members' = {} /\ service' = FALSE
  /\ AdminGoto("count services")
  /\ UNCHANGED <<up, keys, group, detection, target, health, troubles>>

\* ... SCARD of the services ...
CountServices ==
  /\ admin = "count services"
  /\ AdminGoto(IF service THEN "idle" ELSE "drop app")
  /\ UNCHANGED <<up, keys, indexes, detection, target, health, troubles>>

\* ... which are dropped with the application.
DropApp ==
  /\ admin = "drop app"
  /\ service' = FALSE /\ group' = FALSE
  /\ AdminGoto("idle")
  /\ UNCHANGED <<up, keys, members, detection, target, health, troubles>>

\* GetAgent, and UpdateHealthStatus of what it found.
HealthGet(a, s) ==
  /\ HealthReports /\ health = NULL /\ Trouble
  /\ a \in ids /\ instance[a] # NULL
  /\ s \in {"online", "unhealthy", instance[a]}
  /\ health' = <<a, s>>
  /\ UNCHANGED <<up, keys, indexes, detection, admin, target>>

HealthSet ==
  /\ health # NULL
  /\ instance' = [instance EXCEPT ![health[1]] = health[2]]
  /\ health' = NULL
  /\ UNCHANGED <<up, ids, beat, online, indexes, detection, admin, target, troubles>>

(***************************************************************************)
(* Specification                                                             *)
(***************************************************************************)
Init ==
  /\ up = Agents
  /\ instance = [a \in Agents |-> NULL]
  /\ ids = {} /\ beat = {} /\ online = {}
  /\ members = {} /\ service = FALSE /\ group = FALSE
  /\ scan = [d \in Detectors |-> {}]
  /\ mark = [d \in Detectors |-> NULL] /\ saw = [d \in Detectors |-> NULL]
  /\ admin = "idle" /\ target = NULL /\ health = NULL
  /\ troubles = 0

Detect(d) == Scan(d) \/ MarkSet(d) \/ MarkRemove(d) \/ \E a \in Agents : MarkGet(d, a)
Cleanup == Remove \/ CountInstances \/ DropService \/ CountServices \/ DropApp

Next ==
  \/ \E a \in Agents : \/ Report(a) \/ Dies(a) \/ BeatExpires(a) \/ InstanceExpires(a)
                       \/ Unregister(a) \/ \E s \in States : HealthGet(a, s)
  \/ \E d \in Detectors : Detect(d)
  \/ Cleanup \/ HealthSet

Spec == Init /\ [][Next]_vars

\* Agents that are up send heartbeats; the loops run, and the
\* requests of administrators come to their end.
Fairness ==
  /\ \A a \in Agents : WF_vars(a \in up /\ Report(a))
  /\ \A d \in Detectors : WF_vars(Detect(d))
  /\ WF_vars(Cleanup) /\ WF_vars(HealthSet)

(***************************************************************************)
(* Properties                                                                *)
(***************************************************************************)
TypeOK ==
  /\ up \subseteq Agents
  /\ instance \in [Agents -> States \cup {NULL}]
  /\ ids \subseteq Agents /\ beat \subseteq Agents /\ online \subseteq Agents
  /\ members \subseteq Agents /\ service \in BOOLEAN /\ group \in BOOLEAN
  /\ scan \in [Detectors -> SUBSET Agents] /\ mark \in [Detectors -> Agents \cup {NULL}]
  /\ saw \in [Detectors -> States \cup {NULL}]
  /\ admin \in {"idle", "remove", "count", "drop", "count services", "drop app"}
  /\ troubles \in 0..MaxTroubles
  /\ target \in Agents \cup {NULL}
  /\ health \in {NULL} \cup Agents \X States

\* What the console shows of an agent: it is found by id, by its service and in the
\* list of online agents.
Visible(a) ==
  a \in ids /\ a \in online /\ instance[a] = "online" /\ a \in members /\ service /\ group

\* An agent that keeps sending heartbeats becomes visible again and stays so,
\* whatever a late heartbeat and the detectors, an Unregister and its clean-up of
\* the indexes, or a stale UpdateHealth have done to its keys.
ReportingAgentsAreVisible == \A a \in Agents : <>[](a \in up => Visible(a))

\* An agent whose heartbeat key is gone leaves the list of online agents, or sends
\* another heartbeat.
SilentAgentsLeave == \A a \in Agents : a \in online \ beat ~> a \notin online \/ a \in beat

\* "When a heartbeat key expires, the agent is marked as offline" (redis.go,
\* detectOfflineAgents): an agent without a heartbeat that is shown as online is one
\* that some detector has yet to look at.
SilentAgentsAreMarked ==
  \A a \in Agents : instance[a] = "online" /\ a \notin beat => a \in online

==============================================================================
