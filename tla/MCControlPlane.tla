---------------------------- MODULE MCControlPlane ----------------------------
(***************************************************************************)
(* Small instances, for TLC, of parts of the control plane and of the MCP      *)
(* server that uses it: the registration of agents, the cached statistics, the *)
(* gate of the stale task reaper, the uploads of artifacts, and Arthas sessions. *)
(* They share no state, so that a behaviour exercises one of them (part) while  *)
(* the others stay in their initial states.                                    *)
(***************************************************************************)
EXTENDS ControlPlane, TLC

CONSTANTS a1, a2, r1, r2

VARIABLES
  part,
  up, instance, ids, beat, online, members, service, group, scan, mark, saw, admin, target,
  health, rtroubles,
  total, data, upc, request, draft, blobs, record, status, retries, uresult, executing, stopping,
  sends, utroubles

registryVars == <<up, instance, ids, beat, online, members, service, group, scan, mark, saw, admin,
                  target, health, rtroubles>>
uploadVars == <<total, data, upc, request, draft, blobs, record, status, retries, uresult,
                executing, stopping, sends, utroubles>>
allVars == <<part, vars, gateVars, mcpVars, registryVars, uploadVars>>

Registry == INSTANCE AgentRegistry WITH
  Agents <- {a1, a2}, Detectors <- {r1}, MaxTroubles <- 2, HealthReports <- TRUE,
  troubles <- rtroubles

Uploads == INSTANCE Artifacts WITH
  Calls <- {a1, a2}, Totals <- {2}, SharedStore <- TRUE, Named <- TRUE, Notifies <- TRUE,
  MaxRetries <- 1, MaxSends <- 3, MaxTroubles <- 1, pc <- upc, result <- uresult, troubles <- utroubles
MemoryUploads == INSTANCE Artifacts WITH
  Calls <- {a1, a2}, Totals <- {2}, SharedStore <- FALSE, Named <- TRUE, Notifies <- FALSE,
  MaxRetries <- 1, MaxSends <- 3, MaxTroubles <- 1, pc <- upc, result <- uresult, troubles <- utroubles

\* Sessions whose open and pulls are retried; those of Mcp have two callers and a fault.
Retried == INSTANCE McpSessions WITH
  Others <- {"c1"}, MaxRetries <- 1, MaxTroubles <- 0, pc <- place

ControlInit ==
  /\ part \in {"registry", "statistics", "reaper", "uploads", "memory_uploads", "retried", "troubled"}
  /\ Init /\ Registry!Init /\ Gate!Init /\ Uploads!Init
  /\ IF part = "retried" THEN Retried!Init ELSE Mcp!Init

InRegistry(A) == part = "registry" /\ A /\ UNCHANGED <<part, vars, gateVars, uploadVars, mcpVars>>
InStats(A) == part = "statistics" /\ A /\ UNCHANGED <<part, registryVars, gateVars, uploadVars, mcpVars>>
InGate(A) == part = "reaper" /\ A /\ UNCHANGED <<part, vars, registryVars, uploadVars, mcpVars>>
InUploads(p, A) == part = p /\ A /\ UNCHANGED <<part, vars, registryVars, gateVars, mcpVars>>
InMcp(p, A) == part = p /\ A /\ UNCHANGED <<part, vars, registryVars, gateVars, uploadVars>>

ControlNext ==
  \/ InRegistry(Registry!Next) \/ InStats(Next) \/ InGate(Gate!Next)
  \/ InUploads("uploads", Uploads!Next) \/ InUploads("memory_uploads", MemoryUploads!Next)
  \/ InMcp("retried", Retried!Next) \/ InMcp("troubled", Mcp!Next)

ControlSpec == ControlInit /\ [][ControlNext]_allVars

(***************************************************************************)
(* The Fairness of each module, for the behaviours of its part.  As part never *)
(* changes, fairness of a disjunction over parts is fairness of each.          *)
(***************************************************************************)
RegistryFairness ==
  /\ \A a \in {a1, a2} : WF_allVars(InRegistry(a \in up /\ Registry!Report(a)))
  /\ WF_allVars(InRegistry(Registry!Detect(r1)))
  /\ WF_allVars(InRegistry(Registry!Cleanup)) /\ WF_allVars(InRegistry(Registry!HealthSet))

CallersFairness ==
  /\ WF_allVars(\/ InUploads("uploads", Uploads!GoesOn(a1))
                \/ InUploads("memory_uploads", MemoryUploads!GoesOn(a1))
                \/ InMcp("retried", Retried!GoesOn("o1")) \/ InMcp("troubled", Mcp!GoesOn("o1")))
  /\ WF_allVars(\/ InUploads("uploads", Uploads!GoesOn(a2))
                \/ InUploads("memory_uploads", MemoryUploads!GoesOn(a2))
                \/ InMcp("retried", Retried!GoesOn("c1")) \/ InMcp("troubled", Mcp!GoesOn("c1")))
  /\ WF_allVars(InMcp("troubled", Mcp!GoesOn("c2")))
  /\ WF_allVars(InMcp("retried", Retried!Expires) \/ InMcp("troubled", Mcp!Expires))
  /\ WF_allVars(InMcp("retried", Retried!Reap) \/ InMcp("troubled", Mcp!Reap))

FairControlSpec == ControlSpec /\ RegistryFairness /\ CallersFairness

\* A complete upload is persisted in the end, unless something fails.
UploadsArePersisted ==
  /\ part = "uploads" => Uploads!UploadsArePersisted
  /\ part = "memory_uploads" => MemoryUploads!UploadsArePersisted

\* A session that is over is forgotten in the end.
SessionsAreForgotten == Mcp!SessionsAreForgotten

\* An agent without heartbeat leaves the online set, or is heard of again.
SilentAgentsLeave == Registry!SilentAgentsLeave

\* An agent that reports stays visible, in the behaviours of its part.
AgentsStayVisible == part = "registry" => Registry!ReportingAgentsAreVisible

==============================================================================
