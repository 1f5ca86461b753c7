----------------------------- MODULE ControlPlane -----------------------------
(***************************************************************************)
(* Parts of the control plane and of the MCP server that uses it, which share   *)
(* no state: the cached statistics of the agents (which this module extends),    *)
(* the gate of the stale task reaper, and one Arthas session of the MCP server.  *)
(***************************************************************************)
EXTENDS StatsCache, Integers

CONSTANTS
  ScanInterval, ScanTimeout, MaxLateness,
  BaseDelay, MaxDelay, MaxFailures, ResetTimeout,  \* of the gate
  Opens, Others, MaxRetries, MaxTroubles           \* of the session

ASSUME StatsBounds == MaxWrites \in Nat /\ MaxErrors \in Nat /\ MaxExpiries \in Nat
ASSUME NullIsNoVersion == NULL \notin Nat
ASSUME SessionBounds == MaxRetries \in Nat /\ MaxTroubles \in Nat
\* Durations; of the defaults, which nothing changes, the last two are 64 s and 30 s.
ASSUME GateDurations ==
  /\ ScanInterval \in Nat /\ ScanTimeout \in Nat /\ MaxLateness \in Nat
  /\ BaseDelay \in Nat /\ MaxDelay \in Nat /\ MaxFailures \in Nat /\ ResetTimeout \in Nat
  /\ 0 < MaxDelay /\ ResetTimeout <= MaxDelay

VARIABLES
  since, delay, streak, circuit, outcome, skipped,
  session, expired, kind, place, try, seen, queue, result, remotes, job, troubles

gateVars == <<since, delay, streak, circuit, outcome, skipped>>
mcpVars == <<session, expired, kind, place, try, seen, queue, result, remotes, job, troubles>>

Gate == INSTANCE ReaperGate

Mcp == INSTANCE McpSessions WITH pc <- place

(***************************************************************************)
(* What the gate and the session promise                                     *)
(***************************************************************************)
\* The reaper never stays away from the store for longer than its longest backoff.
ReaperComesBack == Gate!ReaperComesBack

\* A session that was closed or has failed is not brought back.
ClosedStaysClosed == Mcp!ClosedStaysClosed

==============================================================================
