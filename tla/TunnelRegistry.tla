----------------------------- MODULE TunnelRegistry -----------------------------
(***************************************************************************)
(* Where an Arthas agent is connected (arthastunnelext): each node keeps its   *)
(* control connections (arthasuri_compat.go) and a local registry, all nodes   *)
(* share a key and a sorted set in Redis (registry/redis.go, composite.go),    *)
(* and background loops keep them fresh and remove what dead nodes have left   *)
(* (distributed.go).  A request for the agent is forwarded to the node that    *)
(* the registry names.                                                       *)
(*                                                                         *)
(* One agent is modelled: agents share nothing.  It connects again and again,  *)
(* through a load balancer, and the connections are numbered.                  *)
(***************************************************************************)
EXTENDS Naturals, FiniteSets

CONSTANTS
  Nodes,
  Sweepers,     \* nodes whose clean-up runs
  Askers,       \* nodes where a request may arrive
  MaxConns,     \* bound: connections of the agent
  MaxTroubles,  \* bound: crashes, failed Redis commands, heartbeats that lapse
  MaxSessions,  \* max_proxy_sessions
  NULL

Conns == 1..MaxConns

VARIABLES
  current,   \* the connection the agent has, or 0
  opened,    \* how many it has opened
  at, pc,    \* [Conns -> node of the connection, place of its handler]
  agents,    \* [Nodes -> control connection of the agent, or 0]
  local,     \* nodes whose local registry has the agent
  key,       \* the node in the agent's key, or NULL
  listed,    \* the agent in the sorted set: "fresh", "stale" or "absent"
  pongs,     \* nodes with a pong to flush
  running,   \* nodes that are up
  alive,     \* nodes with a node key
  sweep,     \* [Nodes -> the node keys its clean-up has read, or NULL]
  doomed,    \* nodes whose clean-up is about to unregister the agent
  loc, hops, \* the request: the node it is at, and how often it was forwarded
  reqPc,     \* "idle", "look", "wait", "served" or "failed"
  troubles

memory == <<agents, local, pongs>>
redis == <<key, listed, alive>>
cleanup == <<sweep, doomed>>
request == <<loc, hops, reqPc>>
vars == <<current, opened, at, pc, memory, redis, running, cleanup, request, troubles>>

At(c, l) == pc[c] = l
Goto(c, l) == pc' = [pc EXCEPT ![c] = l]
Trouble == troubles < MaxTroubles /\ troubles' = troubles + 1

(***************************************************************************)
(* handleAgentRegister                                                       *)
(***************************************************************************)
\* The agent connects when it has lost its last connection.
Connect(n) ==
  /\ current = 0 /\ opened < MaxConns /\ n \in running
  /\ opened' = opened + 1 /\ current' = opened + 1
  /\ at' = [at EXCEPT ![current'] = n]
  /\ Goto(current', "enter")
  /\ UNCHANGED <<memory, redis, running, cleanup, request, troubles>>

\* It loses its connection; the handler notices when it reads.
Lose ==
  /\ current # 0 /\ current' = 0
  /\ UNCHANGED <<opened, at, pc, memory, redis, running, cleanup, request, troubles>>

\* The connection replaces the one the node has, and closes it.
Enter(c) ==
  /\ At(c, "enter")
  /\ agents' = [agents EXCEPT ![at[c]] = c]
  /\ current' = IF current = agents[at[c]] THEN 0 ELSE current
  /\ Goto(c, "local")
  /\ UNCHANGED <<opened, at, local, pongs, redis, running, cleanup, request, troubles>>

RegisterLocal(c) ==
  /\ At(c, "local")
  /\ local' = local \cup {at[c]}
  /\ Goto(c, "redis")
  /\ UNCHANGED <<current, opened, at, agents, pongs, redis, running, cleanup, request, troubles>>

\* The pipeline of SET and ZADD; when it fails the agent is known to its node only.
RegisterRedis(c) ==
  /\ At(c, "redis")
  /\ \/ key' = at[c] /\ listed' = "fresh" /\ UNCHANGED troubles
     \/ Trouble /\ UNCHANGED <<key, listed>>
  /\ Goto(c, "serve")
  /\ UNCHANGED <<current, opened, at, memory, alive, running, cleanup, request>>

\* Mutant of Left: the handler removes whatever connection the node has.
LeftAlways(c) == 0

Left(c) == IF agents[at[c]] = c THEN 0 ELSE agents[at[c]]

\* The read fails: the agent is gone, or was replaced.
Leave(c) ==
  /\ At(c, "serve") /\ c # current
  /\ agents' = [agents EXCEPT ![at[c]] = Left(c)]
  /\ Goto(c, "forget")
  /\ UNCHANGED <<current, opened, at, local, pongs, redis, running, cleanup, request, troubles>>

\* Unregister is called whether the connection was replaced or not.
UnregisterLocal(c) ==
  /\ At(c, "forget")
  /\ local' = local \ {at[c]}
  /\ Goto(c, "forget redis")
  /\ UNCHANGED <<current, opened, at, agents, pongs, redis, running, cleanup, request, troubles>>

UnregisterRedis(c) ==
  /\ At(c, "forget redis")
  /\ \/ key' = NULL /\ listed' = "absent" /\ UNCHANGED troubles
     \/ Trouble /\ UNCHANGED <<key, listed>>
  /\ Goto(c, "done")
  /\ UNCHANGED <<current, opened, at, memory, alive, running, cleanup, request>>

(***************************************************************************)
(* Liveness                                                                  *)
(***************************************************************************)
\* RecordPong.
Pong ==
  /\ current # 0 /\ At(current, "serve")
  /\ pongs' = pongs \cup {at[current]}
  /\ UNCHANGED <<current, opened, at, pc, agents, local, redis, running, cleanup, request, troubles>>

\* UpdateLiveness leaves a key alone that is gone.
Flush(n) ==
  /\ n \in pongs
  /\ pongs' = pongs \ {n}
  /\ listed' = IF key = NULL THEN listed ELSE "fresh"
  /\ UNCHANGED <<current, opened, at, pc, agents, local, key, alive, running, cleanup, request, troubles>>

\* No pong for the liveness timeout ...
BecomesStale ==
  /\ current = 0 /\ pongs = {} /\ listed = "fresh"
  /\ listed' = "stale"
  /\ UNCHANGED <<current, opened, at, pc, memory, key, alive, running, cleanup, request, troubles>>

\* ... and for index_ttl, which is longer.
KeyExpires ==
  /\ current = 0 /\ pongs = {} /\ listed # "fresh" /\ key # NULL
  /\ key' = NULL
  /\ UNCHANGED <<current, opened, at, pc, memory, listed, alive, running, cleanup, request, troubles>>

(***************************************************************************)
(* Nodes and cleanupStaleAgents                                              *)
(***************************************************************************)
Crash(n) ==
  /\ n \in running /\ Trouble
  /\ running' = running \ {n}
  /\ pc' = [c \in Conns |-> IF at[c] = n /\ ~At(c, "none") THEN "done" ELSE pc[c]]
  /\ current' = IF current # 0 /\ at[current] = n THEN 0 ELSE current
  /\ agents' = [agents EXCEPT ![n] = 0]
  /\ local' = local \ {n} /\ pongs' = pongs \ {n}
  /\ sweep' = [sweep EXCEPT ![n] = NULL] /\ doomed' = doomed \ {n}
  /\ reqPc' = IF loc = n /\ reqPc \in {"look", "wait"} THEN "failed" ELSE reqPc
  /\ UNCHANGED <<opened, at, redis, loc, hops>>

\* The node starts again, under the same name, or refreshes its key.
Heartbeat(n) ==
  /\ n \notin running \cap alive
  /\ running' = running \cup {n} /\ alive' = alive \cup {n}
  /\ UNCHANGED <<current, opened, at, pc, memory, key, listed, cleanup, request, troubles>>

\* Three heartbeats are missing.
NodeExpires(n) ==
  /\ n \in alive
  /\ IF n \in running THEN Trouble ELSE UNCHANGED troubles
  /\ alive' = alive \ {n}
  /\ UNCHANGED <<current, opened, at, pc, memory, key, listed, running, cleanup, request>>

\* KEYS of the node keys.
SweepKeys(n) ==
  /\ n \in Sweepers \cap running /\ sweep[n] = NULL
  /\ sweep' = [sweep EXCEPT ![n] = alive]
  /\ UNCHANGED <<current, opened, at, pc, memory, redis, running, doomed, request, troubles>>

\* Mutant of Dead: it compares with itself only.
DeadForeign(n) == key \notin {NULL, n} /\ key \in sweep[n]

\* The key names a node that is not among them.
Dead(n) == key # NULL /\ key \notin sweep[n]

\* CleanupStaleAgents: the members of the sorted set, and GET of the agent ...
SweepGet(n) ==
  /\ sweep[n] # NULL /\ n \notin doomed
  /\ IF listed # "absent" /\ Dead(n)
     THEN doomed' = doomed \cup {n} /\ UNCHANGED <<sweep, listed>>
     ELSE /\ sweep' = [sweep EXCEPT ![n] = NULL] /\ UNCHANGED doomed
          /\ listed' = IF listed = "stale" THEN "absent" ELSE listed
  /\ UNCHANGED <<current, opened, at, pc, memory, key, alive, running, request, troubles>>

\* ... and Unregister, whatever it has become meanwhile.  CleanupExpiredAgents after
\* it finds nothing.
SweepUnregister(n) ==
  /\ n \in doomed
  /\ key' = NULL /\ listed' = "absent"
  /\ doomed' = doomed \ {n} /\ sweep' = [sweep EXCEPT ![n] = NULL]
  /\ UNCHANGED <<current, opened, at, pc, memory, alive, running, request, troubles>>

(***************************************************************************)
(* handleConnectArthas, where it looks for the agent                         *)
(***************************************************************************)
Ask(n) ==
  /\ reqPc = "idle" /\ n \in Askers \cap running
  /\ loc' = n /\ reqPc' = "look"
  /\ UNCHANGED <<current, opened, at, pc, memory, redis, running, cleanup, hops, troubles>>

\* GetNodeAddr: the local registry, then Redis.
NodeAddr == IF loc \in local THEN loc ELSE key

\* Mutant of MayProxy: no limit.
MayProxyAlways == TRUE

\* The sessions of all nodes are counted together here.
MayProxy == hops < MaxSessions

\* The agent is here, or the request is forwarded, or the browser waits.
Look ==
  /\ reqPc \in {"look", "wait"}
  /\ \/ agents[loc] # 0 /\ reqPc' = "served" /\ UNCHANGED <<loc, hops>>
     \/ /\ agents[loc] = 0 /\ NodeAddr # NULL
        /\ IF MayProxy /\ NodeAddr \in running
           THEN /\ loc' = NodeAddr /\ reqPc' = "look"
                /\ hops' = IF hops < MaxSessions THEN hops + 1 ELSE hops
           ELSE reqPc' = "failed" /\ UNCHANGED <<loc, hops>>
     \/ agents[loc] = 0 /\ NodeAddr = NULL /\ reqPc = "look" /\ reqPc' = "wait" /\ UNCHANGED <<loc, hops>>
  /\ UNCHANGED <<current, opened, at, pc, memory, redis, running, cleanup, troubles>>

\* connectTimeout.
WaitEnds ==
  /\ reqPc = "wait"
  /\ reqPc' = "failed"
  /\ UNCHANGED <<current, opened, at, pc, memory, redis, running, cleanup, loc, hops, troubles>>

(***************************************************************************)
(* Specification                                                             *)
(***************************************************************************)
Init ==
  /\ current = 0 /\ opened = 0
  /\ at = [c \in Conns |-> NULL] /\ pc = [c \in Conns |-> "none"]
  /\ agents = [n \in Nodes |-> 0] /\ local = {} /\ pongs = {}
  /\ key = NULL /\ listed = "absent"
  /\ running = Nodes /\ alive = Nodes
  /\ sweep = [n \in Nodes |-> NULL] /\ doomed = {}
  /\ loc = NULL /\ hops = 0 /\ reqPc = "idle"
  /\ troubles = 0

Handle(c) ==
  Enter(c) \/ RegisterLocal(c) \/ RegisterRedis(c) \/ Leave(c) \/ UnregisterLocal(c) \/ UnregisterRedis(c)

Sweep(n) == SweepKeys(n) \/ SweepGet(n) \/ SweepUnregister(n)

Next ==
  \/ \E n \in Nodes : \/ Connect(n) \/ Flush(n) \/ Crash(n) \/ Heartbeat(n) \/ NodeExpires(n)
                      \/ Sweep(n) \/ Ask(n)
  \/ \E c \in Conns : Handle(c)
  \/ Lose \/ Pong \/ BecomesStale \/ KeyExpires \/ Look \/ WaitEnds

Spec == Init /\ [][Next]_vars

\* Handlers, loops and requests go on; the key of a node that is down expires.
Fairness ==
  /\ \A c \in Conns : WF_vars(Handle(c))
  /\ \A n \in Nodes : WF_vars(Sweep(n)) /\ WF_vars(n \notin running /\ NodeExpires(n))
  /\ WF_vars(Look) /\ WF_vars(WaitEnds)

(***************************************************************************)
(* Properties                                                                *)
(***************************************************************************)
TypeOK ==
  /\ current \in 0..MaxConns /\ opened \in 0..MaxConns
  /\ at \in [Conns -> Nodes \cup {NULL}]
  /\ pc \in [Conns -> {"none", "enter", "local", "redis", "serve", "forget", "forget redis", "done"}]
  /\ agents \in [Nodes -> 0..MaxConns]
  /\ local \subseteq Nodes /\ pongs \subseteq Nodes
  /\ key \in Nodes \cup {NULL} /\ listed \in {"fresh", "stale", "absent"}
  /\ running \subseteq Nodes /\ alive \subseteq Nodes
  /\ sweep \in [Nodes -> (SUBSET Nodes) \cup {NULL}] /\ doomed \subseteq Nodes
  /\ loc \in Nodes \cup {NULL} /\ hops \in 0..MaxSessions
  /\ reqPc \in {"idle", "look", "wait", "served", "failed"} /\ troubles \in 0..MaxTroubles

\* The node that serves the agent's connection finds it among its own, however many
\* handlers of earlier connections of the agent are still cleaning up there.
ServedIsConnected == current # 0 /\ At(current, "serve") => agents[at[current]] = current

\* A request finds the agent or fails, though the registry may send it from node to
\* node, or to the node it is at, for as long as a key lives.
RequestsEnd == reqPc = "look" ~> reqPc \in {"served", "failed"}

\* The agents of a node that has died are removed before their key expires, or they
\* connect again, as long as the sorted set has them.
DeadNodesAreCleared ==
  \A n \in Nodes : key = n /\ n \notin running ~> key # n \/ n \in running \/ listed = "absent"

\* "If the agent already exists, it will be replaced" (registry/interface.go): an
\* agent whose old handlers are done, and whose key was written, is in the registry.
ReplacedIsRegistered ==
  current # 0 /\ At(current, "serve") /\ troubles = 0 /\ (\A c \in Conns \ {current} : pc[c] \in {"none", "done"})
    => key = at[current]

\* "Agent is on another node" (handleConnectArthas): a request is never forwarded to
\* the node it is at.
ForwardedElsewhere == [][hops' > hops => loc' # loc]_vars

==============================================================================
