----------------------------- MODULE ArthasProofs -----------------------------
(***************************************************************************)
(* The two parts of the Arthas tunnel, for any number of nodes, connections,   *)
(* requests and tunnels, and with any number of faults.                       *)
(*                                                                         *)
(* The registry: the node that serves the connection of an agent finds it among *)
(* its own, whatever the handlers of earlier connections still do.  This is not  *)
(* inductive: before a handler serves its connection it has entered it, and     *)
(* between the two the clean-up of a replaced one may run.  Entered strengthens  *)
(* it to all the time the handler registers the agent, and HasNode says that a   *)
(* handler knows its node.                                                   *)
(*                                                                         *)
(* The sessions: a request that is over or has its session has left nothing *)
(* behind.  Pending strengthens this to where a request may be while it is in a  *)
(* store or counts, and to what it is once it has its tunnel: it was then taken  *)
(* out of the count, and the session begins without another look at it.         *)
(***************************************************************************)
EXTENDS Arthas, TLAPS

(***************************************************************************)
(* The registry                                                              *)
(***************************************************************************)
Pcs == {"none", "enter", "local", "redis", "serve", "forget", "forget redis", "done"}

HasNode ==
  /\ \A c \in Conns : pc[c] # "none" => at[c] \in Nodes
  /\ current # 0 => pc[current] # "none"

\* From its registration on, the connection the agent has is that of its node.
Entered ==
  current # 0 /\ pc[current] \in {"local", "redis", "serve"} => agents[at[current]] = current

IInv == TypeOK /\ HasNode /\ Entered

USE BoundsAreNat
DEF At, Goto, Trouble

-----------------------------------------------------------------------------
\* No agent is connected and no tunnel is open at first.
LEMMA InitInv ==
  ASSUME Init
  PROVE  IInv
  <1>1. /\ current \in 0..MaxConns /\ opened \in 0..MaxConns
        /\ hops \in 0..MaxSessions /\ troubles \in 0..MaxTroubles
    BY DEF Init
  <1>2. /\ at \in [Conns -> Nodes \cup {NULL}] /\ pc \in [Conns -> Pcs]
        /\ agents \in [Nodes -> 0..MaxConns]
        /\ sweep \in [Nodes -> (SUBSET Nodes) \cup {NULL}]
    BY DEF Init, Pcs
  <1>3. /\ local \subseteq Nodes /\ pongs \subseteq Nodes /\ running \subseteq Nodes
        /\ alive \subseteq Nodes /\ doomed \subseteq Nodes
        /\ key \in Nodes \cup {NULL} /\ loc \in Nodes \cup {NULL}
        /\ listed = "absent" /\ reqPc = "idle"
    BY DEF Init
  <1>4. TypeOK
    BY <1>1, <1>2, <1>3 DEF TypeOK, Pcs
  <1>5. HasNode /\ Entered
    BY DEF Init, HasNode, Entered, Conns
  <1> QED
    BY <1>4, <1>5 DEF IInv

\* Every step keeps the types; the bounds of the counters are in the guards of their actions.
LEMMA TypeStep ==
  ASSUME TypeOK, HasNode, [Next]_vars
  PROVE  TypeOK'
  <1>current. current \in 0..MaxConns
    BY DEF TypeOK, Pcs
  <1>opened. opened \in 0..MaxConns
    BY DEF TypeOK, Pcs
  <1>at. at \in [Conns -> Nodes \cup {NULL}]
    BY DEF TypeOK, Pcs
  <1>pc. pc \in [Conns -> Pcs]
    BY DEF TypeOK, Pcs
  <1>agents. agents \in [Nodes -> 0..MaxConns]
    BY DEF TypeOK, Pcs
  <1>local. local \subseteq Nodes
    BY DEF TypeOK, Pcs
  <1>pongs. pongs \subseteq Nodes
    BY DEF TypeOK, Pcs
  <1>key. key \in Nodes \cup {NULL}
    BY DEF TypeOK, Pcs
  <1>listed. listed \in {"fresh", "stale", "absent"}
    BY DEF TypeOK, Pcs
  <1>alive. alive \subseteq Nodes
    BY DEF TypeOK, Pcs
  <1>running. running \subseteq Nodes
    BY DEF TypeOK, Pcs
  <1>sweep. sweep \in [Nodes -> (SUBSET Nodes) \cup {NULL}]
    BY DEF TypeOK, Pcs
  <1>doomed. doomed \subseteq Nodes
    BY DEF TypeOK, Pcs
  <1>loc. loc \in Nodes \cup {NULL}
    BY DEF TypeOK, Pcs
  <1>hops. hops \in 0..MaxSessions
    BY DEF TypeOK, Pcs
  <1>reqPc. reqPc \in {"idle", "look", "wait", "served", "failed"}
    BY DEF TypeOK, Pcs
  <1>troubles. troubles \in 0..MaxTroubles
    BY DEF TypeOK, Pcs
  <1>hasnode. \A c \in Conns : pc[c] # "none" => at[c] \in Nodes
    BY DEF HasNode
  <1>1. ASSUME NEW n \in Nodes, Connect(n)
        PROVE  TypeOK'
    <2>1. current' \in 0..MaxConns
      BY <1>1, <1>current, <1>opened DEF Connect, Pcs
    <2>2. opened' \in 0..MaxConns
      BY <1>1, <1>opened DEF Connect, Pcs
    <2>3. at' \in [Conns -> Nodes \cup {NULL}]
      BY <1>1, <1>at DEF Connect, Pcs
    <2>4. pc' \in [Conns -> Pcs]
      BY <1>1, <1>pc DEF Connect, Pcs
    <2>5. UNCHANGED <<agents, local, pongs, key, listed, alive, running, sweep, doomed, loc,
                      hops, reqPc, troubles>>
      BY <1>1 DEF Connect, Pcs, memory, redis, cleanup, request
    <2> QED BY <2>1, <2>2, <2>3, <2>4, <2>5 DEF TypeOK, Pcs
  <1>2. CASE Lose
    <2>1. current' \in 0..MaxConns
      BY <1>2, <1>current DEF Lose
    <2>2. UNCHANGED <<opened, at, pc, agents, local, pongs, key, listed, alive, running, sweep,
                      doomed, loc, hops, reqPc, troubles>>
      BY <1>2 DEF Lose, memory, redis, cleanup, request
    <2> QED BY <2>1, <2>2 DEF TypeOK, Pcs
  <1>3. ASSUME NEW c \in Conns, Enter(c)
        PROVE  TypeOK'
    <2>1. current' \in 0..MaxConns
      BY <1>3, <1>current DEF Enter, Pcs, Conns
    <2>2. agents' \in [Nodes -> 0..MaxConns]
      BY <1>3, <1>agents, <1>at, <1>hasnode DEF Enter, Pcs, Conns
    <2>3. pc' \in [Conns -> Pcs]
      BY <1>3, <1>pc DEF Enter, Pcs, Conns
    <2>4. UNCHANGED <<opened, at, local, pongs, key, listed, alive, running, sweep, doomed, loc,
                      hops, reqPc, troubles>>
      BY <1>3 DEF Enter, Pcs, Conns, memory, redis, cleanup, request
    <2> QED BY <2>1, <2>2, <2>3, <2>4 DEF TypeOK, Pcs
  <1>4. ASSUME NEW c \in Conns, RegisterLocal(c)
        PROVE  TypeOK'
    <2>1. local' \subseteq Nodes
      BY <1>4, <1>local, <1>at, <1>hasnode DEF RegisterLocal, Pcs
    <2>2. pc' \in [Conns -> Pcs]
      BY <1>4, <1>pc DEF RegisterLocal, Pcs
    <2>3. UNCHANGED <<current, opened, at, agents, pongs, key, listed, alive, running, sweep,
                      doomed, loc, hops, reqPc, troubles>>
      BY <1>4 DEF RegisterLocal, Pcs, memory, redis, cleanup, request
    <2> QED BY <2>1, <2>2, <2>3 DEF TypeOK, Pcs
  <1>5. ASSUME NEW c \in Conns, RegisterRedis(c)
        PROVE  TypeOK'
    <2>1. key' \in Nodes \cup {NULL}
      BY <1>5, <1>key, <1>at DEF RegisterRedis, Pcs
    <2>2. listed' \in {"fresh", "stale", "absent"}
      BY <1>5, <1>listed DEF RegisterRedis, Pcs
    <2>3. troubles' \in 0..MaxTroubles
      BY <1>5, <1>troubles DEF RegisterRedis, Pcs
    <2>4. pc' \in [Conns -> Pcs]
      BY <1>5, <1>pc DEF RegisterRedis, Pcs
    <2>5. UNCHANGED <<current, opened, at, agents, local, pongs, alive, running, sweep, doomed,
                      loc, hops, reqPc>>
      BY <1>5 DEF RegisterRedis, Pcs, memory, redis, cleanup, request
    <2> QED BY <2>1, <2>2, <2>3, <2>4, <2>5 DEF TypeOK, Pcs
  <1>6. ASSUME NEW c \in Conns, Leave(c)
        PROVE  TypeOK'
    <2>1. agents' \in [Nodes -> 0..MaxConns]
      BY <1>6, <1>agents, <1>at, <1>hasnode DEF Leave, Pcs, Left
    <2>2. pc' \in [Conns -> Pcs]
      BY <1>6, <1>pc DEF Leave, Pcs, Left
    <2>3. UNCHANGED <<current, opened, at, local, pongs, key, listed, alive, running, sweep,
                      doomed, loc, hops, reqPc, troubles>>
      BY <1>6 DEF Leave, Pcs, Left, memory, redis, cleanup, request
    <2> QED BY <2>1, <2>2, <2>3 DEF TypeOK, Pcs
  <1>7. ASSUME NEW c \in Conns, UnregisterLocal(c)
        PROVE  TypeOK'
    <2>1. local' \subseteq Nodes
      BY <1>7, <1>local DEF UnregisterLocal, Pcs
    <2>2. pc' \in [Conns -> Pcs]
      BY <1>7, <1>pc DEF UnregisterLocal, Pcs
    <2>3. UNCHANGED <<current, opened, at, agents, pongs, key, listed, alive, running, sweep,
                      doomed, loc, hops, reqPc, troubles>>
      BY <1>7 DEF UnregisterLocal, Pcs, memory, redis, cleanup, request
    <2> QED BY <2>1, <2>2, <2>3 DEF TypeOK, Pcs
  <1>8. ASSUME NEW c \in Conns, UnregisterRedis(c)
        PROVE  TypeOK'
    <2>1. key' \in Nodes \cup {NULL}
      BY <1>8, <1>key DEF UnregisterRedis, Pcs
    <2>2. listed' \in {"fresh", "stale", "absent"}
      BY <1>8, <1>listed DEF UnregisterRedis, Pcs
    <2>3. troubles' \in 0..MaxTroubles
      <3>1. troubles' = troubles \/ (troubles < MaxTroubles /\ troubles' = troubles + 1)
        BY <1>8 DEF UnregisterRedis
      <3> QED
        BY <1>troubles, <3>1
    <2>4. pc' \in [Conns -> Pcs]
      BY <1>8, <1>pc DEF UnregisterRedis, Pcs
    <2>5. UNCHANGED <<current, opened, at, agents, local, pongs, alive, running, sweep, doomed,
                      loc, hops, reqPc>>
      BY <1>8 DEF UnregisterRedis, Pcs, memory, redis, cleanup, request
    <2> QED BY <2>1, <2>2, <2>3, <2>4, <2>5 DEF TypeOK, Pcs
  <1>9. CASE Pong
    <2>1. pongs' \subseteq Nodes
      BY <1>9, <1>pongs, <1>current, <1>at, <1>hasnode DEF Pong, Conns
    <2>2. UNCHANGED <<current, opened, at, pc, agents, local, key, listed, alive, running,
                      sweep, doomed, loc, hops, reqPc, troubles>>
      BY <1>9 DEF Pong, Conns, memory, redis, cleanup, request
    <2> QED BY <2>1, <2>2 DEF TypeOK, Pcs
  <1>10. ASSUME NEW n \in Nodes, Flush(n)
        PROVE  TypeOK'
    <2>1. pongs' \subseteq Nodes
      BY <1>10, <1>pongs DEF Flush
    <2>2. listed' \in {"fresh", "stale", "absent"}
      BY <1>10, <1>listed DEF Flush
    <2>3. UNCHANGED <<current, opened, at, pc, agents, local, key, alive, running, sweep,
                      doomed, loc, hops, reqPc, troubles>>
      BY <1>10 DEF Flush, memory, redis, cleanup, request
    <2> QED BY <2>1, <2>2, <2>3 DEF TypeOK, Pcs
  <1>11. CASE BecomesStale
    <2>1. listed' \in {"fresh", "stale", "absent"}
      BY <1>11, <1>listed DEF BecomesStale
    <2>2. UNCHANGED <<current, opened, at, pc, agents, local, pongs, key, alive, running, sweep,
                      doomed, loc, hops, reqPc, troubles>>
      BY <1>11 DEF BecomesStale, memory, redis, cleanup, request
    <2> QED BY <2>1, <2>2 DEF TypeOK, Pcs
  <1>12. CASE KeyExpires
    <2>1. key' \in Nodes \cup {NULL}
      BY <1>12, <1>key DEF KeyExpires
    <2>2. UNCHANGED <<current, opened, at, pc, agents, local, pongs, listed, alive, running,
                      sweep, doomed, loc, hops, reqPc, troubles>>
      BY <1>12 DEF KeyExpires, memory, redis, cleanup, request
    <2> QED BY <2>1, <2>2 DEF TypeOK, Pcs
  <1>13. ASSUME NEW n \in Nodes, Crash(n)
        PROVE  TypeOK'
    <2>1. running' \subseteq Nodes
      BY <1>13, <1>running DEF Crash, Pcs
    <2>2. pc' \in [Conns -> Pcs]
      BY <1>13, <1>pc DEF Crash, Pcs
    <2>3. current' \in 0..MaxConns
      BY <1>13, <1>current DEF Crash, Pcs
    <2>4. agents' \in [Nodes -> 0..MaxConns]
      BY <1>13, <1>agents DEF Crash, Pcs
    <2>5. local' \subseteq Nodes
      BY <1>13, <1>local DEF Crash, Pcs
    <2>6. pongs' \subseteq Nodes
      BY <1>13, <1>pongs DEF Crash, Pcs
    <2>7. sweep' \in [Nodes -> (SUBSET Nodes) \cup {NULL}]
      BY <1>13, <1>sweep DEF Crash, Pcs
    <2>8. doomed' \subseteq Nodes
      BY <1>13, <1>doomed DEF Crash, Pcs
    <2>9. reqPc' \in {"idle", "look", "wait", "served", "failed"}
      BY <1>13, <1>reqPc DEF Crash, Pcs
    <2>10. troubles' \in 0..MaxTroubles
      BY <1>13, <1>troubles DEF Crash, Pcs
    <2>11. UNCHANGED <<opened, at, key, listed, alive, loc, hops>>
      BY <1>13 DEF Crash, Pcs, memory, redis, cleanup, request
    <2> QED BY <2>1, <2>2, <2>3, <2>4, <2>5, <2>6, <2>7, <2>8, <2>9, <2>10, <2>11 DEF TypeOK, Pcs
  <1>14. ASSUME NEW n \in Nodes, Heartbeat(n)
        PROVE  TypeOK'
    <2>1. running' \subseteq Nodes
      BY <1>14, <1>running DEF Heartbeat
    <2>2. alive' \subseteq Nodes
      BY <1>14, <1>alive DEF Heartbeat
    <2>3. UNCHANGED <<current, opened, at, pc, agents, local, pongs, key, listed, sweep, doomed,
                      loc, hops, reqPc, troubles>>
      BY <1>14 DEF Heartbeat, memory, redis, cleanup, request
    <2> QED BY <2>1, <2>2, <2>3 DEF TypeOK, Pcs
  <1>15. ASSUME NEW n \in Nodes, NodeExpires(n)
        PROVE  TypeOK'
    <2>1. alive' \subseteq Nodes
      BY <1>15, <1>alive DEF NodeExpires
    <2>2. troubles' \in 0..MaxTroubles
      BY <1>15, <1>troubles DEF NodeExpires
    <2>3. UNCHANGED <<current, opened, at, pc, agents, local, pongs, key, listed, running,
                      sweep, doomed, loc, hops, reqPc>>
      BY <1>15 DEF NodeExpires, memory, redis, cleanup, request
    <2> QED BY <2>1, <2>2, <2>3 DEF TypeOK, Pcs
  <1>16. ASSUME NEW n \in Nodes, SweepKeys(n)
        PROVE  TypeOK'
    <2>1. sweep' \in [Nodes -> (SUBSET Nodes) \cup {NULL}]
      BY <1>16, <1>sweep, <1>alive DEF SweepKeys
    <2>2. UNCHANGED <<current, opened, at, pc, agents, local, pongs, key, listed, alive,
                      running, doomed, loc, hops, reqPc, troubles>>
      BY <1>16 DEF SweepKeys, memory, redis, cleanup, request
    <2> QED BY <2>1, <2>2 DEF TypeOK, Pcs
  <1>17. ASSUME NEW n \in Nodes, SweepGet(n)
        PROVE  TypeOK'
    <2>1. sweep' \in [Nodes -> (SUBSET Nodes) \cup {NULL}]
      BY <1>17, <1>sweep DEF SweepGet
    <2>2. doomed' \subseteq Nodes
      BY <1>17, <1>doomed DEF SweepGet
    <2>3. listed' \in {"fresh", "stale", "absent"}
      BY <1>17, <1>listed DEF SweepGet
    <2>4. UNCHANGED <<current, opened, at, pc, agents, local, pongs, key, alive, running, loc,
                      hops, reqPc, troubles>>
      BY <1>17 DEF SweepGet, memory, redis, cleanup, request
    <2> QED BY <2>1, <2>2, <2>3, <2>4 DEF TypeOK, Pcs
  <1>18. ASSUME NEW n \in Nodes, SweepUnregister(n)
        PROVE  TypeOK'
    <2>1. key' \in Nodes \cup {NULL}
      BY <1>18, <1>key DEF SweepUnregister
    <2>2. listed' \in {"fresh", "stale", "absent"}
      BY <1>18, <1>listed DEF SweepUnregister
    <2>3. sweep' \in [Nodes -> (SUBSET Nodes) \cup {NULL}]
      BY <1>18, <1>sweep DEF SweepUnregister
    <2>4. doomed' \subseteq Nodes
      BY <1>18, <1>doomed DEF SweepUnregister
    <2>5. UNCHANGED <<current, opened, at, pc, agents, local, pongs, alive, running, loc, hops,
                      reqPc, troubles>>
      BY <1>18 DEF SweepUnregister, memory, redis, cleanup, request
    <2> QED BY <2>1, <2>2, <2>3, <2>4, <2>5 DEF TypeOK, Pcs
  <1>19. ASSUME NEW n \in Nodes, Ask(n)
        PROVE  TypeOK'
    <2>1. loc' \in Nodes \cup {NULL}
      BY <1>19, <1>loc DEF Ask
    <2>2. reqPc' \in {"idle", "look", "wait", "served", "failed"}
      BY <1>19, <1>reqPc DEF Ask
    <2>3. UNCHANGED <<current, opened, at, pc, agents, local, pongs, key, listed, alive,
                      running, sweep, doomed, hops, troubles>>
      BY <1>19 DEF Ask, memory, redis, cleanup, request
    <2> QED BY <2>1, <2>2, <2>3 DEF TypeOK, Pcs
  <1>20. CASE Look
    <2>1. loc' \in Nodes \cup {NULL}
      BY <1>20, <1>loc, <1>key DEF Look, NodeAddr, MayProxy
    <2>2. hops' \in 0..MaxSessions
      BY <1>20, <1>hops DEF Look, NodeAddr, MayProxy
    <2>3. reqPc' \in {"idle", "look", "wait", "served", "failed"}
      BY <1>20, <1>reqPc DEF Look, NodeAddr, MayProxy
    <2>4. UNCHANGED <<current, opened, at, pc, agents, local, pongs, key, listed, alive,
                      running, sweep, doomed, troubles>>
      BY <1>20 DEF Look, NodeAddr, MayProxy, memory, redis, cleanup, request
    <2> QED BY <2>1, <2>2, <2>3, <2>4 DEF TypeOK, Pcs
  <1>21. CASE WaitEnds
    <2>1. reqPc' \in {"idle", "look", "wait", "served", "failed"}
      BY <1>21, <1>reqPc DEF WaitEnds
    <2>2. UNCHANGED <<current, opened, at, pc, agents, local, pongs, key, listed, alive,
                      running, sweep, doomed, loc, hops, troubles>>
      BY <1>21 DEF WaitEnds, memory, redis, cleanup, request
    <2> QED BY <2>1, <2>2 DEF TypeOK, Pcs
  <1>22. CASE UNCHANGED vars
    BY <1>22 DEF TypeOK, vars, memory, redis, cleanup, request
  <1> QED
    BY <1>1, <1>2, <1>3, <1>4, <1>5, <1>6, <1>7, <1>8, <1>9, <1>10, <1>11, <1>12, <1>13,
       <1>14, <1>15, <1>16, <1>17, <1>18, <1>19, <1>20, <1>21, <1>22 DEF Next, Handle, Sweep

\* Every step keeps what the tunnels of the invariant need to know of their node.
LEMMA HasNodeStep ==
  ASSUME TypeOK, HasNode, [Next]_vars
  PROVE  HasNode'
  <1>0. /\ current \in 0..MaxConns /\ opened \in 0..MaxConns
        /\ at \in [Conns -> Nodes \cup {NULL}] /\ pc \in [Conns -> Pcs]
    BY DEF TypeOK, Pcs
  <1>1. ASSUME NEW n \in Nodes, Connect(n)
        PROVE  HasNode'
    <2>1. /\ current' \in Conns /\ at' = [at EXCEPT ![current'] = n]
          /\ pc' = [pc EXCEPT ![current'] = "enter"]
      BY <1>0, <1>1 DEF Connect, Conns
    <2>2. pc'[current'] = "enter" /\ at'[current'] = n
      BY <1>0, <2>1
    <2>3. \A d \in Conns : d # current' => pc'[d] = pc[d] /\ at'[d] = at[d]
      BY <1>0, <2>1
    <2> QED
      BY <2>2, <2>3 DEF HasNode
  <1>2. ASSUME NEW c \in Conns, Handle(c)
        PROVE  HasNode'
    <2>1. at' = at /\ pc[c] # "none" /\ pc'[c] # "none"
      BY <1>0, <1>2
         DEF Handle, Enter, RegisterLocal, RegisterRedis, Leave, UnregisterLocal, UnregisterRedis
    <2>2. (\A d \in Conns : d # c => pc'[d] = pc[d]) /\ current' \in {0, current}
      BY <1>0, <1>2
         DEF Handle, Enter, RegisterLocal, RegisterRedis, Leave, UnregisterLocal, UnregisterRedis
    <2> QED
      <3>1. current' # 0 => current' \in Conns
        BY <1>0, <2>2 DEF Conns
      <3> QED
        BY <2>1, <2>2, <3>1 DEF HasNode
  <1>3. ASSUME NEW n \in Nodes, Crash(n)
        PROVE  HasNode'
    <2>1. at' = at /\ current' \in {0, current}
      BY <1>3 DEF Crash
    <2>2. \A c \in Conns : pc'[c] \in {pc[c], "done"} /\ (pc[c] = "none" => pc'[c] = "none")
      BY <1>3 DEF Crash
    <2>3. current' # 0 => current' \in Conns
      BY <1>0, <2>1 DEF Conns
    <2> QED
      BY <2>1, <2>2, <2>3 DEF HasNode
  <1>4. ASSUME UNCHANGED <<at, pc>>, current' \in {0, current}
        PROVE  HasNode'
    BY <1>4 DEF HasNode
  <1> QED
    BY <1>1, <1>2, <1>3, <1>4
       DEF Next, Lose, Pong, Flush, BecomesStale, KeyExpires, Heartbeat, NodeExpires, Sweep,
           SweepKeys, SweepGet, SweepUnregister, Ask, Look, WaitEnds, vars

\* Every step keeps what the entries of the registry say of the connections.
LEMMA EnteredStep ==
  ASSUME TypeOK, HasNode, Entered, [Next]_vars
  PROVE  Entered'
  <1>0. /\ current \in 0..MaxConns /\ opened \in 0..MaxConns
        /\ at \in [Conns -> Nodes \cup {NULL}] /\ pc \in [Conns -> Pcs]
        /\ agents \in [Nodes -> 0..MaxConns]
        /\ \A c \in Conns : pc[c] # "none" => at[c] \in Nodes
    BY DEF IInv, TypeOK, Pcs, HasNode, Conns
  <1>1. ASSUME NEW n \in Nodes, Connect(n)
        PROVE  Entered'
    <2>1. current' \in Conns /\ pc' = [pc EXCEPT ![current'] = "enter"]
      BY <1>0, <1>1 DEF Connect, Conns
    <2>2. pc'[current'] = "enter"
      BY <1>0, <2>1
    <2> QED
      BY <2>2 DEF Entered
  \* The connection replaces that of its node; if that was the agent's, it is closed.
  <1>2. ASSUME NEW c \in Conns, Enter(c)
        PROVE  Entered'
    <2>1. CASE current = c
      BY <1>0, <1>2, <2>1 DEF Entered, Enter
    <2>2. CASE current # c
      <3>1. CASE current = agents[at[c]]
        BY <1>2, <3>1 DEF Entered, Enter
      <3>2. CASE current # agents[at[c]]
        BY <1>0, <1>2, <2>2, <3>2 DEF Entered, Enter
      <3> QED
        BY <3>1, <3>2
    <2> QED
      BY <2>1, <2>2
  <1>3. ASSUME NEW c \in Conns,
               RegisterLocal(c) \/ RegisterRedis(c) \/ UnregisterLocal(c) \/ UnregisterRedis(c)
        PROVE  Entered'
    <2>1. UNCHANGED <<current, at, agents>>
      BY <1>3 DEF RegisterLocal, RegisterRedis, UnregisterLocal, UnregisterRedis, memory
    <2>2. \A d \in Conns : pc'[d] \in {"local", "redis", "serve"} => pc[d] \in {"local", "redis", "serve"}
      BY <1>0, <1>3 DEF RegisterLocal, RegisterRedis, UnregisterLocal, UnregisterRedis
    <2>3. current # 0 => current \in Conns
      BY <1>0 DEF Conns
    <2> QED
      BY <2>1, <2>2, <2>3 DEF Entered
  \* A handler takes away its own connection only.
  <1>4. ASSUME NEW c \in Conns, Leave(c)
        PROVE  Entered'
    BY <1>0, <1>4 DEF Entered, Leave, Left
  <1>5. ASSUME NEW n \in Nodes, Crash(n)
        PROVE  Entered'
    <2>1. current' # 0 => current' = current /\ current \in Conns /\ at[current] # n /\ at' = at
      BY <1>0, <1>5 DEF Crash, Conns
    <2>2. current' # 0 => pc'[current] = pc[current]
      BY <1>5, <2>1 DEF Crash
    <2>3. current' # 0 => agents'[at[current]] = agents[at[current]]
      BY <1>0, <1>5, <2>1 DEF Crash
    <2> QED
      BY <2>1, <2>2, <2>3 DEF Entered
  <1>6. CASE Lose
    BY <1>6 DEF Entered, Lose
  <1>7. ASSUME UNCHANGED <<current, at, pc, agents>>
        PROVE  Entered'
    BY <1>7 DEF Entered
  <1> QED
    BY <1>1, <1>2, <1>3, <1>4, <1>5, <1>6, <1>7
       DEF Next, Handle, Pong, Flush, BecomesStale, KeyExpires, Heartbeat, NodeExpires, Sweep,
           SweepKeys, SweepGet, SweepUnregister, Ask, Look, WaitEnds, vars, memory

\* The invariant holds in every state.
LEMMA Invariance == Spec => []IInv
  <1>1. Init => IInv
    BY InitInv
  <1>2. IInv /\ [Next]_vars => IInv'
    BY TypeStep, HasNodeStep, EnteredStep DEF IInv
  <1> QED
    BY <1>1, <1>2, PTL DEF Spec

-----------------------------------------------------------------------------
\* The connection that a node serves is the one it finds when a request asks for the
\* agent: neither the clean-up of an earlier connection (handleAgentRegister's defers)
\* nor another registration on the node has taken it away.
THEOREM ServedIsConnectedHolds == Spec => []ServedIsConnected
  <1>1. IInv => ServedIsConnected
    BY DEF IInv, Entered, ServedIsConnected
  <1> QED
    BY Invariance, <1>1, PTL

(***************************************************************************)
(* The sessions                                                              *)
(***************************************************************************)
Waiting == {"send", "find", "wait", "forget"}

SessionPcs == {"idle", "publish", "send", "find", "wait", "forget", "unpublish", "session", "over"}

Shape ==
  /\ spc \in [Requests -> SessionPcs]
  /\ got \in [Requests -> Tunnels \cup {NULL}] /\ chan \in [Requests -> Tunnels \cup {NULL}]
  /\ for \in [Tunnels -> Requests \cup {NULL}]
  /\ faults \in Nat

\* A request is in a store while it can be given a tunnel, and counts until it has one.
Pending(r) ==
  /\ r \in pendings => spc[r] \in {"publish"} \cup Waiting
  /\ r \in counted => spc[r] \in {"unpublish"} \cup Waiting
  /\ r \in published /\ faults = 0 /\ stopping = "no" => spc[r] \in {"unpublish"} \cup Waiting
  /\ got[r] # NULL => r \notin counted /\ spc[r] \in {"forget", "unpublish", "session", "over"}

SessionInv == Shape /\ \A r \in Requests : Pending(r)

USE DEF Waiting

-----------------------------------------------------------------------------
\* No request is under way at first.
LEMMA SessionInit ==
  ASSUME Sessions!Init
  PROVE  SessionInv
  <1>1. Shape
    BY DEF Sessions!Init, Shape, SessionPcs
  <1>2. \A r \in Requests : Pending(r)
    BY DEF Sessions!Init, Pending
  <1> QED
    BY <1>1, <1>2 DEF SessionInv

\* Every step keeps the types.
LEMMA SessionShapeStep ==
  ASSUME SessionInv, [Sessions!Next]_(Sessions!vars)
  PROVE  Shape'
  <1>0. /\ spc \in [Requests -> SessionPcs]
        /\ got \in [Requests -> Tunnels \cup {NULL}] /\ chan \in [Requests -> Tunnels \cup {NULL}]
        /\ for \in [Tunnels -> Requests \cup {NULL}] /\ faults \in Nat
    BY DEF SessionInv, Shape
  <1>1. ASSUME NEW r \in Requests, Sessions!Receive(r)
        PROVE  Shape'
    <2>1. spc' \in [Requests -> SessionPcs]
      BY <1>0, <1>1 DEF Sessions!Receive, Sessions!Goto, SessionPcs
    <2>2. /\ got' \in [Requests -> Tunnels \cup {NULL}]
          /\ chan' \in [Requests -> Tunnels \cup {NULL}]
      BY <1>0, <1>1 DEF Sessions!Receive
    <2>3. UNCHANGED <<for, faults>>
      BY <1>1 DEF Sessions!Receive, Sessions!tunnel
    <2> QED
      BY <1>0, <2>1, <2>2, <2>3 DEF Shape
  <1>2. ASSUME NEW t \in Tunnels,
               \/ Sessions!Put(t) \/ \E r \in Requests, h \in BOOLEAN : Sessions!OpenTunnel(t, r, h)
        PROVE  Shape'
    BY <1>0, <1>2 DEF Shape, Sessions!Put, Sessions!OpenTunnel, Sessions!store
  <1>3. ASSUME NEW r \in Requests,
               \/ Sessions!CreateLocal(r) \/ Sessions!Publish(r) \/ Sessions!PublishFails(r)
               \/ Sessions!Send(r) \/ Sessions!SendFails(r)
               \/ Sessions!Find(r) \/ Sessions!GiveUp(r) \/ Sessions!Forget(r)
               \/ Sessions!Unpublish(r) \/ Sessions!SessionEnds(r)
        PROVE  Shape'
    <2>1. UNCHANGED <<got, chan, for>> /\ faults' \in {faults, faults + 1}
      BY <1>3
         DEF Sessions!CreateLocal, Sessions!Publish, Sessions!PublishFails, Sessions!Send,
             Sessions!SendFails, Sessions!Find,
                  Sessions!GiveUp, Sessions!Forget, Sessions!Unpublish, Sessions!SessionEnds,
                  Sessions!Fault, Sessions!store, Sessions!tunnel
    <2>2. spc' \in [Requests -> SessionPcs]
      <3>1. \E l \in SessionPcs : spc' = [spc EXCEPT ![r] = l]
        BY <1>3
           DEF Sessions!CreateLocal, Sessions!Publish, Sessions!PublishFails, Sessions!Send,
               Sessions!SendFails, Sessions!Find,
                    Sessions!GiveUp, Sessions!Forget, Sessions!Unpublish, Sessions!SessionEnds, Sessions!Goto, SessionPcs
      <3> QED
        BY <1>0, <3>1
    <2> QED
      BY <1>0, <2>1, <2>2 DEF Shape
  <1>4. ASSUME UNCHANGED <<spc, got, chan, for, faults>>
        PROVE  Shape'
    BY <1>0, <1>4 DEF Shape
  <1> QED
    BY <1>1, <1>2, <1>3, <1>4
       DEF Sessions!Next, Sessions!Arrive, Sessions!Deliver, Sessions!BecomesIdle,
           Sessions!Sweep, Sessions!Cancel, Sessions!CloseStore,
           Sessions!vars, Sessions!store, Sessions!tunnel

\* Every step keeps a pending entry with the request that waits for it.
LEMMA PendingStep ==
  ASSUME SessionInv, [Sessions!Next]_(Sessions!vars), NEW r \in Requests
  PROVE  Pending(r)'
  <1>0. /\ spc \in [Requests -> SessionPcs] /\ faults \in Nat
        /\ got \in [Requests -> Tunnels \cup {NULL}]
        /\ Pending(r)
    BY DEF SessionInv, Shape
  \* What another request does concerns this one by the faults only.
  <1>1. ASSUME NEW q \in Requests, q # r,
               \/ Sessions!CreateLocal(q) \/ Sessions!Publish(q) \/ Sessions!PublishFails(q)
               \/ Sessions!Send(q) \/ Sessions!SendFails(q)
               \/ Sessions!Find(q) \/ Sessions!Receive(q) \/ Sessions!GiveUp(q)
               \/ Sessions!Forget(q) \/ Sessions!Unpublish(q) \/ Sessions!SessionEnds(q)
        PROVE  Pending(r)'
    <2>1. spc'[r] = spc[r] /\ got'[r] = got[r] /\ stopping' = stopping
      BY <1>0, <1>1
         DEF Sessions!CreateLocal, Sessions!Publish, Sessions!PublishFails, Sessions!Send,
             Sessions!SendFails, Sessions!Find, Sessions!Receive,
             Sessions!GiveUp, Sessions!Forget, Sessions!Unpublish, Sessions!SessionEnds,
             Sessions!Goto
    <2>2. /\ r \in pendings' => r \in pendings
          /\ r \in counted' => r \in counted
          /\ r \in published' => r \in published
      BY <1>1
         DEF Sessions!CreateLocal, Sessions!Publish, Sessions!PublishFails, Sessions!Send,
             Sessions!SendFails, Sessions!Find, Sessions!Receive,
             Sessions!GiveUp, Sessions!Forget, Sessions!Unpublish, Sessions!Unpublished,
             Sessions!SessionEnds, Sessions!store,
             Sessions!activity
    <2>3. faults' = faults \/ faults' = faults + 1
      BY <1>1
         DEF Sessions!CreateLocal, Sessions!Publish, Sessions!PublishFails, Sessions!Send,
             Sessions!SendFails, Sessions!Find, Sessions!Receive,
             Sessions!GiveUp, Sessions!Forget, Sessions!Unpublish, Sessions!SessionEnds,
             Sessions!Fault
    <2> QED
      BY <1>0, <2>1, <2>2, <2>3 DEF Pending
  <1>2. CASE Sessions!CreateLocal(r)
    BY <1>0, <1>2 DEF Pending, Sessions!CreateLocal, Sessions!At, Sessions!Goto
  <1>3. CASE Sessions!Publish(r)
    BY <1>0, <1>3 DEF Pending, Sessions!Publish, Sessions!At, Sessions!Goto
  <1>4. CASE Sessions!PublishFails(r)
    BY <1>0, <1>4
       DEF Pending, Sessions!PublishFails, Sessions!At, Sessions!Goto, Sessions!Fault,
           Sessions!activity
  <1>5. CASE Sessions!Send(r) \/ Sessions!SendFails(r)
    BY <1>0, <1>5
       DEF Pending, Sessions!Send, Sessions!SendFails, Sessions!At, Sessions!Goto,
           Sessions!Fault, Sessions!store, Sessions!activity
  <1>6. CASE Sessions!Find(r) \/ Sessions!GiveUp(r)
    BY <1>0, <1>6
       DEF Pending, Sessions!Find, Sessions!GiveUp, Sessions!GivesUp, Sessions!At,
           Sessions!Goto, Sessions!store, Sessions!activity
  <1>7. CASE Sessions!Receive(r)
    BY <1>0, <1>7 DEF Pending, Sessions!Receive, Sessions!At, Sessions!Goto
  <1>8. CASE Sessions!Forget(r)
    BY <1>0, <1>8 DEF Pending, Sessions!Forget, Sessions!At, Sessions!Goto, Sessions!activity
  <1>9. CASE Sessions!Unpublish(r)
    BY <1>0, <1>9
       DEF Pending, Sessions!Unpublish, Sessions!Unpublished, Sessions!At, Sessions!Goto,
           Sessions!Fault
  <1>10. CASE Sessions!SessionEnds(r)
    BY <1>0, <1>10 DEF Pending, Sessions!SessionEnds, Sessions!At, Sessions!Goto, Sessions!store
  <1>11. CASE Sessions!Cancel \/ Sessions!CloseStore
    BY <1>0, <1>11
       DEF Pending, Sessions!Cancel, Sessions!CloseStore, Sessions!store, Sessions!activity
  <1>12. ASSUME UNCHANGED <<spc, got, pendings, published, counted, stopping, faults>>
         PROVE  Pending(r)'
    BY <1>0, <1>12 DEF Pending
  <1> QED
    BY <1>1, <1>2, <1>3, <1>4, <1>5, <1>6, <1>7, <1>8, <1>9, <1>10, <1>11, <1>12
       DEF Sessions!Next, Sessions!Arrive, Sessions!Deliver, Sessions!Put, Sessions!OpenTunnel,
           Sessions!BecomesIdle, Sessions!Sweep, Sessions!vars,
           Sessions!store, Sessions!activity

-----------------------------------------------------------------------------
\* However a request ends, with a tunnel, a timer, an error or a shutdown: no pending of
\* it is left in the stores and it does not count as one (handleConnectArthas and
\* connectToAgentProgrammatic), but for a key whose DEL has failed.
THEOREM NothingPendsHolds == Sessions!Spec => []NothingPends
  <1>1. Sessions!Init => SessionInv
    BY SessionInit
  <1>2. SessionInv /\ [Sessions!Next]_(Sessions!vars) => SessionInv'
    BY SessionShapeStep, PendingStep DEF SessionInv
  <1>3. SessionInv => NothingPends
    BY DEF SessionInv, Pending, NothingPends, Sessions!NothingPends
  <1> QED
    BY <1>1, <1>2, <1>3, PTL DEF Sessions!Spec

==============================================================================
