------------------------------- MODULE MCArthas -------------------------------
(***************************************************************************)
(* Small instances, for TLC, of the two parts of the Arthas tunnel: its        *)
(* registry of agents, and its pending connections and sessions.  They share   *)
(* no state, so that a behaviour exercises one of them (part) while the other  *)
(* stays in its initial state.  Each is instantiated twice, with bounds that   *)
(* let different cases happen.                                                 *)
(***************************************************************************)
EXTENDS Arthas, TLC

VARIABLE part

arthasVars == <<part, vars, sessionVars>>

(***************************************************************************)
(* The instances.  The registry that this module extends has reconnections,    *)
(* but neither faults nor clean-up; in this one they take place.               *)
(***************************************************************************)
Swept == INSTANCE TunnelRegistry WITH
  Sweepers <- Nodes, Askers <- {"n1"}, MaxConns <- 1, MaxTroubles <- 1

RequestOf == <<"r1", "r2">>
Local == INSTANCE TunnelSessions WITH Distributed <- FALSE, pc <- spc

ArthasInit ==
  /\ part \in {"registry", "swept", "local", "shared"}
  /\ IF part = "swept" THEN Swept!Init ELSE Init
  /\ Local!Init

InRegistry(p, A) == part = p /\ A /\ UNCHANGED <<part, sessionVars>>
InTunnel(p, A) == part = p /\ A /\ UNCHANGED <<part, vars>>

ArthasNext ==
  \/ InRegistry("registry", Next)
  \/ InRegistry("swept", Swept!Next)
  \/ InTunnel("local", Local!Next)
  \/ InTunnel("shared", Sessions!Next)

ArthasSpec == ArthasInit /\ [][ArthasNext]_arthasVars

(***************************************************************************)
(* The Fairness of each instance, for the behaviours of its part.  As part     *)
(* never changes, fairness of a disjunction over parts is fairness of each.    *)
(***************************************************************************)
\* What happens in the registry, and to the request that looks for the agent.
RegistryFairness ==
  /\ \A c \in Conns :
       WF_arthasVars(\/ InRegistry("registry", Handle(c))
                     \/ c = 1 /\ InRegistry("swept", Swept!Handle(1))
                     \/ InTunnel("local", ~panicked /\ Local!Answer(RequestOf[c]))
                     \/ InTunnel("shared", ~panicked /\ Sessions!Answer(RequestOf[c])))
  /\ WF_arthasVars(\/ InRegistry("registry", Look \/ WaitEnds)
                   \/ InRegistry("swept", Swept!Look \/ Swept!WaitEnds))
  /\ \A n \in Nodes : /\ WF_arthasVars(InRegistry("swept", Swept!Sweep(n)))
                      /\ WF_arthasVars(InRegistry("swept", n \notin running /\ Swept!NodeExpires(n)))

FairArthasSpec == ArthasSpec /\ RegistryFairness

(***************************************************************************)
(* Properties of the instances                                               *)
(***************************************************************************)
\* A request for a session is answered in the end.
SessionRequestsEnd == Local!RequestsEnd

==============================================================================
