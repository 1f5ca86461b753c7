-------------------------------- MODULE Arthas --------------------------------
(***************************************************************************)
(* The Arthas tunnel: its registry of agents (which this module extends), and   *)
(* its pending connections and sessions.  They share no state: a session asks   *)
(* the registry for the agent's connection only, which it may or may not have.   *)
(***************************************************************************)
EXTENDS TunnelRegistry

CONSTANTS
  Requests, Programmatic, Tunnels, Distributed,
  MaxFaults, Shutdowns                             \* of the sessions

ASSUME BoundsAreNat == MaxConns \in Nat /\ MaxTroubles \in Nat /\ MaxSessions \in Nat

VARIABLES
  spc, got, pendings, published, chan, closed, asked, tpc, for, home, counted, relayed,
  recent, detached, stopping, panicked, faults

sessionVars == <<spc, got, pendings, published, chan, closed, asked, tpc, for, home, counted,
                 relayed, recent, detached, stopping, panicked, faults>>

Sessions == INSTANCE TunnelSessions WITH pc <- spc

\* A request that is over or has its session has left nothing behind in the stores, and
\* does not count as pending, but for a key whose DEL has failed.
NothingPends == Sessions!NothingPends

==============================================================================
