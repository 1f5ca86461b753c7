----------------------------- MODULE TunnelSessions -----------------------------
(***************************************************************************)
(* Arthas sessions through the tunnel (arthastunnelext): a request of a        *)
(* browser or of the MCP server is made pending (pending/local.go, redis.go),  *)
(* the agent is told over its control connection to open a tunnel              *)
(* (arthasuri_compat.go), and the tunnel is handed to the request that waits.  *)
(* The sweep of auto_detach submits a detach task for an agent that is idle.   *)
(*                                                                         *)
(* The requests run on the node that has the control connection; the agent's   *)
(* tunnel arrives there or, in distributed mode, on another node, which        *)
(* forwards it.                                                              *)
(***************************************************************************)
EXTENDS Naturals, FiniteSets

CONSTANTS
  Requests,      \* pending connections, each with a clientConnID of its own
  Programmatic,  \* those of connectToAgentProgrammatic; the others are browsers
  Tunnels,       \* openTunnel connections the agent may open
  Distributed,   \* distributed.enabled
  MaxFaults,     \* bound: failed Redis commands and writes to the agent
  Shutdowns,     \* whether the collector may be shut down
  NULL

VARIABLES
  pc, got,        \* where a request is, and the tunnel it has received
  pendings,       \* pending map of the local store
  published,      \* pending keys in Redis
  chan, closed,   \* tunnelCh of a request: what it buffers; which are closed
  asked,          \* requests whose startTunnel has reached the agent
  tpc, for, home, \* where a tunnel is, its request, and whether it came to this node
  counted,        \* requests in activePendings
  relayed,        \* requests in activeTunnels
  recent,         \* lastActivityAt is within IdleThreshold
  detached,       \* history: requests that had a session when a sweep chose to detach
  stopping,       \* shutdown: "no", "cancelled" or "closed"
  panicked,       \* a goroutine has panicked, and the process with it
  faults

store == <<pendings, published, chan, closed>>
activity == <<counted, relayed, recent>>
tunnel == <<tpc, for, home>>
vars == <<pc, got, store, asked, tunnel, activity, detached, stopping, panicked, faults>>

At(r, l) == pc[r] = l
Goto(r, l) == pc' = [pc EXCEPT ![r] = l]
Fault == faults < MaxFaults /\ faults' = faults + 1
InSession == {r \in Requests : pc[r] = "session"}

(***************************************************************************)
(* handleConnectArthas and connectToAgentProgrammatic                        *)
(***************************************************************************)
\* CreateWithBrowserConn, or Create of a store that is local only.
CreateLocal(r) ==
  /\ At(r, "idle") /\ stopping = "no"
  /\ r \notin Programmatic \/ ~Distributed
  /\ pendings' = pendings \cup {r}
  /\ Goto(r, IF Distributed THEN "publish" ELSE "send")
  /\ counted' = IF Distributed THEN counted ELSE counted \cup {r}
  /\ recent' = (recent \/ ~Distributed)
  /\ UNCHANGED <<got, published, chan, closed, asked, tunnel, relayed, detached,
                 stopping, panicked, faults>>

\* Create of the Redis store.
Publish(r) ==
  /\ At(r, "publish") \/ (At(r, "idle") /\ Distributed /\ r \in Programmatic)
  /\ stopping = "no"
  /\ published' = published \cup {r}
  /\ counted' = counted \cup {r} /\ recent' = TRUE
  /\ Goto(r, "send")
  /\ UNCHANGED <<got, pendings, chan, closed, asked, tunnel, relayed, detached,
                 stopping, panicked, faults>>

\* It fails, always when the context is cancelled; the local pending is taken back.
PublishFails(r) ==
  /\ At(r, "publish")
  /\ IF stopping = "no" THEN Fault ELSE UNCHANGED faults
  /\ pendings' = pendings \ {r} /\ closed' = closed \cup {r}
  /\ Goto(r, "over")
  /\ UNCHANGED <<got, published, chan, asked, tunnel, activity, detached, stopping, panicked>>

\* startTunnel.
Send(r) ==
  /\ At(r, "send")
  /\ asked' = asked \cup {r}
  /\ Goto(r, "find")
  /\ UNCHANGED <<got, store, tunnel, activity, detached, stopping, panicked, faults>>

SendFails(r) ==
  /\ At(r, "send") /\ Fault
  /\ Goto(r, "forget")
  /\ UNCHANGED <<got, store, asked, tunnel, activity, detached, stopping, panicked>>

\* WaitForTunnel looks up the channel ...
Find(r) ==
  /\ At(r, "find")
  /\ Goto(r, IF r \in pendings THEN "wait" ELSE "forget")
  /\ UNCHANGED <<got, store, asked, tunnel, activity, detached, stopping, panicked, faults>>

\* ... and receives from it.  A channel that was closed gives a nil connection and
\* no error, and the caller's RemoteAddr panics.
Receive(r) ==
  /\ At(r, "wait")
  /\ \/ /\ chan[r] # NULL
        /\ got' = [got EXCEPT ![r] = chan[r]] /\ chan' = [chan EXCEPT ![r] = NULL]
        /\ counted' = counted \ {r} /\ recent' = TRUE
        /\ Goto(r, "forget")
        /\ UNCHANGED panicked
     \/ /\ chan[r] = NULL /\ r \in closed
        /\ panicked' = TRUE
        /\ UNCHANGED <<pc, got, chan, counted, recent>>
  /\ UNCHANGED <<pendings, published, closed, asked, tunnel, relayed, detached, stopping, faults>>

\* Mutant of GivesUp: the wait ends with the context only.
GivesUpNever(r) == At(r, "wait") /\ stopping # "no"

\* The timer, or the context; select may choose them when a tunnel is there, too.
GivesUp(r) == At(r, "wait")

GiveUp(r) ==
  /\ GivesUp(r)
  /\ Goto(r, "forget")
  /\ UNCHANGED <<got, store, asked, tunnel, activity, detached, stopping, panicked, faults>>

\* Delete of the local store, which closes the channel, whatever it still buffers ...
Forget(r) ==
  /\ At(r, "forget")
  /\ pendings' = pendings \ {r}
  /\ closed' = IF r \in pendings THEN closed \cup {r} ELSE closed
  /\ Goto(r, "unpublish")
  /\ UNCHANGED <<got, published, chan, asked, tunnel, activity, detached, stopping, panicked, faults>>

\* handleConnectArthas counts its session, connectToAgentProgrammatic does not.
Counted(r) == r \notin Programmatic

\* Mutant of Unpublished: the key is deleted when there is no tunnel.
UnpublishedLost(r) == IF got[r] = NULL THEN published \ {r} ELSE published

Unpublished(r) == published \ {r}

\* ... and DEL, which fails in a shutdown, after which the key is left to its TTL.
\* With a tunnel the session begins, else the request is over.
Unpublish(r) ==
  /\ At(r, "unpublish")
  /\ \/ stopping = "no" /\ published' = Unpublished(r) /\ UNCHANGED faults
     \/ stopping # "no" /\ UNCHANGED <<published, faults>>
     \/ r \in published /\ Fault /\ UNCHANGED published
  /\ IF got[r] # NULL
     THEN /\ Goto(r, "session") /\ UNCHANGED counted
          /\ relayed' = IF Counted(r) THEN relayed \cup {r} ELSE relayed
     ELSE /\ Goto(r, "over") /\ UNCHANGED relayed
          /\ counted' = counted \ {r}
  /\ recent' = TRUE
  /\ UNCHANGED <<got, pendings, chan, closed, asked, tunnel, detached, stopping, panicked>>

\* The relay ends and closes both connections, or ArthasSession is closed.
SessionEnds(r) ==
  /\ At(r, "session")
  /\ Goto(r, "over")
  /\ tpc' = [tpc EXCEPT ![got[r]] = "closed"]
  /\ relayed' = relayed \ {r}
  /\ recent' = (recent \/ r \in relayed)
  /\ UNCHANGED <<got, store, asked, for, home, counted, detached, stopping, panicked, faults>>

(***************************************************************************)
(* handleOpenTunnel, and HandleInternalOpenTunnel for a forwarded tunnel     *)
(***************************************************************************)
\* The agent connects to this node (h) or to another one.
OpenTunnel(t, r, h) ==
  /\ tpc[t] = "idle" /\ r \in asked
  /\ h \/ Distributed
  /\ for' = [for EXCEPT ![t] = r] /\ home' = [home EXCEPT ![t] = h]
  /\ tpc' = [tpc EXCEPT ![t] = "arrived"]
  /\ UNCHANGED <<pc, got, store, asked, activity, detached, stopping, panicked, faults>>

\* IsLocal here; Get in Redis on another node, which forwards to this one.
Arrive(t) ==
  /\ tpc[t] = "arrived"
  /\ tpc' = [tpc EXCEPT ![t] = IF for[t] \in IF home[t] THEN pendings ELSE published
                               THEN "deliver" ELSE "closed"]
  /\ UNCHANGED <<pc, got, store, asked, for, home, activity, detached, stopping, panicked, faults>>

\* DeliverTunnel looks up the channel ...  What handleOpenTunnel does after an
\* error, a Get of the pending, ends with the tunnel closed: the key names this node.
Deliver(t) ==
  /\ tpc[t] = "deliver"
  /\ tpc' = [tpc EXCEPT ![t] = IF for[t] \in pendings THEN "put" ELSE "closed"]
  /\ UNCHANGED <<pc, got, store, asked, for, home, activity, detached, stopping, panicked, faults>>

\* ... and sends to it; the lock that guards it against close is no longer held.
Put(t) ==
  LET r == for[t]
  IN /\ tpc[t] = "put"
     /\ panicked' = (r \in closed)
     /\ IF r \notin closed /\ chan[r] = NULL
        THEN chan' = [chan EXCEPT ![r] = t] /\ tpc' = [tpc EXCEPT ![t] = "delivered"]
        ELSE tpc' = [tpc EXCEPT ![t] = "closed"] /\ UNCHANGED chan
     /\ UNCHANGED <<pc, got, pendings, published, closed, asked, for, home, activity,
                    detached, stopping, faults>>

(***************************************************************************)
(* runAutoDetachSweep and shutdown                                           *)
(***************************************************************************)
\* A quarter of an hour without activity; what comes before and after a session is
\* over in seconds.
BecomesIdle ==
  /\ recent /\ \A r \in Requests : pc[r] \in {"idle", "session", "over"}
  /\ recent' = FALSE
  /\ UNCHANGED <<pc, got, store, asked, tunnel, counted, relayed, detached, stopping,
                 panicked, faults>>

\* The sweep finds the agent idle and submits arthas_detach.
Sweep ==
  /\ counted = {} /\ relayed = {} /\ ~recent /\ stopping = "no"
  /\ detached' = detached \cup InSession
  /\ UNCHANGED <<pc, got, store, asked, tunnel, activity, stopping, panicked, faults>>

Cancel ==
  /\ Shutdowns /\ stopping = "no"
  /\ stopping' = "cancelled"
  /\ UNCHANGED <<pc, got, store, asked, tunnel, activity, detached, panicked, faults>>

\* Close of the pending store, without waiting for those who use it.
CloseStore ==
  /\ stopping = "cancelled"
  /\ stopping' = "closed"
  /\ closed' = closed \cup pendings /\ pendings' = {}
  /\ UNCHANGED <<pc, got, published, chan, asked, tunnel, activity, detached, panicked, faults>>

(***************************************************************************)
(* Specification                                                             *)
(***************************************************************************)
Init ==
  /\ pc = [r \in Requests |-> "idle"] /\ got = [r \in Requests |-> NULL]
  /\ pendings = {} /\ published = {}
  /\ chan = [r \in Requests |-> NULL] /\ closed = {} /\ asked = {}
  /\ tpc = [t \in Tunnels |-> "idle"] /\ for = [t \in Tunnels |-> NULL]
  /\ home = [t \in Tunnels |-> TRUE]
  /\ counted = {} /\ relayed = {} /\ recent = TRUE /\ detached = {}
  /\ stopping = "no" /\ panicked = FALSE /\ faults = 0

Answer(r) ==
  \/ (Publish(r) \/ PublishFails(r)) /\ ~At(r, "idle")
  \/ Send(r) \/ Find(r) \/ Receive(r) \/ GiveUp(r) \/ Forget(r) \/ Unpublish(r)

Next ==
  /\ ~panicked
  /\ \/ \E r \in Requests :
          \/ CreateLocal(r) \/ Publish(r) \/ PublishFails(r) \/ Send(r) \/ SendFails(r)
          \/ Find(r) \/ Receive(r) \/ GiveUp(r) \/ Forget(r) \/ Unpublish(r) \/ SessionEnds(r)
     \/ \E t \in Tunnels :
          \/ Arrive(t) \/ Deliver(t) \/ Put(t)
          \/ \E r \in Requests, h \in BOOLEAN : OpenTunnel(t, r, h)
     \/ BecomesIdle \/ Sweep \/ Cancel \/ CloseStore

Spec == Init /\ [][Next]_vars

\* The handler of a request goes on; its wait has a timer.
Fairness == \A r \in Requests : WF_vars(~panicked /\ Answer(r))

(***************************************************************************)
(* Properties                                                                *)
(***************************************************************************)
TypeOK ==
  /\ pc \in [Requests -> {"idle", "publish", "send", "find", "wait", "forget", "unpublish",
                          "session", "over"}]
  /\ got \in [Requests -> Tunnels \cup {NULL}] /\ chan \in [Requests -> Tunnels \cup {NULL}]
  /\ pendings \subseteq Requests /\ published \subseteq Requests /\ closed \subseteq Requests
  /\ asked \subseteq Requests
  /\ tpc \in [Tunnels -> {"idle", "arrived", "deliver", "put", "delivered", "closed"}]
  /\ for \in [Tunnels -> Requests \cup {NULL}] /\ home \in [Tunnels -> BOOLEAN]
  /\ counted \subseteq Requests /\ relayed \subseteq Requests /\ recent \in BOOLEAN
  /\ detached \subseteq Requests /\ stopping \in {"no", "cancelled", "closed"}
  /\ panicked \in BOOLEAN /\ faults \in 0..MaxFaults

\* A request is answered, with a session or with an error, whatever becomes of the
\* agent and its tunnels.
RequestsEnd == \A r \in Requests : ~At(r, "idle") ~> pc[r] \in {"session", "over"} \/ panicked

\* A request that is over or has its session has left nothing behind in the stores,
\* and does not count as pending, but for a key whose DEL has failed.
NothingPends ==
  \A r \in Requests : pc[r] \in {"session", "over"} =>
    r \notin pendings /\ r \notin counted /\ (faults = 0 /\ stopping = "no" => r \notin published)

\* "has no active tunnel sessions" (config.go, AutoDetachConfig): no session at all
\* is open when the sweep chooses its agent.
DetachSparesSessions == detached = {}

\* "Create creates a new pending connection in both local and Redis" (pending/redis.go):
\* a request that waits for its tunnel can be given one.
PublishedIsLocal ==
  \A r \in published : pc[r] \in {"send", "find", "wait"} /\ stopping # "closed" => r \in pendings

\* "Connection ownership transferred to the pending handler" (handleOpenTunnel): a
\* tunnel that was delivered to a request that is over is closed.
TunnelsAreOwned == \A t \in Tunnels : tpc[t] = "delivered" => pc[for[t]] # "over"

\* "Returns error if the pending is not local or already delivered" (DeliverTunnel,
\* pending/interface.go), and does not panic.
NoPanic == ~panicked

==============================================================================
