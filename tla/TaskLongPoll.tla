----------------------------- MODULE TaskLongPoll -----------------------------
(***************************************************************************)
(* The task side of the agent gateway (receiver/agentgatewayreceiver): long *)
(* polls of agents, the waiters they register, and the dispatcher that turns *)
(* a "submitted" event into an answer of a waiting poll.                    *)
(*                                                                         *)
(* A poll runs TaskPollHandlerEngine.Poll in a goroutine.  A poll of         *)
(* GetTasks answers with what its handler returns (Manager.PollSingle); one  *)
(* of UnifiedPoll (Manager.executePoll) also runs the configuration handler, *)
(* and answers when either has changes or when its time is over.            *)
(*                                                                         *)
(* The engine is seen here through EngineAdapter: the tasks that are listed  *)
(* as pending and wait in a queue, newest first.  TaskEngine has the detail. *)
(***************************************************************************)
EXTENDS Integers, Sequences, SequencesExt, FiniteSets

CONSTANTS
  Agents,       \* agent IDs
  Tasks,        \* tasks that may be submitted
  Polls,        \* poll requests; each may be made again once it is over
  AgentOf,      \* the agent that makes a poll
  Unified,      \* the polls made through UnifiedPoll
  Target,       \* Routing.TargetNodeID of a task, or NULL: broadcast
  PageLimit,    \* ListQuery.Limit of GetPendingTasks (100 in the code)
  NotifyCap,    \* capacity of notifyCh (256 in the code)
  Subscribed,   \* whether SubscribeEvents succeeded and the bridge runs
  Shutdowns,    \* whether the receiver may be shut down
  Disconnects,  \* whether an agent may drop its connection
  MaxFailures,  \* how many claims may fail
  NULL

ASSUME LongPollAssumption ==
  /\ AgentOf \in [Polls -> Agents]
  /\ Unified \subseteq Polls
  /\ Target \in [Tasks -> Agents \cup {NULL}]
  /\ NULL \notin Agents \cup Tasks \cup Polls
  /\ PageLimit \in Nat /\ NotifyCap \in Nat /\ MaxFailures \in Nat
  /\ {Subscribed, Shutdowns, Disconnects} \subseteq BOOLEAN

VARIABLES
  pending,    \* the listed pending tasks, newest first
  claimed,    \* the tasks that were claimed
  delivered,  \* the tasks that an answer carried to its agent
  events,     \* submitted events on their way to bridgeTaskEvents
  notifyCh,   \* notifyCh of the handler
  waiters,    \* the WaiterMap: the poll registered for each agent
  newest,     \* history: the poll that registered last for each agent
  pc,         \* the next step of the handler goroutine of each poll
  left,       \* iterations left in the claim loop of CheckImmediate
  got,        \* the tasks claimed by CheckImmediate, or received
  slot,       \* resultChan of the waiter: a task, or NULL
  ctxDone,    \* whether the context of the poll is done
  cancelled,  \* whether waiterCtx was cancelled by Stop
  request,    \* the request: "none", "open", "answered" or "gone"
  config,     \* whether the configuration handler of the poll is running
  results,    \* resultCh of executePoll
  seen,       \* results that executePoll has received
  dpc,        \* the next step of dispatchNotifications
  dtodo,      \* the waiters that handleNotification has still to visit
  dagent,     \* agentID of the waiter that wakeWaiter works for
  dwaiter,    \* that waiter, or NULL once its poll has returned
  dgot,       \* the task that wakeWaiter claimed
  phase,      \* how far the shutdown of the receiver has come
  failures    \* number of claims that failed

pollVars == <<pc, left, got, slot, ctxDone, cancelled, request, config, results, seen>>
engineVars == <<pending, claimed, failures>>
dispatchVars == <<dpc, dtodo, dagent, dwaiter, dgot>>
vars == <<pending, claimed, delivered, events, notifyCh, waiters, newest, pollVars,
          dispatchVars, phase, failures>>

Phases == <<"up", "clear", "wait", "servers", "bridge", "done">>
PollPcs == {"idle", "list1", "claim1", "register", "list2", "claim2", "wait", "return"}
Result == [tasks : SUBSET Tasks, changes : BOOLEAN]

\* The handler accepts notifications until Stop.
running == phase = "up"

TypeOK ==
  /\ pending \in SeqOf(Tasks, Cardinality(Tasks))
  /\ claimed \subseteq Tasks /\ delivered \subseteq claimed
  /\ events \subseteq Tasks
  /\ notifyCh \in SeqOf(Tasks, NotifyCap)
  /\ waiters \in [Agents -> Polls \cup {NULL}] /\ newest \in [Agents -> Polls \cup {NULL}]
  /\ pc \in [Polls -> PollPcs]
  /\ left \in [Polls -> 0 .. PageLimit]
  /\ got \in [Polls -> SUBSET Tasks]
  /\ slot \in [Polls -> Tasks \cup {NULL}]
  /\ {ctxDone, cancelled, config} \subseteq [Polls -> BOOLEAN]
  /\ request \in [Polls -> {"none", "open", "answered", "gone"}]
  /\ \A p \in Polls : Len(results[p]) + seen[p] <= 2 /\ Range(results[p]) \subseteq Result
  /\ dpc \in {"idle", "range", "claim", "send", "stopped"}
  /\ dtodo \subseteq Agents
  /\ dagent \in Agents \cup {NULL} /\ dwaiter \in Polls \cup {NULL} /\ dgot \in Tasks \cup {NULL}
  /\ phase \in Range(Phases)
  /\ failures \in 0 .. MaxFailures

Init ==
  /\ pending = <<>> /\ claimed = {} /\ delivered = {}
  /\ events = {} /\ notifyCh = <<>>
  /\ waiters = [a \in Agents |-> NULL] /\ newest = [a \in Agents |-> NULL]
  /\ pc = [p \in Polls |-> "idle"]
  /\ left = [p \in Polls |-> 0]
  /\ got = [p \in Polls |-> {}]
  /\ slot = [p \in Polls |-> NULL]
  /\ ctxDone = [p \in Polls |-> FALSE]
  /\ cancelled = [p \in Polls |-> FALSE]
  /\ request = [p \in Polls |-> "none"]
  /\ config = [p \in Polls |-> FALSE]
  /\ results = [p \in Polls |-> <<>>]
  /\ seen = [p \in Polls |-> 0]
  /\ dpc = "idle" /\ dtodo = {} /\ dagent = NULL /\ dwaiter = NULL /\ dgot = NULL
  /\ phase = "up"
  /\ failures = 0

-----------------------------------------------------------------------------
(***************************************************************************)
(* The engine, through EngineAdapter.                                       *)
(***************************************************************************)

\* At most n elements from the head of s.
First(s, n) == IF Len(s) <= n THEN s ELSE SubSeq(s, 1, n)

For(t, a) == Target[t] \in {a, NULL}

\* Mutant of GetPendingTasks: broadcast tasks are left out as well.
GetPendingTasksDirect(a) ==
  {t \in Range(First(pending, PageLimit)) : Target[t] = a}

\* GetPendingTasks: one page of the pending tasks, then those of the agent.
GetPendingTasks(a) ==
  {t \in Range(First(pending, PageLimit)) : For(t, a)}

\* The tasks Claim may pop: the agent's own queue comes before the global one.
Claimable(a) ==
  LET direct == {t \in Range(pending) : Target[t] = a}
  IN IF direct # {} THEN direct ELSE {t \in Range(pending) : Target[t] = NULL}

\* Mutant of ClaimTaskForAgent: the task stays in its queue.
ClaimTaskForAgentTwice(a, t) ==
  /\ t \in Claimable(a)
  /\ claimed' = claimed \cup {t}
  /\ UNCHANGED <<pending, failures>>

ClaimTaskForAgent(a, t) ==
  /\ t \in Claimable(a)
  /\ \E i \in DOMAIN pending : pending[i] = t /\ pending' = RemoveAt(pending, i)
  /\ claimed' = claimed \cup {t}
  /\ UNCHANGED failures

\* The engine has nothing for the agent.
ClaimsNothing(a) == Claimable(a) = {} /\ UNCHANGED engineVars

\* The engine answers with an error.
ClaimFails ==
  /\ failures < MaxFailures
  /\ failures' = failures + 1
  /\ UNCHANGED <<pending, claimed>>

\* Submit: the task is stored and enqueued, and its event published.
Submit(t) ==
  /\ t \notin Range(pending) \cup claimed
  /\ pending' = <<t>> \o pending
  /\ events' = IF Subscribed THEN events \cup {t} ELSE events
  /\ UNCHANGED <<claimed, delivered, notifyCh, waiters, newest, pollVars, dispatchVars,
                 phase, failures>>

-----------------------------------------------------------------------------
(***************************************************************************)
(* TaskPollHandlerEngine.Poll, one step per use of the engine or the waiters. *)
(***************************************************************************)

Goto(p, l) == pc' = [pc EXCEPT ![p] = l]

\* A request arrives.  A server that is shut down first closes its listener.
Start(p) ==
  /\ pc[p] = "idle" /\ request[p] # "open" /\ ~config[p]
  /\ phase \in {"up", "clear", "wait"}
  /\ Goto(p, "list1")
  /\ request' = [request EXCEPT ![p] = "open"]
  /\ ctxDone' = [ctxDone EXCEPT ![p] = FALSE]
  /\ cancelled' = [cancelled EXCEPT ![p] = FALSE]
  /\ got' = [got EXCEPT ![p] = {}]
  /\ slot' = [slot EXCEPT ![p] = NULL]
  /\ results' = [results EXCEPT ![p] = <<>>]
  /\ seen' = [seen EXCEPT ![p] = 0]
  /\ config' = [config EXCEPT ![p] = p \in Unified]
  /\ UNCHANGED <<engineVars, delivered, events, notifyCh, waiters, newest, left,
                 dispatchVars, phase>>

\* Where CheckImmediate without changes leads: to step 2, or to the select.
NoChanges(l) == IF l \in {"list1", "claim1"} THEN "register" ELSE "wait"

\* Mutant of AfterRegister: Poll goes straight to its select.
AfterRegisterUnchecked == "wait"

\* Step 3 of Poll: check once more when the waiter is registered.
AfterRegister == "list2"

\* The GetPendingTasks of CheckImmediate.  A context that is done is an error.
List(p) ==
  LET n == Cardinality(GetPendingTasks(AgentOf[p]))
  IN /\ pc[p] \in {"list1", "list2"}
     /\ \/ /\ ctxDone[p]
           /\ Goto(p, "return")
           /\ UNCHANGED left
        \/ /\ ~ctxDone[p]
           /\ left' = [left EXCEPT ![p] = n]
           /\ Goto(p, IF n = 0 THEN NoChanges(pc[p])
                      ELSE IF pc[p] = "list1" THEN "claim1" ELSE "claim2")
     /\ UNCHANGED <<engineVars, delivered, events, notifyCh, waiters, newest, got, slot,
                    ctxDone, cancelled, request, config, results, seen, dispatchVars, phase>>

\* CheckImmediate leaves its loop with the tasks s.
Checked(p, s) ==
  /\ left' = [left EXCEPT ![p] = 0]
  /\ got' = [got EXCEPT ![p] = s]
  /\ Goto(p, IF s = {} THEN NoChanges(pc[p]) ELSE "return")

\* One iteration of the claim loop.
ClaimOne(p) ==
  /\ pc[p] \in {"claim1", "claim2"}
  /\ \/ /\ ~ctxDone[p]
        /\ \E t \in Tasks :
             /\ ClaimTaskForAgent(AgentOf[p], t)
             /\ IF left[p] = 1 THEN Checked(p, got[p] \cup {t})
                ELSE /\ left' = [left EXCEPT ![p] = @ - 1]
                     /\ got' = [got EXCEPT ![p] = @ \cup {t}]
                     /\ UNCHANGED pc
     \/ /\ \/ ClaimsNothing(AgentOf[p])
           \/ ctxDone[p] /\ UNCHANGED engineVars
           \/ ClaimFails
        /\ Checked(p, got[p])
  /\ UNCHANGED <<delivered, events, notifyCh, waiters, newest, slot, ctxDone, cancelled,
                 request, config, results, seen, dispatchVars, phase>>

\* waiters.Register: the entry of an older poll of the agent is overwritten.
Register(p) ==
  /\ pc[p] = "register"
  /\ waiters' = [waiters EXCEPT ![AgentOf[p]] = p]
  /\ newest' = [newest EXCEPT ![AgentOf[p]] = p]
  /\ Goto(p, AfterRegister)
  /\ UNCHANGED <<engineVars, delivered, events, notifyCh, left, got, slot, ctxDone,
                 cancelled, request, config, results, seen, dispatchVars, phase>>

\* Mutant of Wake: the select has no case for the context.
WakeOnlyByResult(p) ==
  /\ pc[p] = "wait" /\ slot[p] # NULL
  /\ got' = [got EXCEPT ![p] = {slot[p]}]
  /\ slot' = [slot EXCEPT ![p] = NULL]
  /\ Goto(p, "return")
  /\ UNCHANGED <<engineVars, delivered, events, notifyCh, waiters, newest, left, ctxDone,
                 cancelled, request, config, results, seen, dispatchVars, phase>>

\* The select of Poll; both cases may be ready.
Wake(p) ==
  /\ pc[p] = "wait"
  /\ \/ /\ slot[p] # NULL
        /\ got' = [got EXCEPT ![p] = {slot[p]}]
        /\ slot' = [slot EXCEPT ![p] = NULL]
     \/ ctxDone[p] /\ UNCHANGED <<got, slot>>
  /\ Goto(p, "return")
  /\ UNCHANGED <<engineVars, delivered, events, notifyCh, waiters, newest, left, ctxDone,
                 cancelled, request, config, results, seen, dispatchVars, phase>>

\* Mutant of Deregister: the entry is deleted whoever registered it.
DeregisterAny(p) == waiters' = [waiters EXCEPT ![AgentOf[p]] = NULL]

\* waiters.Deregister compares before it deletes.
Deregister(p) ==
  waiters' = [waiters EXCEPT ![AgentOf[p]] = IF @ = p THEN NULL ELSE @]

\* Poll returns: PollSingle answers the request; the goroutine of executePoll
\* sends to resultCh, which has room for every handler.
Return(p) ==
  /\ pc[p] = "return"
  /\ Deregister(p)
  /\ Goto(p, "idle")
  /\ dwaiter' = IF dwaiter = p THEN NULL ELSE dwaiter
  /\ got' = [got EXCEPT ![p] = {}]
  /\ IF p \in Unified
     THEN /\ results' = [results EXCEPT ![p] =
                Append(@, [tasks |-> got[p], changes |-> got[p] # {}])]
          /\ UNCHANGED <<delivered, request>>
     ELSE /\ delivered' = IF request[p] = "open" THEN delivered \cup got[p] ELSE delivered
          /\ request' = [request EXCEPT ![p] = IF @ = "open" THEN "answered" ELSE @]
          /\ UNCHANGED results
  /\ UNCHANGED <<engineVars, events, notifyCh, newest, left, slot, ctxDone, cancelled,
                 config, seen, dpc, dtodo, dagent, dgot, phase>>

-----------------------------------------------------------------------------
(***************************************************************************)
(* Manager.Poll and executePoll: the request of a unified poll.             *)
(***************************************************************************)

\* The timeout of the request.
Deadline(p) ==
  /\ request[p] = "open" /\ ~ctxDone[p]
  /\ ctxDone' = [ctxDone EXCEPT ![p] = TRUE]
  /\ UNCHANGED <<engineVars, delivered, events, notifyCh, waiters, newest, pc, left, got,
                 slot, cancelled, request, config, results, seen, dispatchVars, phase>>

\* The agent drops its connection: the context is done, the answer goes nowhere.
Disconnect(p) ==
  /\ Disconnects
  /\ request[p] = "open"
  /\ ctxDone' = [ctxDone EXCEPT ![p] = TRUE]
  /\ request' = [request EXCEPT ![p] = "gone"]
  /\ UNCHANGED <<engineVars, delivered, events, notifyCh, waiters, newest, pc, left, got,
                 slot, cancelled, config, results, seen, dispatchVars, phase>>

\* The configuration handler returns: changes at any time, none at the end.
ConfigReturns(p) ==
  /\ config[p]
  /\ \E changes \in BOOLEAN :
       /\ changes \/ ctxDone[p]
       /\ results' = [results EXCEPT ![p] = Append(@, [tasks |-> {}, changes |-> changes])]
  /\ config' = [config EXCEPT ![p] = FALSE]
  /\ UNCHANGED <<engineVars, delivered, events, notifyCh, waiters, newest, pc, left, got,
                 slot, ctxDone, cancelled, request, seen, dispatchVars, phase>>

\* The tasks in the results that are in resultCh, up to n of them.
TasksIn(rs, n) == UNION {r.tasks : r \in Range(First(rs, n))}

\* The request is answered with the tasks s; the deferred cancel ends the rest.
Answer(p, s) ==
  /\ request' = [request EXCEPT ![p] = "answered"]
  /\ ctxDone' = [ctxDone EXCEPT ![p] = TRUE]
  /\ delivered' = delivered \cup s

\* executePoll receives a result.  One with changes ends the loop: what is
\* available of the remaining results goes into the answer.
Collect(p) ==
  /\ p \in Unified /\ request[p] = "open" /\ results[p] # <<>>
  /\ LET r == Head(results[p])
         remaining == 2 - seen[p] - 1
     IN /\ seen' = [seen EXCEPT ![p] = @ + 1]
        /\ IF r.changes
           THEN /\ Answer(p, r.tasks \cup TasksIn(Tail(results[p]), remaining))
                /\ results' = [results EXCEPT ![p] =
                     SubSeq(@, 2 + remaining, Len(@))]
           ELSE /\ results' = [results EXCEPT ![p] = Tail(@)]
                /\ IF remaining = 0 THEN Answer(p, {})
                   ELSE UNCHANGED <<request, ctxDone, delivered>>
  /\ UNCHANGED <<engineVars, events, notifyCh, waiters, newest, pc, left, got, slot,
                 cancelled, config, dispatchVars, phase>>

\* executePoll sees ctx.Done first, even when a result is available.  It
\* collects len(handlers) - i - 1 results: one less than may be there.
GiveUp(p) ==
  /\ p \in Unified /\ request[p] = "open" /\ ctxDone[p]
  /\ LET remaining == 2 - seen[p] - 1
     IN /\ Answer(p, TasksIn(results[p], remaining))
        /\ results' = [results EXCEPT ![p] = SubSeq(@, 1 + remaining, Len(@))]
  /\ UNCHANGED <<engineVars, events, notifyCh, waiters, newest, pc, left, got, slot,
                 cancelled, config, seen, dispatchVars, phase>>

-----------------------------------------------------------------------------
(***************************************************************************)
(* bridgeTaskEvents, NotifyTaskSubmitted and the dispatcher.                *)
(***************************************************************************)

\* Whether the buffer of notifyCh has room.
HasRoom == Len(notifyCh) < NotifyCap

\* An event reaches the handler; a full channel drops it.
NotifyTaskSubmitted(t) ==
  /\ t \in events
  /\ events' = events \ {t}
  /\ notifyCh' = IF running /\ HasRoom THEN Append(notifyCh, t) ELSE notifyCh
  /\ UNCHANGED <<engineVars, delivered, waiters, newest, pollVars, dispatchVars, phase>>

\* The waiters handleNotification visits.
Notified(t) == {a \in Agents : For(t, a)}

\* dispatchNotifications takes a notification; after Stop the select may still
\* choose this case.
HandleNotification ==
  /\ dpc = "idle" /\ notifyCh # <<>>
  /\ notifyCh' = Tail(notifyCh)
  /\ dtodo' = Notified(Head(notifyCh)) \cap {a \in Agents : waiters[a] # NULL}
  /\ dpc' = IF dtodo' = {} THEN "idle" ELSE "range"
  /\ UNCHANGED <<engineVars, delivered, events, waiters, newest, pollVars, dagent, dwaiter,
                 dgot, phase>>

\* The next waiter of the Range, if it is still there.
Visit(a) ==
  /\ dpc = "range" /\ a \in dtodo
  /\ dtodo' = dtodo \ {a}
  /\ IF waiters[a] # NULL
     THEN dpc' = "claim" /\ dagent' = a /\ dwaiter' = waiters[a]
     ELSE /\ dpc' = IF dtodo' = {} THEN "idle" ELSE "range"
          /\ UNCHANGED <<dagent, dwaiter>>
  /\ UNCHANGED <<engineVars, delivered, events, notifyCh, waiters, newest, pollVars, dgot, phase>>

\* wakeWaiter is done with its waiter.
NextWaiter ==
  /\ dpc' = IF dtodo = {} THEN "idle" ELSE "range"
  /\ dagent' = NULL /\ dwaiter' = NULL /\ dgot' = NULL

\* wakeWaiter claims a task for the waiter's agent, on a context of its own.
WakeClaim ==
  /\ dpc = "claim"
  /\ \/ \E t \in Tasks :
          /\ ClaimTaskForAgent(dagent, t)
          /\ dgot' = t /\ dpc' = "send"
          /\ UNCHANGED <<dagent, dwaiter>>
     \/ (ClaimsNothing(dagent) \/ ClaimFails) /\ NextWaiter
  /\ UNCHANGED <<delivered, events, notifyCh, waiters, newest, pollVars, dtodo, phase>>

\* The waiter's resultChan has no room, or nobody will read it any more.
Full == dwaiter = NULL \/ slot[dwaiter] # NULL

\* wakeWaiter sends the task without blocking.
WakeSend ==
  /\ dpc = "send"
  /\ IF Full THEN UNCHANGED slot ELSE slot' = [slot EXCEPT ![dwaiter] = dgot]
  /\ NextWaiter
  /\ UNCHANGED <<engineVars, delivered, events, notifyCh, waiters, newest, pc, left, got,
                 ctxDone, cancelled, request, config, results, seen, dtodo, phase>>

-----------------------------------------------------------------------------
(***************************************************************************)
(* Shutdown of the receiver.                                                *)
(***************************************************************************)

\* longPollManager.Stop: running is false, stopCh is closed.
Stop ==
  /\ Shutdowns /\ phase = "up"
  /\ phase' = "clear"
  /\ UNCHANGED <<engineVars, delivered, events, notifyCh, waiters, newest, pollVars, dispatchVars>>

\* waiters.Clear cancels the context of every waiter and forgets it.
Clear ==
  /\ phase = "clear"
  /\ cancelled' = [p \in Polls |-> cancelled[p] \/ \E a \in Agents : waiters[a] = p]
  /\ waiters' = [a \in Agents |-> NULL]
  /\ phase' = "wait"
  /\ UNCHANGED <<engineVars, delivered, events, notifyCh, newest, pc, left, got, slot, ctxDone,
                 request, config, results, seen, dispatchVars>>

\* The dispatcher sees that stopCh is closed.
DispatcherStops ==
  /\ ~running /\ dpc = "idle"
  /\ dpc' = "stopped"
  /\ UNCHANGED <<engineVars, delivered, events, notifyCh, waiters, newest, pollVars, dtodo,
                 dagent, dwaiter, dgot, phase>>

\* The wg.Wait of Stop.
Stopped ==
  /\ phase = "wait" /\ dpc = "stopped"
  /\ phase' = "servers"
  /\ UNCHANGED <<engineVars, delivered, events, notifyCh, waiters, newest, pollVars, dispatchVars>>

\* The servers wait for the requests they are serving.
Drained == \A p \in Polls : request[p] # "open"

\* serverHTTP.Shutdown and serverGRPC.GracefulStop.
ServersStop ==
  /\ phase = "servers" /\ Drained
  /\ phase' = "bridge"
  /\ UNCHANGED <<engineVars, delivered, events, notifyCh, waiters, newest, pollVars, dispatchVars>>

\* bridgeTaskEvents ends with its channel, which is closed when its context,
\* context.Background(), is done: never.
BridgeEnded == ~Subscribed

\* The shutdownWG.Wait of the receiver.
ShutdownReturns ==
  /\ phase = "bridge" /\ BridgeEnded
  /\ phase' = "done"
  /\ UNCHANGED <<engineVars, delivered, events, notifyCh, waiters, newest, pollVars, dispatchVars>>

-----------------------------------------------------------------------------
PollStep(p) == List(p) \/ ClaimOne(p) \/ Register(p) \/ Wake(p) \/ Return(p)
RequestStep(p) == ConfigReturns(p) \/ Collect(p) \/ GiveUp(p)
Dispatch == HandleNotification \/ (\E a \in Agents : Visit(a)) \/ WakeClaim \/ WakeSend
ShutdownStep == Clear \/ DispatcherStops \/ Stopped \/ ServersStop \/ ShutdownReturns

Next ==
  \/ \E t \in Tasks : Submit(t) \/ NotifyTaskSubmitted(t)
  \/ \E p \in Polls : Start(p) \/ PollStep(p) \/ RequestStep(p) \/ Deadline(p) \/ Disconnect(p)
  \/ Dispatch
  \/ Stop \/ ShutdownStep

Spec == Init /\ [][Next]_vars

(***************************************************************************)
(* Goroutines run and channels are received from.  A dispatcher that is      *)
(* asked to stop does so although notifications keep coming, because the     *)
(* select of Go chooses among ready cases at random (SF).                   *)
(***************************************************************************)
Fairness ==
  /\ \A t \in Tasks : WF_vars(NotifyTaskSubmitted(t))
  /\ \A p \in Polls : WF_vars(PollStep(p)) /\ WF_vars(ConfigReturns(p))
                      /\ WF_vars(Collect(p) \/ GiveUp(p))
  /\ WF_vars(Dispatch)
  /\ WF_vars(Clear) /\ SF_vars(DispatcherStops) /\ WF_vars(Stopped)
  /\ WF_vars(ServersStop) /\ WF_vars(ShutdownReturns)

\* Every request has a timeout (normalizeTimeout).
Timeouts == \A p \in Polls : WF_vars(Deadline(p))

\* Agents poll again when a poll is over, and a request's time (at least
\* MinTimeout) is again and again enough for the engine to answer.
AgentsPoll ==
  \A p \in Polls : /\ WF_vars(Start(p))
                   /\ SF_vars(List(p) /\ ~ctxDone[p])
                   /\ SF_vars(ClaimOne(p) /\ ~ctxDone[p])

FairSpec == Spec /\ Fairness /\ Timeouts /\ AgentsPoll

-----------------------------------------------------------------------------
(***************************************************************************)
(* Properties.                                                             *)
(***************************************************************************)

Inside(p) == pc[p] \in {"list2", "claim2", "wait"}

(* A poll that waits, that is the registered waiter of its agent and has     *)
(* nothing in its channel, will be woken for a pending task of the agent:    *)
(* the task's event is still on its way, or the dispatcher is about to       *)
(* visit the waiter.  This is the lost wake-up that the second check of Poll *)
(* ("race condition prevention") is there for.                              *)
WaiterIsWoken ==
  running => \A p \in Polls : \A t \in Range(pending) :
    (/\ pc[p] = "wait" /\ slot[p] = NULL /\ ~ctxDone[p]
     /\ waiters[AgentOf[p]] = p /\ For(t, AgentOf[p]))
    => \/ t \in events \cup Range(notifyCh)
       \/ AgentOf[p] \in dtodo
       \/ dwaiter = p /\ dpc \in {"claim", "send"}

(* The poll that registered last for its agent stays registered while it     *)
(* waits: the deferred Deregister of an older poll of the same agent does    *)
(* not take its entry away (waiter_map.go).                                 *)
LastWaiterIsRegistered ==
  running => \A p \in Polls :
    Inside(p) /\ newest[AgentOf[p]] = p => waiters[AgentOf[p]] = p

\* The goroutines, channels and answers that hold a task.
Holders(t) ==
  {<<"pending", t>> : u \in {t} \cap Range(pending)}
  \cup {<<"delivered", t>> : u \in {t} \cap delivered}
  \cup {<<"dispatcher", t>> : u \in {t} \cap {dgot}}
  \cup {<<"got", p>> : p \in {q \in Polls : t \in got[q]}}
  \cup {<<"slot", p>> : p \in {q \in Polls : t = slot[q] /\ pc[q] # "idle"}}
  \cup {<<"results", p>> : p \in {q \in Polls : t \in TasksIn(results[q], 2) /\ request[q] = "open"}}

(* A task is in one place: it is not handed to two polls, to a poll and to   *)
(* the dispatcher, or to an agent twice, although CheckImmediate and         *)
(* wakeWaiter claim for the same agent at the same time.                    *)
TaskIsInOnePlace == \A t \in Tasks : Cardinality(Holders(t)) <= 1

(* While agents poll and the receiver is up, a pending task is claimed in     *)
(* the end, also without any notification (engine_adapter.go).              *)
TasksAreClaimed == \A t \in Tasks : t \in Range(pending) ~> t \in claimed \/ ~running

(* A shutdown that was begun returns.                                      *)
ShutdownEnds == phase = "clear" ~> phase = "done"

(* An answer carries every result that is available when it is made          *)
(* ("collectRemainingResults collects any remaining results").              *)
AnswerIsComplete ==
  [][\A p \in Polls : request[p] = "open" /\ request'[p] = "answered" /\ p \in Unified
       => TasksIn(results[p], 2) \subseteq delivered']_vars

=============================================================================
