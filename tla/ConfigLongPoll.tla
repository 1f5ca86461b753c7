---------------------------- MODULE ConfigLongPoll ----------------------------
(***************************************************************************)
(* Configuration polling of one service: the polls of its agents            *)
(* (longpoll/config_handler.go), the per-service cache with its watch        *)
(* (longpoll/config_cache.go), and the configuration manager over Nacos      *)
(* (controlplaneext/configmanager/on_demand.go) that they share with the     *)
(* admin API.                                                               *)
(*                                                                         *)
(* A configuration is its version; 0 stands for no configuration, which an   *)
(* agent sees as the skeleton of version "0".  Version and ETag change       *)
(* together.                                                                *)
(*                                                                         *)
(* The Nacos client is external.  It keeps the last content it fetched, and  *)
(* a new listener starts from there: when the server has something else, the *)
(* listener is called.  One listener callback runs at a time.               *)
(***************************************************************************)
EXTENDS Integers, FiniteSets

CONSTANTS
  Agents, Polls,
  AgentOf,      \* the agent that makes a poll
  States,       \* identities of serviceState objects, reused when garbage
  Etags,        \* the agents that send the ETag they have with their version
  MaxChanges,   \* how often the configuration changes
  MaxTimers,    \* grace-period timers counted per serviceState
  Deletes,      \* whether a change may delete it
  LocalChanges, \* whether this collector's admin API also changes it
  Expires,      \* whether cleanupExpiredEntries may find the entry too old
  LateCallback, \* whether a callback may overtake WatchServiceConfig
  NULL

ASSUME ConfigAssumption ==
  /\ AgentOf \in [Polls -> Agents]
  /\ Etags \subseteq Agents
  /\ NULL \notin Polls \cup States
  /\ MaxChanges \in Nat /\ MaxTimers \in Nat \ {0}
  /\ {Deletes, LocalChanges, Expires, LateCallback} \subseteq BOOLEAN

VARIABLES
  nacos,      \* the configuration in Nacos
  changes,    \* how often it has changed; also the newest version
  snapshot,   \* the content the Nacos client fetched last
  listening,  \* whether the client has a listener for the service
  md5,        \* the content its listener was told last
  callback,   \* the callback that runs: NULL, or the content it was given
  cpc,        \* its next step
  ctodo,      \* the serviceStates it has still to tell
  entry,      \* configCache entry: "none", "idle" or "watching" (IsWatching)
  subs,       \* agentSubscribers of the service
  caching,    \* whether SetServiceConfig has published and not yet cached
  services,   \* the serviceState in the services map, or NULL
  config,     \* configCache.config of each serviceState
  isWatching, \* configCache.isWatching
  mu,         \* whether configCache.mu is held across steps
  waiters,    \* its WaiterMap
  timers,     \* its grace-period timers that have not fired
  pc,         \* the next step of each poll
  state,      \* the serviceState it works on
  had,        \* the configuration CheckImmediate found in the cache
  fresh,      \* the configuration it loaded
  slot,       \* resultChan of its waiter
  version     \* the version each agent has; -1 before its first answer

nacosVars == <<nacos, changes, snapshot, listening, md5>>
callbackVars == <<callback, cpc, ctodo>>
managerVars == <<entry, subs, caching>>
serviceVars == <<services, config, isWatching, mu, waiters, timers>>
pollVars == <<pc, state, had, fresh, slot>>
vars == <<nacosVars, callbackVars, managerVars, serviceVars, pollVars, version>>

Contents == 0 .. MaxChanges
PollPcs == {"check", "read", "cache", "set", "get", "register", "ensure", "subscribe",
            "wait", "leave", "empty", "unwatch", "cancel", "timer"}

TypeOK ==
  /\ {nacos, changes, snapshot, md5} \subseteq Contents
  /\ {listening, caching} \subseteq BOOLEAN
  /\ callback \in Contents \cup {NULL} /\ cpc \in {"idle", "change", "notify"}
  /\ ctodo \subseteq States /\ subs \subseteq States
  /\ entry \in {"none", "idle", "watching"}
  /\ services \in States \cup {NULL}
  /\ config \in [States -> Contents]
  /\ isWatching \in [States -> BOOLEAN] /\ mu \in [States -> BOOLEAN]
  /\ waiters \in [States -> [Agents -> Polls \cup {NULL}]]
  /\ timers \in [States -> 0 .. MaxTimers]
  /\ pc \in [Polls -> PollPcs]
  /\ state \in [Polls -> States \cup {NULL}]
  /\ had \in [Polls -> Contents] /\ fresh \in [Polls -> Contents]
  /\ slot \in [Polls -> Contents \cup {NULL}]
  /\ version \in [Agents -> Contents \cup {-1}]

Init ==
  /\ nacos = 0 /\ changes = 0 /\ snapshot = 0 /\ listening = FALSE /\ md5 = 0
  /\ callback = NULL /\ cpc = "idle" /\ ctodo = {}
  /\ entry = "none" /\ subs = {} /\ caching = FALSE
  /\ services = NULL
  /\ config = [s \in States |-> 0]
  /\ isWatching = [s \in States |-> FALSE] /\ mu = [s \in States |-> FALSE]
  /\ waiters = [s \in States |-> [a \in Agents |-> NULL]]
  /\ timers = [s \in States |-> 0]
  /\ pc = [p \in Polls |-> "check"]
  /\ state = [p \in Polls |-> NULL]
  /\ had = [p \in Polls |-> 0] /\ fresh = [p \in Polls |-> 0]
  /\ slot = [p \in Polls |-> NULL]
  /\ version = [a \in Agents |-> -1]

-----------------------------------------------------------------------------
(***************************************************************************)
(* ConfigPollHandler.CheckImmediate.                                        *)
(***************************************************************************)

Goto(p, l) == pc' = [pc EXCEPT ![p] = l]

Idle(s) == \A a \in Agents : waiters[s][a] = NULL

\* No goroutine, timer or map refers to the serviceState any more.
Garbage(s) ==
  /\ services # s /\ timers[s] = 0 /\ Idle(s) /\ ~mu[s]
  /\ s \notin subs \cup ctodo
  /\ \A p \in Polls : state[p] # s

\* getOrCreateServiceState returns s.
GetOrCreate(s) ==
  \/ services = s /\ UNCHANGED <<services, config, isWatching>>
  \/ /\ services = NULL /\ Garbage(s)
     /\ services' = s
     /\ config' = [config EXCEPT ![s] = 0]
     /\ isWatching' = [isWatching EXCEPT ![s] = FALSE]

\* CheckImmediate compares the version of the agent with v: Poll answers with
\* v, or goes on to register a waiter.  What it loaded is not needed any more.
Compare(p, v) ==
  /\ IF version[AgentOf[p]] # v
     THEN version' = [version EXCEPT ![AgentOf[p]] = v] /\ Goto(p, "check")
     ELSE Goto(p, "get") /\ UNCHANGED version
  /\ state' = [state EXCEPT ![p] = NULL]
  /\ had' = [had EXCEPT ![p] = 0] /\ fresh' = [fresh EXCEPT ![p] = 0]

\* Mutant of MustLoad: an agent without an ETag is trusted as well.
MustLoadOnce(a, v) == v = 0

\* Nothing is cached, or the agent cannot confirm what it has by its ETag.
MustLoad(a, v) == v = 0 \/ (a \notin Etags /\ version[a] = v)

\* A poll starts.
Check(p) ==
  /\ pc[p] = "check"
  /\ \E s \in States :
       /\ GetOrCreate(s) /\ ~mu[s]
       /\ IF MustLoad(AgentOf[p], config'[s])
          THEN /\ had' = [had EXCEPT ![p] = config'[s]]
               /\ state' = [state EXCEPT ![p] = s]
               /\ Goto(p, "read")
               /\ UNCHANGED <<fresh, version>>
          ELSE Compare(p, config'[s])
  /\ UNCHANGED <<nacosVars, callbackVars, managerVars, mu, waiters, timers, slot>>

\* loadConfig asks Nacos.
Read(p) ==
  /\ pc[p] = "read"
  /\ fresh' = [fresh EXCEPT ![p] = nacos]
  /\ snapshot' = nacos
  /\ Goto(p, IF nacos = 0 THEN "set" ELSE "cache")
  /\ UNCHANGED <<nacos, changes, listening, md5, callbackVars, managerVars, serviceVars,
                 state, had, slot, version>>

\* cacheConfig replaces the entry; the new one is not watching.
Cache(p) ==
  /\ pc[p] = "cache"
  /\ entry' = "idle"
  /\ Goto(p, "set")
  /\ UNCHANGED <<nacosVars, callbackVars, subs, caching, serviceVars, state, had, fresh, slot,
                 version>>

\* What was loaded is cached when it differs from what was there, and compared.
Set(p) ==
  /\ pc[p] = "set" /\ ~mu[state[p]]
  /\ IF fresh[p] # 0 /\ fresh[p] # had[p]
     THEN config' = [config EXCEPT ![state[p]] = fresh[p]]
     ELSE UNCHANGED config
  /\ Compare(p, IF fresh[p] # 0 THEN fresh[p] ELSE had[p])
  /\ UNCHANGED <<nacosVars, callbackVars, managerVars, services, isWatching, mu, waiters, timers,
                 slot>>

-----------------------------------------------------------------------------
(***************************************************************************)
(* The rest of ConfigPollHandler.Poll.                                      *)
(***************************************************************************)

\* Poll asks for the serviceState again.
GetState(p) ==
  /\ pc[p] = "get"
  /\ \E s \in States : GetOrCreate(s) /\ state' = [state EXCEPT ![p] = s]
  /\ Goto(p, "register")
  /\ UNCHANGED <<nacosVars, callbackVars, managerVars, mu, waiters, timers, had, fresh, slot,
                 version>>

Register(p) ==
  /\ pc[p] = "register"
  /\ waiters' = [waiters EXCEPT ![state[p]][AgentOf[p]] = p]
  /\ slot' = [slot EXCEPT ![p] = NULL]
  /\ Goto(p, "ensure")
  /\ UNCHANGED <<nacosVars, callbackVars, managerVars, services, config, isWatching, mu, timers,
                 state, had, fresh, version>>

\* ListenConfig: a listener that exists goes on where it is.
Listen ==
  /\ listening' = TRUE
  /\ md5' = IF listening THEN md5 ELSE snapshot
  /\ UNCHANGED <<nacos, changes, snapshot>>

\* EnsureWatching takes mu; WatchServiceConfig begins with setupWatch.
EnsureWatching(p) ==
  /\ pc[p] = "ensure" /\ ~mu[state[p]]
  /\ IF isWatching[state[p]]
     THEN Goto(p, "wait") /\ UNCHANGED <<nacosVars, entry, mu>>
     ELSE /\ mu' = [mu EXCEPT ![state[p]] = TRUE]
          /\ Goto(p, "subscribe")
          /\ IF entry = "watching" THEN UNCHANGED <<nacosVars, entry>>
             ELSE Listen /\ entry' = "watching"
  /\ UNCHANGED <<callbackVars, subs, caching, services, config, isWatching, waiters, timers,
                 state, had, fresh, slot, version>>

\* ... and ends with SubscribeAgentConfig; EnsureWatching releases mu.
Subscribe(p) ==
  /\ pc[p] = "subscribe"
  /\ subs' = subs \cup {state[p]}
  /\ isWatching' = [isWatching EXCEPT ![state[p]] = TRUE]
  /\ mu' = [mu EXCEPT ![state[p]] = FALSE]
  /\ Goto(p, "wait")
  /\ UNCHANGED <<nacosVars, callbackVars, entry, caching, services, config, waiters, timers,
                 state, had, fresh, slot, version>>

\* The select of Poll: a result, or the timeout of the request.
Wait(p) ==
  /\ pc[p] = "wait"
  /\ \/ /\ slot[p] # NULL
        /\ version' = [version EXCEPT ![AgentOf[p]] = slot[p]]
     \/ UNCHANGED version
  /\ Goto(p, "leave")
  /\ UNCHANGED <<nacosVars, callbackVars, managerVars, serviceVars, state, had, fresh, slot>>

\* The deferred function: Deregister ...
Leave(p) ==
  /\ pc[p] = "leave"
  /\ waiters' = [waiters EXCEPT ![state[p]][AgentOf[p]] = IF @ = p THEN NULL ELSE @]
  /\ slot' = [slot EXCEPT ![p] = NULL]
  /\ Goto(p, "empty")
  /\ UNCHANGED <<nacosVars, callbackVars, managerVars, services, config, isWatching, mu, timers,
                 state, had, fresh, version>>

\* ... then IsEmpty, asked twice in a row ...
Empty(p) ==
  /\ pc[p] = "empty"
  /\ IF Idle(state[p]) THEN Goto(p, "unwatch") /\ UNCHANGED state
     ELSE Goto(p, "check") /\ state' = [state EXCEPT ![p] = NULL]
  /\ UNCHANGED <<nacosVars, callbackVars, managerVars, serviceVars, had, fresh, slot, version>>

\* ... then Unwatch: UnwatchServiceConfig first removes every callback of the
\* service, whoever subscribed it ...
Unwatch(p) ==
  /\ pc[p] = "unwatch" /\ ~mu[state[p]]
  /\ IF isWatching[state[p]]
     THEN /\ mu' = [mu EXCEPT ![state[p]] = TRUE]
          /\ subs' = {}
          /\ Goto(p, "cancel")
     ELSE Goto(p, "timer") /\ UNCHANGED <<mu, subs>>
  /\ UNCHANGED <<nacosVars, callbackVars, entry, caching, services, config, isWatching, waiters,
                 timers, state, had, fresh, slot, version>>

\* CancelListenConfig: the client forgets what the listener was told.
StopListening == listening' = FALSE /\ md5' = 0

\* cancelWatch skips CancelListenConfig when its entry is there and idle.
CancelWatch ==
  IF entry = "idle" THEN UNCHANGED <<entry, listening, md5>>
  ELSE entry' = (IF entry = "none" THEN "none" ELSE "idle") /\ StopListening

\* ... then it cancels the watch in Nacos.
Cancel(p) ==
  /\ pc[p] = "cancel"
  /\ CancelWatch
  /\ isWatching' = [isWatching EXCEPT ![state[p]] = FALSE]
  /\ mu' = [mu EXCEPT ![state[p]] = FALSE]
  /\ Goto(p, "timer")
  /\ UNCHANGED <<nacos, changes, snapshot, callbackVars, subs, caching, services, config,
                 waiters, timers, state, had, fresh, slot, version>>

\* time.AfterFunc; more than MaxTimers timers are not told apart.
StartTimer(p) ==
  /\ pc[p] = "timer"
  /\ timers' = [timers EXCEPT ![state[p]] = IF @ < MaxTimers THEN @ + 1 ELSE @]
  /\ Goto(p, "check")
  /\ state' = [state EXCEPT ![p] = NULL]
  /\ UNCHANGED <<nacosVars, callbackVars, managerVars, services, config, isWatching, mu, waiters,
                 had, fresh, slot, version>>

\* A timer of s fires.  LoadAndDelete removes whatever serviceState the map
\* has; that it should be s is only asked afterwards, for the log.
TimerFires(s) ==
  /\ timers[s] > 0
  /\ timers' = [timers EXCEPT ![s] = @ - 1]
  /\ services' = IF Idle(s) THEN NULL ELSE services
  /\ UNCHANGED <<nacosVars, callbackVars, managerVars, config, isWatching, mu, waiters, pollVars,
                 version>>

-----------------------------------------------------------------------------
(***************************************************************************)
(* Changes of the configuration, and the callbacks of the Nacos client.     *)
(***************************************************************************)

\* SetServiceConfig or DeleteServiceConfig of another collector.
RemoteChange ==
  /\ changes < MaxChanges
  /\ changes' = changes + 1
  /\ nacos' \in {changes'} \cup (IF Deletes THEN {0} \ {nacos} ELSE {})
  /\ UNCHANGED <<snapshot, listening, md5, callbackVars, managerVars, serviceVars, pollVars, version>>

\* SetServiceConfig of this collector: publishConfig ...
Publish ==
  /\ LocalChanges /\ ~caching
  /\ changes < MaxChanges
  /\ changes' = changes + 1 /\ nacos' = changes'
  /\ caching' = TRUE
  /\ UNCHANGED <<snapshot, listening, md5, callbackVars, entry, subs, serviceVars, pollVars, version>>

\* ... then cacheConfig.
CachePublished ==
  /\ caching
  /\ caching' = FALSE
  /\ entry' = "idle"
  /\ UNCHANGED <<nacosVars, callbackVars, subs, serviceVars, pollVars, version>>

\* A callback takes a round trip to the server; WatchServiceConfig does not.
Overtakes == \E p \in Polls : pc[p] = "subscribe"

\* The client sees a difference and calls the listener.
CallListener ==
  /\ cpc = "idle" /\ listening /\ md5 # nacos
  /\ Overtakes => LateCallback
  /\ md5' = nacos /\ snapshot' = nacos
  /\ callback' = nacos /\ cpc' = "change"
  /\ UNCHANGED <<nacos, changes, listening, ctodo, managerVars, serviceVars, pollVars, version>>

\* handleConfigChange updates the entry, keeping its flag, and loads the
\* subscribers.
HandleConfigChange ==
  /\ cpc = "change"
  /\ entry' = IF entry = "none" /\ callback # 0 THEN "idle" ELSE entry
  /\ ctodo' = subs
  /\ cpc' = IF subs = {} THEN "idle" ELSE "notify"
  /\ callback' = IF subs = {} THEN NULL ELSE callback
  /\ UNCHANGED <<nacosVars, subs, caching, serviceVars, pollVars, version>>

\* The waiters that notifyWaiter finds with room in their channel.
Told(s) == {p \in Polls : waiters[s][AgentOf[p]] = p /\ slot[p] = NULL}

\* The callback of a serviceState: its cache, then notifyServiceWaiters.
Notify(s) ==
  /\ cpc = "notify" /\ s \in ctodo /\ ~mu[s]
  /\ config' = [config EXCEPT ![s] = callback]
  /\ slot' = [p \in Polls |-> IF p \in Told(s) THEN callback ELSE slot[p]]
  /\ ctodo' = ctodo \ {s}
  /\ cpc' = IF ctodo' = {} THEN "idle" ELSE "notify"
  /\ callback' = IF ctodo' = {} THEN NULL ELSE callback
  /\ UNCHANGED <<nacosVars, managerVars, services, isWatching, mu, waiters, timers, pc, state, had,
                 fresh, version>>

\* cleanupExpiredEntries: no agent is registered as a watcher of the service
\* (the gateway does not call RegisterAgent), and nothing was read or changed
\* for CacheExpiration.
CleanupExpired ==
  /\ Expires /\ entry # "none"
  /\ entry' = "none"
  /\ IF entry = "watching" THEN StopListening ELSE UNCHANGED <<listening, md5>>
  /\ UNCHANGED <<nacos, changes, snapshot, callbackVars, subs, caching, serviceVars, pollVars,
                 version>>

-----------------------------------------------------------------------------
PollStep(p) ==
  \/ Check(p) \/ Read(p) \/ Cache(p) \/ Set(p) \/ GetState(p) \/ Register(p)
  \/ EnsureWatching(p) \/ Subscribe(p) \/ Wait(p) \/ Leave(p) \/ Empty(p)
  \/ Unwatch(p) \/ Cancel(p) \/ StartTimer(p)

Callback == HandleConfigChange \/ \E s \in States : Notify(s)

Next ==
  \/ \E p \in Polls : PollStep(p)
  \/ \E s \in States : TimerFires(s)
  \/ RemoteChange \/ Publish \/ CachePublished
  \/ CallListener \/ Callback
  \/ CleanupExpired

Spec == Init /\ [][Next]_vars

\* Agents poll again and again, a request has a timeout, a mutex is handed on
\* to every goroutine that waits for it, timers fire, and the Nacos client
\* delivers the changes of a service that is listened to again and again.
Fairness ==
  /\ \A p \in Polls : SF_vars(PollStep(p))
  /\ \A s \in States : WF_vars(TimerFires(s))
  /\ WF_vars(CachePublished) /\ SF_vars(CallListener) /\ SF_vars(Callback)

FairSpec == Spec /\ Fairness

-----------------------------------------------------------------------------
(***************************************************************************)
(* Properties.                                                             *)
(***************************************************************************)

(* When the configuration no longer changes, every agent that polls has it   *)
(* in the end: one that confirms what it has by an ETag is told by the watch  *)
(* ("Nacos watch notifications handle further updates via the normal path",  *)
(* config_handler.go), and one that cannot confirm it is checked again.      *)
FreshInTheEnd == \A a \in Agents : <>[](version[a] = nacos)

=============================================================================
