# TLA+ models of the custom OpenTelemetry collector

This directory holds a formal model of the parts of the collector in which several
processes share state through Redis, Nacos, Elasticsearch or a Go map, and in which the
order of their steps matters, and of the translations of queries whose mistakes are
silent. TLC checks the models on small instances; TLAPS proves the safety properties that
matter most for every number of tasks, agents, replicas and processes.

`PROJECT.json` lists the components, the runs, the code lines each definition
translates, the hazards of the code with the properties that cover them, mutations of
the model that each property notices, and the theorems.

## 1. The system

The repository is a distribution of the OpenTelemetry collector with a control plane
in it. Several collector processes run side by side; agents (Java probes) poll them.

| Part | Where (under `src/`) | State it keeps | Operations | What makes it correct |
|---|---|---|---|---|
| Unified task engine | `taskengine/` | per task a Redis hash (`te:{id}:meta`) or a map entry; queues; running, pending, agent and group indexes; results | Submit, SubmitBatch, Cancel, Claim, Report (with retries), GetProgress, ListTasks | a task is executed by one consumer at a time and at most `MaxRetries + 1` times; final statuses are final; no task is lost between queue, record and consumer; every task is decided |
| Stale task reaper | `extension/controlplaneext/taskmanager` | circuit breaker and backoff in memory | a periodic scan that times out overdue running tasks | running tasks end even when their agent never answers; a result that was reported is kept; the reaper comes back after an outage |
| Task service | the same | none | the control plane's view of the engine: submit, list, report, set running | a report about a task changes that task |
| Agent gateway, tasks | `receiver/agentgatewayreceiver/longpoll` | waiters per agent, the notification channel, one goroutine per poll, results of a unified poll | long polls for tasks, dispatch of events, shutdown | no wake-up is lost; a claimed task is in one place and reaches its agent; shutdown ends |
| Agent gateway, configuration | the same | per service a cached configuration, a watch flag, waiters, grace-period timers | long polls for a configuration, watch, unwatch | every polling agent has the newest configuration in the end |
| Configuration manager | `extension/controlplaneext/configmanager` | cache entries and watch flags per service, subscribers | get, set, delete, watch, expiry | a change reaches every subscriber |
| Agent and service registry | `extension/controlplaneext/agentregistry`, `servicemanager` | agent records, heartbeats, online sets in Redis or memory; cached statistics | register, heartbeat, unregister, expiry | an agent that sends heartbeats is visible and online; one that stopped goes offline; the cache misses no write |
| Artifacts, notifications | `extension/controlplaneext` (`chunk_manager.go`, `artifact_manager.go`, `notification/`) | chunks of an upload, blobs, notification records | upload, assemble, persist, notify, download | a complete upload is persisted and found |
| Applications, tenants, tokens | `appmanager`, `tenantmanager`, `identity`, `processor/tokenauthprocessor` | records in Nacos or Redis, token cache | create, rotate, validate | a revoked token is refused in bounded time |
| Instrumentation manager | `instrumentationmanager` | rules, dispatch records, garbage collection marks | create, dispatch, reconcile, collect | a rule in use is not collected; records converge to what agents report |
| Lifecycle (distributed purge) | `extension/observabilitystorageext/lifecycle` | leader key and active epoch in Redis, purge tasks in the task engine | plan an epoch, submit, work, verify | one leader and one task per index; expired indices go |
| Rollup | the same, and the Elasticsearch provider | slice claims and watermarks in Redis | claim, heartbeat, release, advance | a slice is aggregated by one holder at a time; watermarks do not skip a slice |
| Bulk buffer | the Elasticsearch provider | pending documents, flush queue | add, flush, retry | no document is dropped silently |
| Queries | `extension/adminext` (TraceQL, LogQL, Prometheus) and the readers | one request | parse, plan, search, filter, merge | a search misses nothing that matches its query |
| Arthas tunnel | `extension/arthastunnelext` | agent and client sessions, pending requests, registry of nodes | register, open, relay, close, sweep | a request is answered once, to its own client, and leaves nothing behind |
| MCP server | `extension/mcpext` | sessions of diagnostic tools | open, exec, pull, interrupt, close | a closed session stays closed and is forgotten |
| Metric generator, processors, test receiver | `connector/`, `processor/`, `receiver/testdatagenreceiver` | aggregation maps | consume, flush | data transformations |
| Admin API and web UI | `extension/adminext`, `webui` | none of its own | HTTP handlers over the managers | |

The parts interact through the task engine (the control plane and the lifecycle are
producers; the agent gateway claims on behalf of agents; lifecycle workers and agents
report; the reaper scans), through Redis keys that several collectors read and write,
through Nacos watches whose callbacks wake long polls, and through Go channels and maps
inside one process.

What makes the system hard:

- Every engine call touches the store several times, and calls of different processes
  interleave between any two store operations.
- The Redis indexes live in other cluster slots than the task, so they are updated
  after the transition and may be late, reordered or missing.
- A retry deletes and re-creates a task under the same ID; late reports,
  cancellations and submissions meet it half way.
- Processes crash between two operations; agents hang; reports are delivered again;
  locks and heartbeats expire while their holder still works.
- Long polls come and go while notifications and callbacks are under way; several
  polls of one agent overlap; timeouts race results.
- Watches are taken down and set up again while changes arrive.
- Whole records are read, changed and written back by requests, loops and replicas.
- Query planners translate what they can and leave the rest to later stages, which have
  to be told.

## 2. Modules

Each component has a module of its own, some a second one with its proofs; the `MC*`
modules give constants their values for TLC. Between them stand `Storage`, `ControlPlane`
and `Arthas`: each takes the components that run in one process side by side (`Roll`,
`Bulk`; `Gate`, `Mcp`; `Sessions`), has the assumptions on their constants, and names
their properties, so that the runs check and the theorems state the same definitions. An
`MC*` module may hold several components
that share no state: a variable `part`, which never changes, says which of them a
behaviour is of, while the variables of the others stay as they are. Fairness of a
disjunction over parts is then fairness of each.

### TaskModel, TaskEngine, MCTaskEngine, MCTaskEngineParts

`TaskModel` has the task statuses, the transition table (`state_machine.go`) and the
answers of the two `UpdateTaskStatus` implementations. `TaskEngine` is the engine over
either store, its callers, and the reaper.

Processes are goroutines inside an API call: producers (Submit, Cancel), consumers
(Claim, execute, Report with `retryTask`) and reapers (scan, confirm, report a
timeout). `pc` is the point the call has reached, `task` the ID it is about, `out`,
`snap` and `from` its local variables: the status being reported, the retry count it
read, the status the transition replaced (`updateIndex` needs it). One store operation
is one step: `SubmitSave` is the HSETNX of `SaveTask`, `SubmitFill` the pipeline after
it, `SubmitEnqueue` the LPUSH, `ClaimDequeue` and `ClaimUpdate` the two halves of
Claim, `RetryResult` to `RetryEnqueue` the operations of `retryTask`.
With `Store = "memory"` the operations that are one critical section there are one step.

| Variable | Code |
|---|---|
| `status`, `claimedBy`, `retries` | the hash `te:{id}:meta`, or `tasks[id]` of the memory store; `"none"`: no record, `"partial"`: HSETNX done, fields not written yet |
| `queued` | how often the ID occurs in its queue |
| `running`, `pending`, `group` | `te:running_deadlines` (which the reaper scans; `te:{idx}:running` changes with it), `te:{idx}:pending`, the group set |
| `result` | status in `te:{id}:result`, or the result of the memory store |
| `overdue` | what the reaper's scan has returned and it has not handled yet |
| `handed` | history: deliveries to consumers since the last Submit |
| `resends`, `aborts`, `failures` | bounds on faults |

Faults: `Abort` cuts a call short anywhere (crash, or an error that makes it return);
`IndexFails`, `FillFails` and `RetryStepFails` are failed operations after which the
code goes on; `ReportReturns` lets an agent deliver a report again.

Abstractions: the order within a queue (the engine may pop any task of the first
non-empty queue a consumer listens to); time (a task in the running index may be
overdue at any scan); the priority, payload, 14-day TTL, per-agent index, legacy STRING
copy, and event publication. A Redis operation that was executed but answered with an
error counts as failed *or* executed, not both. The operations of a pipeline happen in
one step. `SubmitBatch` is a sequence of Submits.

### TaskLifecycle, TaskEngineRefinement

`TaskLifecycle` is what the engine promises its callers, one atomic step per promise: a
task is absent, waiting, executing, unsuccessful or over (`stage`), some consumers
execute it (`workers`) and it was handed out so often (`attempts`); it is submitted,
begun, delivered, let go, decided, retried, forgotten or withdrawn.
`TaskEngineRefinement` maps the engine to it (`StageOf`): a record that is missing or
partial stands for an unsuccessful task while a retry of it is between DEL and the new
record, and for no task otherwise. `ImplementsLifecycle` is the refinement;
`NotOvertaken` the condition under which it is proved for several retries (section 4).

### TaskLongPoll, MCTaskLongPoll

A poll is a goroutine in `TaskPollHandlerEngine.Poll`: `List` and `ClaimOne` are
`CheckImmediate` (step 1, and again step 3 after registration), `Register` and `Return`
the insertion in and deferred removal from the `WaiterMap`, `Wake` the select. Polls in
`Unified` come through `Manager.executePoll`, whose loop is `Collect` and `GiveUp` and
whose second handler is `ConfigReturns`. The dispatcher (`HandleNotification`, `Visit`,
`WakeClaim`, `WakeSend`) runs beside them, fed by `NotifyTaskSubmitted`. `phase` follows
`agentGatewayReceiver.Shutdown`: `Stop`, `Clear`, wait for the dispatcher
(`Stopped`), for the servers (`ServersStop`), for the event bridge (`ShutdownReturns`).

The engine is one step per operation here: `pending` is the listing, newest first, and
the set that may be claimed; retries and the reaper are in `TaskEngine`. Submission,
enqueueing and the event are one step. Requests that gRPC still accepts while HTTP
drains are merged with those accepted before; the shutdown context does not expire; the
`Range` over the waiters visits a snapshot of the keys and looks each one up.

### ConfigLongPoll, MCConfigLongPoll

One service. `services` is the handler's map entry; each member of `States` is the
identity of a `serviceState` (a cache, a watch flag, a `WaiterMap`, timers), reused when
nothing refers to it any more. Polls run `Check`, `Read`, `Cache`, `Set`
(`CheckImmediate`), `GetState`, `Register`, `EnsureWatching`, `Subscribe`, `Wait`, and
the deferred clean-up `Leave`, `Empty`, `Unwatch`, `Cancel`, `StartTimer`; `mu` is the
cache mutex, held across the calls of the manager as in the code. `entry` and `subs` are
the manager's cache entry and its subscribers. `nacos`, `snapshot`, `listening` and
`md5` model the Nacos server and client (external): a new listener starts from the
content the client fetched last, and is called while the server has something else. One
callback runs at a time. Changes come from this collector's admin API (`Publish`,
`CachePublished`) or from elsewhere (`RemoteChange`).

A configuration is its version, and the ETag changes with it. Consecutive `IsEmpty`
checks, and the cache update and notification of one callback, are merged.
`MCConfigLongPoll` also holds the long polls for tasks without event bridge, whose
liveness it checks.

### Rollup

`RollupEngine.tick` of several replicas for one application. `ready` is the last hour old
enough, `indexed` the days that have a raw index, which come and go (`IndexChanges`),
`watermark` the shared one (0: none), `claim` the holder of each hour. A `Tick` lists the
hours of the days with an index (`TickUnread` without the watermarks) and takes them one
after the other, oldest first: `Claim` (SET NX), `ReadHolder` and `Extend` (the GET and
PEXPIRE of a claim it finds), `Aggregate`, `Advance` and `Release`, until `TickEnds`.
`hour`, `items`, `known` and `mapped` are its copies: the work item, those it has still to
come to, the watermark, and whether it has a map of them. `lapsed`, `rolled` and `blind`
are history: a node has lost the claim of the hour it works on, the hours somebody
aggregated, and whether a tick ran without a watermark. `HourPasses`, `ClaimExpires` (of a
claim without heartbeat), `ClaimLapses` (the heartbeat stalls or fails until the key is
gone, and the holder works on) and `Crash` come from outside. The aggregation of an hour
is one step that succeeds or fails; times to live are not counted. What becomes of the
documents in the bulk buffer is in `BulkWriter`.

### DistributedPurge

The purge cycle of several replicas: `Look` at the marker of the active epoch, `Elect`
(the lock), `Wait`, `PlanTasks`, `Mark`, `Submit`, then all replicas `ClaimTask` and `Delete`
until the queue is `Drained`; the leader runs `Verify`, `Clear`, `Unlock`. Few expired
indices are purged by the leader alone (`Single*`). `index` is live, expired or gone,
`queue` and `work` count the tasks per index, of the task engine only this is kept.
The lock and the marker may expire when their time may be over (`LockExpires`,
`LockLapses`, `MarkerExpires`); replicas crash, submissions and deletions fail.

### BulkWriter

The writers, timer loops and shutdown of the two bulk buffers of the metric writer: points
are added (`AddData`), and their metadata unless the cache has seen it (`AddMeta`,
`SkipMeta`); who fills a batch, a `Tick` or the `Shutdown` swaps the buffer out (`Swap`)
and sends it with retries (`Send`, `SendFails`, `Cancelled`). `accepted`, `stored` and
`lost` follow each point. Writers of traces and logs are the same with one buffer.

### TraceQL, TraceQueries, MCTraceQL

`TraceQL` has the planner (the filters of one Elasticsearch search over spans, extracted
from the query), what that search finds, and the evaluator (the meaning of a query on a
trace). `TraceQueries` is the handler: search, then, for structural queries, read and
evaluate each candidate; candidates may be unreadable. A span has a status, one attribute
that may be missing, and a parent.

### LogQL, LogSearch, MCLogSearch

`LogQL` has the parser's branches of a query with `or`, the evaluator's query of the log
reader, what Elasticsearch finds with it, and the Loki handler's filter of the hits.
`LogSearch` is the handler: branches are searched or counted one by one, some fail, and
the answers are merged, and of records with one time and body the first is kept. A body is
a set of words, of which some are parts of others (`PartsOf`): a filter may ask for a part,
while Elasticsearch compares whole words. Some records share their time.

### FlatSearch

The reads of raw samples behind the Prometheus API: a probe of the density plans windows
(`Probe`, `Fetch`), a window cut short is halved (`Halve`), the subset path slices by time
or by series, and failed slices leave gaps. Samples may be stored meanwhile. `IsPlan`
characterises what the loop over the buckets computes: the buckets that open a slice are
those that would make too many of the open one.

### Storage, MCStorage

`Storage` is `DistributedPurge` with instances of `Rollup` and `BulkWriter` beside it;
`MCStorage` adds those of `TraceQueries`, `LogSearch` and `FlatSearch`.

### AgentRegistry, StatsCache, ReaperGate

`AgentRegistry` is the Redis registry: `Report` (register or heartbeat), `Unregister`
and its clean-up of the index sets, `Scan` and `Mark*` of the detectors on every
replica, which read and write instance records without a lock, and the expiry of
heartbeat keys. `StatsCache` is the cached statistics with its single refresh, condition
variable and invalidations. `Write` and `Invalidate` are an operation that goes through
the cache; `WriteBeneath` is a write it does not hear of: of the offline detector
(`redis.go:673`), of another replica, or of an operation that fails half way.
`ReaperGate` is the backoff and the circuit breaker before a scan of the reaper: time is
counted from the last failure (`since`).

### Artifacts

Requests of an agent that store a chunk (`Exists` to `Keep`), the one that completes the
upload and persists it (`Assemble`, `Forget`, `Put`, `Look`, `Update`, `Notify`), over the
Redis chunk store or the one in memory; the engine's record of the task takes one step per
operation here. `Notifies` says whether the notifier wants the task's type and a store keeps
its records; otherwise an upload is persisted without a record.

### McpSessions

One Arthas session of the MCP server and the calls that open, use, interrupt and close it,
each through a task for the agent, with retries, late answers, the session's TTL and the
reaper. A remote session is named by the task that opened it.

### ControlPlane, MCControlPlane

`ControlPlane` is `StatsCache` with instances of `ReaperGate` and `McpSessions` beside it;
`MCControlPlane` adds those of `AgentRegistry`, `Artifacts` (twice) and a second one of
`McpSessions`.

### TunnelRegistry, TunnelSessions, Arthas, MCArthas

`TunnelRegistry` follows one agent whose numbered connections come and go on several nodes:
each handler enters the node's map, the local registry and Redis, and clears up when its
connection ends, while heartbeats, pongs and the sweep for dead nodes run; a request is
looked up and forwarded. `TunnelSessions` follows requests (browsers and programmatic
ones): made pending, told to the agent, handed a tunnel that may come late, twice or on
another node; relays, automatic detachment, shutdown. `Arthas` has both, `MCArthas` two
instances of each.

### InstrumentationRules, MCInstrumentationRules

One rule and its targets in the rule store, requests of the admin API, the reconcile loop
of each replica, the collector of deleted rules, and the agents. `mine` is the copy a
process has read and will write back whole; `harm` is history: what has kept records and
agents apart (an overwritten copy, a failed submission or save). An agent runs its tasks in
order (`RunTask`, `FailTask`); a task that an administrator cancels, or whose result is not
saved, has ended without a result (`LoseTask`), which the manager reads as pending, so that
its target waits (`IsLost`). A restarted agent is another one; the retry interval "may be
over at any time".

## 3. Runs

| Run | Result | What it shows |
|---|---|---|
| `engine_faults` | holds | Redis; two producers submit and cancel one ID, two consumers, one reaper, one call cut short and one store failure, one retry; and two reapers without faults: `ExclusiveExecution`, `FullyTerminalIsFinal`, `PendingIsReachable` (no task is lost while nothing fails), `ImplementsLifecycle`, `TypeOK` |
| `engine_ends` | holds | agents that may hang, no retries: two tasks on two queues without faults, and one task with a call cut short and a failed operation: `HangingTasksEnd`; a task that is retried and agents that answer: `AnsweredTasksAreDecided`; these and the memory store: `EndedTasksShowResults`, `RunningIsOwned` |
| `longpoll_safety` | holds | two overlapping polls of one agent, one of them unified, two broadcast tasks, page limit 1: `WaiterIsWoken`, `LastWaiterIsRegistered`, `TaskIsInOnePlace` |
| `polls_live` | holds | an agent without ETag, changes from both sides, cache expiry, late callbacks, timers: `ConfigIsFresh`; no event bridge, a failing claim, dropped connections, a direct and a broadcast task: `TasksAreClaimed`, `ShutdownEnds` |
| `storage_live` | holds | rollup, with raw indices that come and go and claims that lapse under their holders: `NoGap`, `ExclusiveSlice`, `WatermarkMovesForward`, `BacklogIsWorkedOff` (every ready hour of a day that keeps its index); purge: `OneTaskPerIndex`, `PurgeEnds`; bulk buffers: `NothingVanishes`, `ShutdownFlushes`; searches for traces, logs and samples: `NoMatchIsMissed` |
| `control_live` | holds | agent registry: `AgentsStayVisible`, `SilentAgentsLeave`; statistics, with writes beneath the cache: `CacheMissesNoWrite`; reaper: `ReaperComesBack`; uploads, with notifications over Redis and without over memory: `UploadsArePersisted`; MCP sessions: `ClosedStaysClosed`, `SessionsAreForgotten` |
| `arthas_live` | holds | registry of the tunnel: `ServedIsConnected`, `RequestsEnd`, `DeadNodesAreCleared`; sessions: `NothingPends`, `SessionRequestsEnd` |
| `rules_live` | holds | one rule with requests, a reconcile loop and the collector, and tasks that fail or end without a result: `NothingIsResurrected`, `RecordsSettle`, `AgentsConverge`, `DeletedIsForgotten` |
| `engine_resend` | violated | a failed report delivered twice breaks `ExclusiveExecution` |
| `engine_raced` | violated | over Redis a report that loses the race for its task is not saved (`RacedResultIsSaved`) |
| `config_etag` | violated | an agent with ETag keeps an old configuration for ever (`ConfigIsFresh`) |
| `rules_undelete` | violated | a deleted rule becomes active again (`DeletedStaysDeleted`) |

**Bounds.** One task with two producers, two consumers and a reaper is where the races
of the engine are: all its calls are about one ID, and different tasks share nothing
but queues and fault budgets (`engine_ends` has two tasks on two queues, one of which
one consumer does not listen to, and another part with one task, one crash and one failed
operation). One retry gives a second attempt, with which late
steps of the first one collide; `engine_resend` needs two. One crash and one store
failure suffice to cut any operation; the theorems have no such bound. Two polls of one
agent are needed for an overlap of waiters, and two tasks for a full result channel; page
limit 1 and capacity 1 make the limits bite. Two changes let a callback for the first run
while the second one is made; two identities let an old and a new `serviceState` live
side by side.

Two replicas and hours 1..3 with a watermark of 1 let one replica work on an hour the
other has passed, and a third follow; two hours share a day, so that an index that goes
takes some of them away, and one fault suffices for a claim to lapse; two indices with
`Threshold` 1 reach both the distributed and the single-node purge. Two points with one
key make one writer skip an upsert that another one has not stored. The samples of
`FlatSearch` include more samples of one moment than an answer holds, at the boundary of
a slice, and windows of one, two and three slices. Traces, queries and logs are all
small ones over two values, among them a word that is part of another and two records
that differ in their labels only, so that the translation is checked against its meaning
exhaustively. Three writes of the registry let one go beneath the cache between two that
go through it. Two agents and one detector have one service in common, which an
Unregister may find empty; the gate of the reaper has the code's own numbers. Three
sends of two chunks give a duplicate. Two connections let the handler of the old one
clean up beside the new one, and one connection with sweepers a node die and come back.
One agent and two requests let a request overwrite another's record, while the loop
writes back an older one.

`CHECK_DEADLOCK FALSE` is set where the system may stop: when every task
is decided and nobody submits, after a shutdown, when a query is answered, or when the
bounded inputs are used up.

**Fairness.** Engine: a call that has begun runs to its end, an idle consumer polls
(claim loops), and a task that stays in the running index is overdue at some scan (SF on
that scan: deadlines pass). Producers, faults and agents get none; only the part
`answering` lets agents finish. Task polls: goroutines run and channels are received
from; a closed `stopCh` is chosen in the end, since Go's select picks among ready cases
at random (SF); every request has a timeout (`normalizeTimeout`); agents poll again; and
since that timeout is at least `MinTimeout` = 1 s, again and again it leaves the engine
the time to answer (SF on `List` and `ClaimOne` before the deadline). Configuration:
agents poll again and again; a Go mutex is handed to every waiter (starvation mode,
hence SF on a poll's step); timers fire; the Nacos client compares its listeners again
and again, and calls them when the service is listened to again and again (SF). Rollup
and purge: every replica's goroutine goes on, some replica ticks, and locks, markers and
claims that nobody renews expire. Registry: agents that run report, detectors and
clean-ups go on. Uploads, MCP sessions and tunnel requests: a request under way goes on,
times to live end, reapers and sweeps run; agents and browsers get none. A request of
the tunnel that is sent round by stale registry entries ends because each node counts it
against `MaxProxySessions` (1000 by default; with a configured 0, which means no limit,
it would not end). Rules: processes and agents' task queues go on, and an agent that the
loop may find due for a retry again and again is so at some pass (SF on
`ReconcileTarget`), as the retry interval is finite.

## 4. Proofs

Every proof is checked to its last leaf with Z3, Zenon and, for temporal steps, LS4.
"Any number" below leaves the sets of the constants arbitrary, infinite ones included
unless said otherwise. Where a run checks the same
formula through an `MC*` module, it shows it on a small instance.

### The engine: `TaskEngineProofs`

Any number of tasks, producers, consumers, reapers, queues, retries, aborts and failures.
The named ASSUMEs of `TaskEngine` (`ProcsDisjoint`, `BoundsAreNat`, `OutcomesReported`,
`NullIsNoValue`) are all that is assumed, for two of the theorems:

- `TypeCorrect`: `TypeOK` over both stores and with repeated reports, above all that the
  retry counter never passes `MaxRetries`.
- `RunningIsOwnedHolds`: over both stores and with repeated reports, as long as no call was
  cut short and whatever operations fail, a running task is in the hands of the consumer
  its record names: claimed, executed or reported. The memory store writes the claimer also
  when the status stays the same (`store_memory.go:96`).

The others are under `Setting`: the Redis store and `MaxResends = 0` (with resends the
first of them is false, see `engine_resend`):

- `ExclusiveExecutionHolds`: two consumers never execute a task together.
- `FullyTerminalIsFinalHolds`: success, skipped and cancelled are final.
- `FewRetriesImplementLifecycle`: with `MaxRetries <= 1` the engine implements
  `TaskLifecycle` (the default, `component_factory.go:123`, is no retry at all).
- `ImplementsLifecycleHolds`: with any number of retries it does in every behaviour in
  which `NotOvertaken` holds.
- `PendingIsReachableHolds`: while no call has been cut short and no operation has failed,
  a pending task is in its queue, or a call is about to put it there or has just taken it.
- `ResultMatchesOutcomeHolds`: without retries and aborted calls, whatever operations fail,
  the result of a successful or skipped task is that status, or its consumer is about to
  save it; no later report and no reaper replaces it. This is what the code does over Redis,
  where a report that finds its task ended returns an error, against the comment at
  `engine_impl.go:272`; over the memory store the result is saved after all, and
  `EndedTasksShowResults` says only that there is one.

`Basics` (the types with `Roles` and `Locals`: what call each process runs and what it is
about) is inductive by itself, over both stores; it first was not, since a retry whose
report is delivered again takes its outcome back to `rep_get`, so that `Locals` has to know
the outcome of a retry too. `Owned` follows from it: a transition to running names its
claimer, and only that consumer's own steps, a final transition or an abort end it.

`ExclusiveExecution` alone is not inductive: it says nothing of a queue with a task that
somebody executes. The invariant `IInv` follows the one place a task can be in.
`OneHolder`: a task is in its queue once, or held by one call between the HSETNX (or
Dequeue) that gave it the task and the step that queues, ends or deletes it, and a task
without record is in neither. `StatusKnown`: what a holding call knows of the record,
e.g. that a retry between its transition and its DEL finds the task failed or timed out:
this is what makes the Submit or Cancel that meets a retry harmless. `RedisAnswers` is
the lemma on the Lua script.

The refinement is proved action by action from `IInv` and `Tracked`: `Unstarted` and
`Counted` say how `handed` goes with the record and the retry count each call has read,
and `Alone` that no two retries of one task are between DEL and the new record. The
attempt to prove it without a condition failed for a reason TLC then confirmed: when an ID
is submitted again while a retry of it has deleted the record and not yet written the new
one, and that submission's task fails and is retried too, two retries wait to write their
records; with `MaxRetries >= 2` the second can start from the older count, and the task is
handed out more than `MaxRetries + 1` times. One retry cannot do that.

`Reach`, for `PendingIsReachable`, extends the property by the calls that hold a task in
each status. `Reported`, for the results, has what a consumer, a reaper and a new
submission know of the result between the transition and its save.

### Task long polls: `TaskLongPollProofs`

For any number of agents, polls, tasks and failures, any page limit and channel capacity,
with and without bridge and shutdown, from `LongPollAssumption`:

- `TaskIsInOnePlaceHolds`: a claimed task is in at most one of the delivered answers,
  the dispatcher, a poll's claims, a result channel, the results of a unified poll; a
  queued task is in none.
- `LastWaiterHolds`: the poll that registered last stays registered while it waits.

The invariant says that listed tasks are distinct and unclaimed (`PendingIsNew`), that
what is in a place was claimed (`PlacesAreClaimed`), and that no task is in two places
(`PlacesAreExclusive`). Every step then empties places (`PlacesShrink`), moves one place's
tasks to another (`PlacesMove`), or claims a task that was in none (`PlacesClaim`).

- `WaiterIsWokenHolds`: a poll waits beside a pending task its agent can claim only while
  something that will wake it is under way. Under `NoticeSetting`: events are bridged, no
  claim fails, the channel has room for the notice of every task (`NotifyCap`, 256 in the
  code), and no page is cut so that an agent misses its tasks (all tasks fit, or all are
  broadcasts). Without one of these the code does lose wake-ups, and relies on the timeout
  of the poll.

Its strengthening says where each pending task's notice is (`Announced`: in the channel,
being dispatched, or done with), what the dispatcher still has to visit (`Dispatching`), and
what a poll that listed before a submission and has not registered can still miss
(`NothingIsMissed`).

### Storage: `StorageProofs`, `DistributedPurgeProofs`, `FlatSearchProofs`

Rollup, for any number of replicas, hours, crashes and failures: `RollupTypeCorrect`;
`NoGapHolds`; `WatermarkMovesForwardHolds`, an action property; `ExclusiveSliceHolds`:
two replicas work on one hour only while one of them has lost its claim, because its
heartbeat failed or the key expired before it was renewed. The invariant adds what a
replica's copies are worth: the watermark it knows was reached (`KnownIsReached`), what
it is about to advance over was rolled up (`AdvancesRolled`), and the claim of the hour
it works on is its own unless it has lapsed (`WorkerHasClaim`).

Purge, for any number of replicas and indices and as long as nothing has failed:
`OneEpochHolds` and with it `OneTaskPerIndexHolds`. The lock does not give it, since it is
released by time while the epoch still runs. A leader has the lock until its marker is set
(`LeadersOK`); the lock is given up only when nobody stands between the look at the marker
and the attempt at the lock; the marker stays until the leader has seen its tasks done
(`OneEpoch`); so that the tasks are those of one epoch (`TasksOK`).

Bulk buffer, for any number of writers and points, batch sizes, retries and faults:
`BulkTypeCorrect`, `NothingVanishesHolds`, `ShutdownFlushesHolds`. Batches are held by those
who send (`SendersHold`), each document is followed (`Followed`), and the shutdown's order
(`ShutdownOrder`) says what stays empty once it was flushed.

Metric queries, `NoSampleIsMissedHolds`: for any series, windows, limits and failures,
and any finite set of samples stored at the start (`Setting`). The invariant follows
each sample of the window until it is answered: it is in the window of a job to come, in
what was fetched, in a gap, or cut off among too many (`Covered`). A planned job is not
halved any more, so that being in its window is not enough: `Serves` adds that the
sample is among the first that one answer holds, unless it is in a crowd. `PlanServes`
says that a plan has such a slice for each sample. A sample at the end of a slice that
is one too many there is the first of the next slice, as the slices share their end
points. The slices cover a long window however its length divides (`SlicesCover`),
halves meet, and a least bucket and a greatest cut exist because naturals are well
founded (`HasLeast`, `HasGreatest`).

### Control plane, rules and tunnel: `ControlPlaneProofs`, `InstrumentationRulesProofs`, `ArthasProofs`

- `OneRefreshHolds`, `CacheMissesNoWriteHolds`: any number of readers, writers and errors,
  and of writes beneath the cache. A valid cache has every write that went through it and
  has returned, unless it was filled by a refresh that a write overtook. What a refresh has
  read has them, unless it was overtaken (`ReadIsCurrent`).
- `ReaperComesBackHolds`: any durations with `ResetTimeout <= MaxDelay` (30 s and 64 s in
  the code); the skipped ticks are counted against the time since the last failure
  (`TimePasses`).
- `ClosedStaysClosedHolds`, an action property: any number of calls, retries and faults.
  Beside the types (`McpInv`; what a call has seen must be a whole record, since a close that
  fails writes it back) it takes what each operation of the manager makes of a session that
  has ended (`OperationsRespectEnd`).
- `NothingIsResurrectedHolds`: any number of agents, requests, loops and faults, without
  assumption. Inductive as it stands, because every write looks whether the rule exists.
- `ServedIsConnectedHolds`: any nodes, connections and troubles. `Entered` extends it to
  all the time the handler registers, `HasNode` says that a handler knows its node.
- `NothingPendsHolds`: any requests, tunnels and faults, over one node or several;
  `Pending` says for each step of a request what of it may be in the stores.

### Only model-checked

- All liveness properties, and what only fairness gives; ENABLED is out of the prover's
  reach.
- `NoMatchIsMissed` of traces and logs: it is about recursive functions over queries, and
  needs induction over them. Of samples it is `NoSampleIsMissed`.
- `EndedTasksShowResults`; over Redis, without retries and aborted calls, a sharper
  statement is proved (`ResultMatchesOutcomeHolds`).
- Of the result of a task that is retried nothing is stated but that there is one, and of
  the engine with repeated reports only `TypeOK` and `RunningIsOwned`.
- `ConfigLongPoll`, `AgentRegistry`, `Artifacts`: their properties are liveness.

## 5. Where the code and its documentation disagree

With a run:

1. `engine_resend`. `Report` does not check that the reporter still holds the task: a
   repeated failure report is taken for a report of the next attempt, which is moved to
   failed and queued again beside its consumer (`engine_impl.go:265`).
2. `engine_raced`. "Task already in terminal state (race condition) — save result anyway"
   (`engine_impl.go:272`) is not what happens over Redis: the store answers TERMINAL with a
   plain error (`store_redis.go:588`), for which `IsInvalidTransition` is false, so that
   `Report` returns without saving.
3. `config_etag`. `UnwatchServiceConfig` removes the callbacks before it cancels the
   listener; a change in between is consumed and reaches nobody, and `CheckImmediate`
   then confirms the cached version to an agent that sends its ETag
   (`config_handler.go:225`).
4. `rules_undelete`. The reconcile loop's refresh writes back the whole rule it read before
   it was deleted (`service.go:310`).

Seen while modelling, without a run of their own. Where a name is given, the module
states the property, and TLC refutes it on a small instance.

- Engine. A delayed reaper's ZREM removes the index entry of the next attempt, since
  `updateIndex` runs after the transition (`store_redis.go:650`, against the comment at
  `:612`): a retried task of an agent that hangs then runs for ever (`RunningTasksEnd`
  with retries). An ID submitted again during a retry may be executed too often (section
  4). With the memory store a cancelled task may come back to life, since `retryTask`
  tolerates an `InvalidTransitionError` (`state_machine.go:40`); a retry under way brings
  back a task that a failed Submit withdrew. A retry deletes the result it has saved for
  the failed attempt (`engine_impl.go:345`, against `:321`). A failed index update at
  Claim, or a crash before it, leaves a running task that no reaper sees
  (`store_redis.go:671`; the condition `HangsOn` of `HangingTasksEnd`). Index entries of
  terminal tasks are never cleaned by the reaper (`reaper_engine.go:213`). SubmitBatch is
  not all-or-none (`engine.go:24`).
- Task polls. `executePoll` at its deadline collects one result less than may be there
  (`manager.go:298`); the tasks in the other one are claimed and lost until the reaper
  times them out (`AnswerIsComplete`). An early answer of a unified poll loses a task
  result that comes later (`manager.go:290`). A shutdown with the event bridge running
  does not return, because the bridge ends with a channel that is closed when
  `context.Background()` is done (`manager_init.go:103`, `receiver.go:232`);
  `ShutdownEnds` is about engines without events. The page of pending tasks is cut before
  it is filtered by agent (`engine_adapter.go:31`): `TasksAreClaimed` needs a `PageLimit`
  no smaller than the number of pending tasks. `Stop` does not wake polls
  (`task_handler_engine.go:112`): the servers wait for their timeouts. A task claimed by
  the dispatcher for a poll that returned, or whose channel is full, is dropped
  (`task_handler_engine.go:271`, `:302`).
- Configuration. A deletion that a watch misses is never noticed, because a configuration
  that loads as nil is ignored (`config_handler.go:227`; `Deletes = TRUE` refutes
  `ConfigIsFresh`). With two agents, `Unwatch` of one `serviceState` may remove the
  callbacks of another that has polls waiting (`on_demand.go:1011`, `:1053`). A late
  callback may take an agent back to an older version for a while. The grace-period timer
  deletes whatever `serviceState` the map has (`config_handler.go:174`).
  `cleanupExpiredEntries` asks for registered agents, which gateway polls never are.
- Rollup. The watermark is advanced before the documents are durable
  (`rollup_engine.go:411` against `:379`). Without a watermark every hour counts as
  contiguous. A day without a raw index stops the watermark for good, since its hours are
  never listed (`rollup_engine.go:184`), and all later hours are aggregated again at every
  tick. An error of `GetAllWatermarks` is ignored (`:246`). A metric that fails is skipped
  within a slice (`rollup_aggregator.go:85`). A heartbeat renews a key another replica has
  taken (`rollup_lock.go:193`), and a claim that lapses has its hour aggregated twice,
  against "only one replica aggregates a given slice", as other comments there accept.
- Purge. The distributed path ignores `DryRun` (`types.go:147`, `scheduler.go:224`;
  `DryRunDeletesNothing`) and never prunes metadata; an index is deleted although its
  retention was extended after planning; a failed `SubmitPurgeTasks` leaves the marker.
- Bulk buffer. Metadata of a metric whose upsert failed is not sent again, as the cache
  remembers it (`UpsertIsNotMissed`); `Flush` returns an error of the data before it
  flushes the metadata.
- Registry. The SET of a detector may re-create the record of an agent that was
  unregistered; `_ids` of expired agents are never removed; an agent without heartbeat may
  be shown as online with no detector to look at it again (`SilentAgentsAreMarked`).
- Statistics. Agents that the offline detector marks (`redis.go:673`), and all changes by
  other replicas, show up only when the TTL of the cache is over, as
  `caching_registry_test.go:49` expects; so do writes that overtake a refresh.
- Reaper. With the hard-coded defaults the breaker never refuses: its reset is shorter
  than the backoff it is reached by.
- Artifacts. The reference that is added to the result of the task
  (`artifact_manager.go:29`) is dropped by the conversion for the engine
  (`model_conversion.go:84`), so that an artifact whose key has a file extension is not
  found for download (`ReferenceIsStored`). The upload is deleted before `Put`: when
  that fails, it is lost though the agent was told it is complete
  (`artifact_manager.go:86`). Two requests may both find the upload complete. An update
  of a result that does not exist makes up a SUCCESS (`ResultsAreReported`). Requests
  that announce different numbers of chunks confuse the upload.
- MCP sessions. `SetExecuting` and `SetIdle` of a late answer overwrite a newer command or
  a closing session; two commands may run at a time (`OneCommandAtATime`,
  `arthas_session_manager.go:318`); a repeated RequestID may open a second remote session,
  and the reaper leaves the remote session open.
- Tunnel. Distributed programmatic sessions always fail, as their pending is in Redis only
  (`PublishedIsLocal`, `pending/redis.go:58`). A tunnel that comes late is never closed
  (`TunnelsAreOwned`). A send on a closed channel panics (`NoPanic`). A request may be
  forwarded to its own node (`ForwardedElsewhere`). A handler that cleans up late removes
  the entry of the new connection (`ReplacedIsRegistered`, `registry/interface.go:50`).
  Automatic detachment does not spare sessions without a relay count
  (`DetachSparesSessions`). `MaxProxySessions` is checked before it is counted.
- Rules. A removal whose submission or save failed is not tried again
  (`RemovesAreRetried`); `EverApplySucceeded` may revert with an older copy
  (`service.go:341`). A task that was cancelled, or ended without a saved result, reads as
  pending (`service.go:349`, `:587`), which the loop does not try again
  (`reconcile.go:281`, `:317`): its target waits until somebody changes the rule, and a
  deleted rule is not collected.
- TraceQL. Relaxing structural conditions (`planner.go:155`) leaves negations, existence,
  regular expressions and durations in place, so traces are missed; groups and
  disjunctions with mixed operators are AND-ed per operator; of two conditions `!=` on one
  attribute the last wins. `NoMatchIsMissed` is therefore about the queries that
  `Translated` admits. The evaluator does not match nested structural operands, and
  `IsDescendant` does not end on a cycle of parents.
- LogQL. `!=` line filters become a required word (`log_reader.go:545`); label negations
  are not read; stages after an `or` go to its last branch (`TailIsShared`,
  `parser.go:743`); counts add the branches (`CountIsExact`); forward answers of several
  branches come in reverse (`AnswerIsOrdered`); the limit is applied before the filter.
  Merging takes records of one time and body for one, although their labels differ
  (`NoRecordIsDropped`, `result_merger.go:23`). Line filters and templates are searched
  for as whole words (`log_reader.go:545`): a part of a word is not found, although the
  evaluator calls its search of a template "semantically equivalent"
  (`TemplateIsEquivalent`, `evaluator.go:110`); and a regular expression is compared
  with one word at a time. `NoLogIsMissed`, in `NoMatchIsMissed`, is about queries
  without these, up to the merging.
- Metrics. A bucket that overflows is not halved on the density path
  (`es_queryable.go:356` says so); errors of deeper halves are dropped (`:399`) and
  partial answers cached (`:441`); the subset path counts samples at the boundary of
  slices twice; two selectors that differ in regular expressions share a cache key
  (`:512`); `!=` matchers are translated to positive ones (`:868`).

## 6. Not modelled

- Engine: listings, progress, queue order and the ignored priority, events, TTLs,
  and ambiguous Redis answers.
- Long polls: `Stop` of the configuration handler, metadata providers, Nacos failures;
  OTLP forwarding, authentication, request conversion (stateless I/O).
- Service registry, applications, tenants and tokens: records read, changed and written
  whole, where the last writer wins, and a token cache. The registry in memory.
- Notifications retried by an administrator; tenants' own retention, usage and alerts; the
  aggregation of the rollup (arithmetic over buckets).
- Storage providers and query readers beyond those of the searches above: PromQL itself,
  instant queries, Loki labels and volumes, the choice of the tier. Admin handlers, web
  UI, shared clients, models: stateless front ends and I/O.
- Metric generator, processors, test receiver: data transformations under one mutex.

## 7. Plan

1. Proofs that are left, most telling first: `OneTaskPerIndex` with faults, in the form of
   what a lapsed lock costs; an upload's blob and record in `Artifacts`; the types of the
   tunnel's and the registry's modules.
2. `ConfigLongPoll`: a safety invariant behind `ConfigIsFresh` (who will
   tell a waiting poll of a change) to be stated, checked and proved.
3. Modules: the choice of the tier and the merging of partial answers in the metric
   reader; token cache; order and priority of the task queues.
