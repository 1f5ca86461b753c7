------------------------------ MODULE MCStorage ------------------------------
(***************************************************************************)
(* Small instances, for TLC, of the components of the observability storage   *)
(* extension: the rollup and the purge, which run in several replicas, the     *)
(* buffers of one metric writer, and the searches for traces, logs and samples.   *)
(* They share no state, so that a behaviour exercises one of them (part) while the *)
(* others stay in their initial states.                                       *)
(***************************************************************************)
EXTENDS Storage, MCTraceQL, MCLogSearch, TLC

CONSTANTS n1, n2, i1, i2, w1, w2, d1, d2, s1, s2, Limits, Kinds

VARIABLES
  part,
  searchPc, query, searchPlan, answer, unread,
  logPc, request, branches, found, failed, logAnswer,
  flatPc, path, window, samples, atStart, jobs, got, truncated, gaps, failures

searchVars == <<searchPc, query, searchPlan, answer, unread>>
logVars == <<logPc, request, branches, found, failed, logAnswer>>
flatVars == <<flatPc, path, window, samples, atStart, jobs, got, truncated, gaps, failures>>
storageVars == <<part, vars, rollupVars, bulkVars, searchVars, logVars, flatVars>>

\* Both points have one label.
MCKeyOf == [d \in {d1, d2} |-> d1]

Search == INSTANCE TraceQueries WITH
  Traces <- MCTraces, Queries <- MCQueries, pc <- searchPc, plan <- searchPlan

Logging == INSTANCE LogSearch WITH
  PartsOf <- MCPartsOf, Logs <- MCLogs, Asked <- MCAsked, pc <- logPc, answer <- logAnswer

SamplesOf(s, times) == {[series |-> s, time |-> t] : t \in times}

\* A dense series, and two series of which more samples than one answer holds have
\* the same time, at the end of a slice; the query is longer than two slices, or not
\* longer than one.
Metrics == INSTANCE FlatSearch WITH
  Series <- {s1, s2}, Windows <- {<<0, 3>>, <<1, 6>>, <<0, 6>>}, Late <- SamplesOf(s2, {3}),
  Stores <- {SamplesOf(s1, 0..6), SamplesOf(s1, {2, 3, 6}) \cup SamplesOf(s2, {2, 3})},
  Cap <- 3, SliceWidth <- 3, Floor <- 2, MaxFailures <- 1,
  pc <- flatPc, stored <- samples

StorageInit ==
  /\ part \in {"rollup", "purge", "bulk", "search", "logs", "metrics"}
  /\ Init /\ Roll!Init /\ Bulk!Init /\ Search!Init /\ Logging!Init /\ Metrics!Init
  /\ part # "rollup" => indexed = {}

InRollup(A) ==
  part = "rollup" /\ A /\ UNCHANGED <<part, vars, bulkVars, searchVars, logVars, flatVars>>
InPurge(A) ==
  part = "purge" /\ A /\ UNCHANGED <<part, rollupVars, bulkVars, searchVars, logVars, flatVars>>
InBulk(A) ==
  part = "bulk" /\ A /\ UNCHANGED <<part, vars, rollupVars, searchVars, logVars, flatVars>>
InSearch(A) ==
  part = "search" /\ A /\ UNCHANGED <<part, vars, rollupVars, bulkVars, logVars, flatVars>>
InLogs(A) ==
  part = "logs" /\ A /\ UNCHANGED <<part, vars, rollupVars, bulkVars, searchVars, flatVars>>
InMetrics(A) ==
  part = "metrics" /\ A /\ UNCHANGED <<part, vars, rollupVars, bulkVars, searchVars, logVars>>

StorageNext ==
    \/ InRollup(Roll!Next) \/ InPurge(Next) \/ InBulk(Bulk!Next) \/ InSearch(Search!Next)
    \/ InLogs(Logging!Next) \/ InMetrics(Metrics!Next)

StorageSpec == StorageInit /\ [][StorageNext]_storageVars

\* Roll!Fairness and Fairness, each for the behaviours of its part.
RollupFairness ==
  /\ \A n \in Nodes : WF_rollupVars(part = "rollup" /\ Roll!GoesOn(n))
  /\ WF_rollupVars(part = "rollup" /\ \E n \in Nodes : Roll!Tick(n))
  /\ \A h \in Roll!Hours : WF_rollupVars(part = "rollup" /\ Roll!ClaimExpires(h))

PurgeFairness ==
  /\ \A n \in Nodes : WF_vars(part = "purge" /\ Step(n))
  /\ WF_vars(part = "purge" /\ LockExpires)
  /\ WF_vars(part = "purge" /\ MarkerExpires)

FairStorageSpec == StorageSpec /\ RollupFairness /\ PurgeFairness

\* Of the behaviours of the purge: an expired index is deleted in the end.
PurgeEnds == part = "purge" => ExpiredIsPurged

\* A search of a query that can be translated misses no trace, no log and, for the
\* reasons it knows of only, a sample.
NoMatchIsMissed == Search!NoMatchIsMissed /\ Logging!NoLogIsMissed /\ Metrics!NoSampleIsMissed

==============================================================================
