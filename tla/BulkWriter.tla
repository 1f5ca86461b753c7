------------------------------ MODULE BulkWriter ------------------------------
(***************************************************************************)
(* Writing metrics to Elasticsearch: MetricWriter (metric_writer.go) puts     *)
(* every point into a bulk buffer (bulk_buffer.go) and, when its metadata is   *)
(* not in the cache (metric_meta_cache.go), an upsert into a second one.  Each *)
(* buffer is flushed by the writer that fills a batch, by its own timer loop,  *)
(* and once more when the provider shuts down (provider.go).  The trace and    *)
(* log writers are the same with one buffer.                                  *)
(*                                                                         *)
(* A point stands for its document and for its metadata upsert, according to   *)
(* the buffer it is in.                                                       *)
(***************************************************************************)
EXTENDS Naturals, FiniteSets

CONSTANTS
  Writers,    \* goroutines that call WriteMetrics
  Points,     \* the data points
  KeyOf,      \* [Points -> metric and label key of the point]
  BatchSize,  \* config.BatchSize
  MaxRetries, \* config.MaxRetries
  MaxFaults,  \* bound: failed requests, refused items and cancelled contexts
  NULL

Buffers == {"data", "meta"}
Loops == Buffers              \* the flushLoop of a buffer has its name
Flushers == Writers \cup Loops \cup {"shutdown"}

VARIABLES
  buf,       \* [Buffers -> what is buffered]
  accepted,  \* history: [Buffers -> what was ever added]
  stored,    \* [Buffers -> what Elasticsearch has]
  lost,      \* [Buffers -> what was dropped]
  seen,      \* the keys the metadata cache has seen
  pc, point, \* where a flusher is, and the point a writer writes
  at,        \* the buffer it flushes
  batch,     \* the data Flush has swapped out
  tries,     \* its attempts so far
  faults

sets == <<buf, accepted, stored, lost, seen>>
vars == <<sets, pc, point, at, batch, tries, faults>>

At(p, l) == pc[p] = l
Goto(p, l) == pc' = [pc EXCEPT ![p] = l]
Fault == faults < MaxFaults /\ faults' = faults + 1

(***************************************************************************)
(* Flush                                                                     *)
(***************************************************************************)
\* Flush has returned to p, with an error or not: WriteMetrics returns the error of
\* the data buffer and logs that of the metadata; so does Flush of MetricWriter.
Returned(p, ok) ==
  IF p = "shutdown" /\ at[p] = "data" /\ ok
  THEN at' = [at EXCEPT ![p] = "meta"] /\ Goto(p, "swap")
  ELSE /\ Goto(p, IF p = "shutdown" THEN "stop"
                  ELSE IF p \in Writers /\ at[p] = "data" /\ ok THEN "meta" ELSE "idle")
       /\ UNCHANGED at

\* Mutant of Swap, in two parts: the data is copied first and the buffer is reset
\* when the lock has been given up in between.
SwapUnlocked(p) ==
  \/ /\ At(p, "swap") /\ buf[at[p]] # {} /\ batch[p] = {}
     /\ batch' = [batch EXCEPT ![p] = buf[at[p]]]
     /\ UNCHANGED <<sets, pc, point, at, tries, faults>>
  \/ /\ At(p, "swap") /\ batch[p] # {}
     /\ buf' = [buf EXCEPT ![at[p]] = {}]
     /\ tries' = [tries EXCEPT ![p] = 0]
     /\ Goto(p, "send")
     /\ UNCHANGED <<accepted, stored, lost, seen, point, at, batch, faults>>

\* The buffer is swapped out under the lock.
Swap(p) ==
  /\ At(p, "swap") /\ buf[at[p]] # {}
  /\ batch' = [batch EXCEPT ![p] = buf[at[p]]]
  /\ buf' = [buf EXCEPT ![at[p]] = {}]
  /\ tries' = [tries EXCEPT ![p] = 0]
  /\ Goto(p, "send")
  /\ UNCHANGED <<accepted, stored, lost, seen, point, at, faults>>

NothingToFlush(p) ==
  /\ At(p, "swap") /\ buf[at[p]] = {}
  /\ Returned(p, TRUE)
  /\ UNCHANGED <<sets, point, batch, tries, faults>>

\* The bulk request is answered; items that were refused are logged and dropped.
Send(p, refused) ==
  /\ At(p, "send") /\ refused \subseteq batch[p]
  /\ IF refused = {} THEN UNCHANGED faults ELSE Fault
  /\ stored' = [stored EXCEPT ![at[p]] = @ \cup (batch[p] \ refused)]
  /\ lost' = [lost EXCEPT ![at[p]] = @ \cup refused]
  /\ batch' = [batch EXCEPT ![p] = {}]
  /\ Returned(p, TRUE)
  /\ UNCHANGED <<buf, accepted, seen, point, tries>>

\* The request fails, though it may have been carried out; the last attempt drops
\* the data.
SendFails(p, done) ==
  /\ At(p, "send") /\ Fault
  /\ done \in {{}, batch[p]}
  /\ stored' = [stored EXCEPT ![at[p]] = @ \cup done]
  /\ tries' = [tries EXCEPT ![p] = @ + 1]
  /\ IF tries[p] < MaxRetries
     THEN UNCHANGED <<lost, batch, pc, at>>
     ELSE /\ lost' = [lost EXCEPT ![at[p]] = @ \cup (batch[p] \ stored'[at[p]])]
          /\ batch' = [batch EXCEPT ![p] = {}]
          /\ Returned(p, FALSE)
  /\ UNCHANGED <<buf, accepted, seen, point>>

\* The caller's context ends during the backoff; the loops have none.
Cancelled(p) ==
  /\ At(p, "send") /\ tries[p] > 0 /\ p \notin Loops /\ Fault
  /\ lost' = [lost EXCEPT ![at[p]] = @ \cup (batch[p] \ stored[at[p]])]
  /\ batch' = [batch EXCEPT ![p] = {}]
  /\ Returned(p, FALSE)
  /\ UNCHANGED <<buf, accepted, stored, seen, point, tries>>

FlushStep(p) ==
  Swap(p) \/ NothingToFlush(p) \/ \E items \in SUBSET batch[p] : Send(p, items)

(***************************************************************************)
(* WriteMetrics                                                              *)
(***************************************************************************)
Begin(w, d) ==
  /\ At(w, "idle") /\ pc["shutdown"] = "idle"
  /\ \A v \in Writers : point[v] # d
  /\ d \notin accepted["data"]
  /\ point' = [point EXCEPT ![w] = d]
  /\ Goto(w, "data")
  /\ UNCHANGED <<sets, at, batch, tries, faults>>

Full(docs) == Cardinality(docs) >= BatchSize

\* addInternal or AddScriptedUpsert, under the lock; a full batch is then flushed.
Add(w, b, next) ==
  LET docs == buf[b] \cup {point[w]}
  IN /\ buf' = [buf EXCEPT ![b] = docs]
     /\ accepted' = [accepted EXCEPT ![b] = @ \cup {point[w]}]
     /\ at' = [at EXCEPT ![w] = b]
     /\ Goto(w, IF Full(docs) THEN "swap" ELSE next)
     /\ UNCHANGED <<stored, lost, point, batch, tries, faults>>

AddData(w) == At(w, "data") /\ Add(w, "data", "meta") /\ UNCHANGED seen

\* shouldUpsert: the key is new, or it was refreshed too long ago, for which a
\* point need not wait.
AddMeta(w) ==
  /\ At(w, "meta")
  /\ seen' = seen \cup {KeyOf[point[w]]}
  /\ Add(w, "meta", "idle")

SkipMeta(w) ==
  /\ At(w, "meta") /\ KeyOf[point[w]] \in seen
  /\ Goto(w, "idle")
  /\ UNCHANGED <<sets, point, at, batch, tries, faults>>

(***************************************************************************)
(* flushLoop and Shutdown                                                    *)
(***************************************************************************)
Tick(b) ==
  /\ At(b, "idle") /\ buf[b] # {}
  /\ Goto(b, "swap")
  /\ UNCHANGED <<sets, point, at, batch, tries, faults>>

\* The pipelines are down before the extension shuts down: nobody writes any more.
Shutdown ==
  /\ At("shutdown", "idle") /\ \A w \in Writers : At(w, "idle")
  /\ Goto("shutdown", "swap")
  /\ UNCHANGED <<sets, point, at, batch, tries, faults>>

\* Mutant of LoopExits: Stop does not wait for the loop.
LoopExitsAtOnce(b) ==
  /\ At("shutdown", "stop") /\ ~At(b, "exited")
  /\ Goto(b, "exited")
  /\ UNCHANGED <<sets, point, at, batch, tries, faults>>

\* Stop closes stopCh, which the loop sees between two flushes ...
LoopExits(b) ==
  /\ At("shutdown", "stop") /\ At(b, "idle")
  /\ Goto(b, "exited")
  /\ UNCHANGED <<sets, point, at, batch, tries, faults>>

\* ... and waits for it.
Stopped ==
  /\ At("shutdown", "stop") /\ \A b \in Loops : At(b, "exited")
  /\ Goto("shutdown", "down")
  /\ UNCHANGED <<sets, point, at, batch, tries, faults>>

(***************************************************************************)
(* Specification                                                             *)
(***************************************************************************)
Init ==
  /\ buf = [b \in Buffers |-> {}] /\ accepted = [b \in Buffers |-> {}]
  /\ stored = [b \in Buffers |-> {}] /\ lost = [b \in Buffers |-> {}]
  /\ seen = {}
  /\ pc = [p \in Flushers |-> "idle"]
  /\ point = [w \in Writers |-> NULL]
  /\ at = [p \in Flushers |-> IF p \in Loops THEN p ELSE "data"]
  /\ batch = [p \in Flushers |-> {}]
  /\ tries = [p \in Flushers |-> 0]
  /\ faults = 0

WriterStep(w) ==
  AddData(w) \/ AddMeta(w) \/ SkipMeta(w)

Next ==
  \/ \E w \in Writers : WriterStep(w) \/ \E d \in Points : Begin(w, d)
  \/ \E b \in Loops : Tick(b) \/ LoopExits(b)
  \/ \E p \in Flushers : \/ FlushStep(p) \/ Cancelled(p)
                         \/ \E done \in {{}, batch[p]} : SendFails(p, done)
  \/ Shutdown \/ Stopped

Spec == Init /\ [][Next]_vars

(***************************************************************************)
(* Properties                                                                *)
(***************************************************************************)
TypeOK ==
  /\ buf \in [Buffers -> SUBSET Points] /\ accepted \in [Buffers -> SUBSET Points]
  /\ stored \in [Buffers -> SUBSET Points] /\ lost \in [Buffers -> SUBSET Points]
  /\ seen \subseteq {KeyOf[d] : d \in Points}
  /\ pc \in [Flushers -> {"idle", "data", "meta", "swap", "send", "stop", "exited", "down"}]
  /\ point \in [Writers -> Points \cup {NULL}]
  /\ at \in [Flushers -> Buffers]
  /\ batch \in [Flushers -> SUBSET Points]
  /\ tries \in [Flushers -> 0..(MaxRetries + 1)]
  /\ faults \in 0..MaxFaults

\* Whatever writers, timer loops and the shutdown flush at the same time, every
\* document that was added is in the buffer, in one flusher's batch, in
\* Elasticsearch, or was dropped by a flush that said so.
NothingVanishes ==
  \A b \in Buffers :
    accepted[b] = buf[b] \cup stored[b] \cup lost[b]
                    \cup UNION {batch[p] : p \in {q \in Flushers : at[q] = b}}

\* When Shutdown returns, no flush is under way and no point is left in the buffer;
\* metadata is left only when a flush has failed.
ShutdownFlushes ==
  At("shutdown", "down") =>
    /\ buf["data"] = {} /\ \A p \in Flushers : batch[p] = {}
    /\ faults = 0 => buf["meta"] = {}

\* "never a missed one" (metric_meta_cache.go): a label the cache has seen is in the
\* metadata or on its way there.
UpsertIsNotMissed ==
  \A k \in seen : \E d \in accepted["meta"] : KeyOf[d] = k /\ d \notin lost["meta"]

==============================================================================
