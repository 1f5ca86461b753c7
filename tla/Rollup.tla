-------------------------------- MODULE Rollup --------------------------------
(***************************************************************************)
(* The metric rollup: every replica runs RollupEngine.tick                   *)
(* (elasticsearch/rollup_engine.go), which aggregates the ready hours of an   *)
(* application oldest first.  Replicas coordinate by a claim per hour with a  *)
(* heartbeat and a shared watermark (lifecycle/rollup_lock.go); the points go *)
(* through the bulk buffer of the metric writer (bulk_buffer.go).             *)
(*                                                                         *)
(* One application: applications share nothing but the loop.  Hours are       *)
(* numbered from 1 and a watermark w says "hours 1..w are done"; 0 stands for *)
(* no watermark.  Every Redis operation is one step.  A claim's time to live  *)
(* is not counted: a claim nobody keeps alive may expire at any moment, and   *)
(* one that a heartbeat should keep lapses when the heartbeat fails.          *)
(***************************************************************************)
EXTENDS Naturals, FiniteSets

CONSTANTS
  Nodes,        \* the replicas (each runs one tick loop)
  LastHour,     \* bound: the hours of the run are 1..LastHour
  HoursPerDay,  \* how many hours share a raw index
  Seed,         \* the watermark the deployment starts with, 0 if it has none
  MaxFaults,    \* bound: replicas that restart, and operations that fail
  NULL

VARIABLES
  ready,      \* the last hour that is old enough to be rolled up
  indexed,    \* the days of which the application has a raw index
  watermark,  \* otel:rollup:watermark:5m
  claim,      \* [Hours -> who holds otel:rollup:claim:5m:{app}:{slice}]
  pc, hour,   \* where a tick is, and its work item
  items,      \* the hours a tick has still to come to
  known,      \* watermarks[appID], the tick's copy of the watermark
  mapped,     \* whether the tick has a watermark map (it is nil after an error)
  lapsed,     \* history: the claim was lost while the node worked on its hour
  rolled,     \* history: hours that some replica aggregated and wrote
  blind,      \* history: a tick began without a watermark of the application
  faults

vars == <<ready, indexed, watermark, claim, pc, hour, items, known, mapped,
          lapsed, rolled, blind, faults>>

Hours == 1..LastHour
DayOf(h) == h \div HoursPerDay
Days == {DayOf(h) : h \in Hours}
Working == {"aggregate", "advance", "release"}

At(n, l) == pc[n] = l
Goto(n, l) == pc' = [pc EXCEPT ![n] = l]
Failure == faults < MaxFaults /\ faults' = faults + 1

\* The tick is over, and its local variables are gone.
Gone(n) ==
  /\ Goto(n, "idle")
  /\ hour' = [hour EXCEPT ![n] = 0] /\ items' = [items EXCEPT ![n] = {}]
  /\ known' = [known EXCEPT ![n] = 0] /\ mapped' = [mapped EXCEPT ![n] = FALSE]
  /\ lapsed' = [lapsed EXCEPT ![n] = FALSE]

\* A Lease is held: its heartbeat goroutine runs.
Leases(n, h) == pc[n] \in Working /\ hour[n] = h

(***************************************************************************)
(* tick                                                                      *)
(***************************************************************************)
\* The hours of every day that has a raw index, as far as they are ready.
Listed == {h \in 1..ready : DayOf(h) \in indexed}

\* The indices are listed, and a tick that finds none returns.  Hours up to the watermark
\* that was read are skipped.
BeginTick(n, read) ==
  /\ At(n, "idle") /\ Listed # {}
  /\ items' = [items EXCEPT ![n] = {h \in Listed : h > read}]
  /\ known' = [known EXCEPT ![n] = read]
  /\ Goto(n, "next")
  /\ UNCHANGED <<ready, indexed, watermark, claim, hour, lapsed, rolled>>

Tick(n) ==
  /\ BeginTick(n, watermark)
  /\ mapped' = [mapped EXCEPT ![n] = TRUE]
  /\ blind' = (blind \/ watermark = 0)
  /\ UNCHANGED faults

\* An error of GetAllWatermarks is ignored: the map is nil.
TickUnread(n) ==
  /\ BeginTick(n, 0) /\ Failure
  /\ mapped' = [mapped EXCEPT ![n] = FALSE]
  /\ blind' = TRUE

\* h is the next work item, of those left the oldest.
Pending(n, h) == h \in items[n] /\ \A g \in items[n] : h <= g

\* The item is over, done or not.
NextItem(n) ==
  /\ Goto(n, "next")
  /\ hour' = [hour EXCEPT ![n] = 0] /\ lapsed' = [lapsed EXCEPT ![n] = FALSE]

\* TryClaimSlice: SET NX.
Claim(n, h) ==
  /\ At(n, "next") /\ Pending(n, h)
  /\ items' = [items EXCEPT ![n] = @ \ {h}]
  /\ hour' = [hour EXCEPT ![n] = h]
  /\ IF claim[h] = NULL
     THEN claim' = [claim EXCEPT ![h] = n] /\ Goto(n, "aggregate")
     ELSE UNCHANGED claim /\ Goto(n, "holder")
  /\ UNCHANGED <<ready, indexed, watermark, known, mapped, lapsed, rolled, blind, faults>>

\* SET NX fails, executed or not: the item is given up, without a heartbeat.
ClaimFails(n, h) ==
  /\ At(n, "next") /\ Pending(n, h) /\ Failure
  /\ items' = [items EXCEPT ![n] = @ \ {h}]
  /\ claim' \in {claim, [claim EXCEPT ![h] = IF @ = NULL THEN n ELSE @]}
  /\ UNCHANGED <<ready, indexed, watermark, pc, hour, known, mapped, lapsed, rolled, blind>>

\* It was refused: GET tells whether the node held it before a restart.  A claim
\* of another replica is skipped.
ReadHolder(n) ==
  /\ At(n, "holder")
  /\ IF claim[hour[n]] = n THEN Goto(n, "extend") /\ UNCHANGED <<hour, lapsed>> ELSE NextItem(n)
  /\ UNCHANGED <<ready, indexed, watermark, claim, items, known, mapped, rolled, blind, faults>>

\* GET fails: the claim counts as that of another replica.
HolderUnread(n) ==
  /\ At(n, "holder") /\ Failure
  /\ NextItem(n)
  /\ UNCHANGED <<ready, indexed, watermark, claim, items, known, mapped, rolled, blind>>

\* PEXPIRE renews whatever is there; nobody looks at its answer.
Extend(n) ==
  /\ At(n, "extend")
  /\ Goto(n, "aggregate")
  /\ lapsed' = [lapsed EXCEPT ![n] = claim[hour[n]] # n]
  /\ UNCHANGED <<ready, indexed, watermark, claim, hour, items, known, mapped, rolled, blind,
                 faults>>

\* AggregateSlice and WriteRollupPoints, which leaves the points in the buffer.
Aggregate(n) ==
  /\ At(n, "aggregate")
  /\ rolled' = rolled \cup {hour[n]}
  /\ Goto(n, "advance")
  /\ UNCHANGED <<ready, indexed, watermark, claim, hour, items, known, mapped, lapsed, blind,
                 faults>>

\* The item fails, maybe because its index is gone, and is only logged; the tick
\* goes on with the next hour.
AggregateFails(n) ==
  /\ At(n, "aggregate")
  /\ Failure \/ (DayOf(hour[n]) \notin indexed /\ UNCHANGED faults)
  /\ Goto(n, "release")
  /\ UNCHANGED <<ready, indexed, watermark, claim, hour, items, known, mapped, lapsed, rolled,
                 blind>>

\* Mutant of Contiguous: every finished hour may advance the watermark.
ContiguousAlways(current, h) == TRUE

\* watermarkContiguous(current, start of hour h).
Contiguous(current, h) == current = 0 \/ current = h - 1

\* Mutant of Advanced: the write is not conditional.
AdvancedBlindly(current, h) == h

\* setWatermarkIfGreaterScript.
Advanced(current, h) == IF h > current THEN h ELSE current

\* advanceWatermark, also into the tick's own map when it has one.
Advance(n) ==
  /\ At(n, "advance")
  /\ IF Contiguous(known[n], hour[n])
     THEN /\ watermark' = Advanced(watermark, hour[n])
          /\ known' = IF mapped[n] THEN [known EXCEPT ![n] = hour[n]] ELSE known
     ELSE UNCHANGED <<watermark, known>>
  /\ Goto(n, "release")
  /\ UNCHANGED <<ready, indexed, claim, hour, items, mapped, lapsed, rolled, blind, faults>>

\* SetWatermark fails: logged.
AdvanceFails(n) ==
  /\ At(n, "advance") /\ Failure
  /\ Goto(n, "release")
  /\ UNCHANGED <<ready, indexed, watermark, claim, hour, items, known, mapped, lapsed, rolled,
                 blind>>

\* Mutant of Unclaimed: whoever holds it.
UnclaimedAnyones(n, h) == [claim EXCEPT ![h] = NULL]

\* releaseClaimScript deletes the claim only for its holder.
Unclaimed(n, h) == IF claim[h] = n THEN [claim EXCEPT ![h] = NULL] ELSE claim

\* The deferred Lease.Release.
Release(n) ==
  /\ At(n, "release")
  /\ claim' = Unclaimed(n, hour[n])
  /\ NextItem(n)
  /\ UNCHANGED <<ready, indexed, watermark, items, known, mapped, rolled, blind, faults>>

ReleaseFails(n) ==
  /\ At(n, "release") /\ Failure
  /\ NextItem(n)
  /\ UNCHANGED <<ready, indexed, watermark, claim, items, known, mapped, rolled, blind>>

\* No item is left: the tick is over.
TickEnds(n) ==
  /\ At(n, "next") /\ items[n] = {}
  /\ Gone(n)
  /\ UNCHANGED <<ready, indexed, watermark, claim, rolled, blind, faults>>

(***************************************************************************)
(* Time, crashes and leases that lapse                                       *)
(***************************************************************************)
HourPasses ==
  /\ ready < LastHour
  /\ ready' = ready + 1
  /\ UNCHANGED <<indexed, watermark, claim, pc, hour, items, known, mapped, lapsed, rolled,
                 blind, faults>>

\* The first metric of a day creates its raw index, and the purge deletes it.
IndexChanges(d) ==
  /\ indexed' = IF d \in indexed THEN indexed \ {d} ELSE indexed \cup {d}
  /\ UNCHANGED <<ready, watermark, claim, pc, hour, items, known, mapped, lapsed, rolled, blind,
                 faults>>

\* A heartbeat renews the key of its hour until it finds it gone.
Kept(h) == \E n \in Nodes : Leases(n, h) /\ ~lapsed[n]

\* Mutant of ClaimExpires: the claim is set without a time to live.
ClaimExpiresNever(h) == FALSE /\ UNCHANGED vars

ClaimExpires(h) ==
  /\ claim[h] # NULL /\ ~Kept(h)
  /\ claim' = [claim EXCEPT ![h] = NULL]
  /\ UNCHANGED <<ready, indexed, watermark, pc, hour, items, known, mapped, lapsed, rolled,
                 blind, faults>>

\* The heartbeats stall or fail for so long that the key expires: the holder goes
\* on, and nobody asks IsStolen.
ClaimLapses(h) ==
  /\ claim[h] # NULL /\ Kept(h) /\ Failure
  /\ claim' = [claim EXCEPT ![h] = NULL]
  /\ lapsed' = [n \in Nodes |-> lapsed[n] \/ Leases(n, h)]
  /\ UNCHANGED <<ready, indexed, watermark, pc, hour, items, known, mapped, rolled, blind>>

\* The replica stops and starts again; its claims stay until they expire.
Crash(n) ==
  /\ Failure
  /\ Gone(n)
  /\ UNCHANGED <<ready, indexed, watermark, claim, rolled, blind>>

(***************************************************************************)
(* Specification                                                             *)
(***************************************************************************)
Init ==
  /\ ready = Seed /\ watermark = Seed
  /\ indexed \in SUBSET Days
  /\ claim = [h \in Hours |-> NULL]
  /\ rolled = 1..Seed
  /\ pc = [n \in Nodes |-> "idle"]
  /\ hour = [n \in Nodes |-> 0] /\ items = [n \in Nodes |-> {}]
  /\ known = [n \in Nodes |-> 0] /\ mapped = [n \in Nodes |-> FALSE]
  /\ lapsed = [n \in Nodes |-> FALSE]
  /\ blind = FALSE /\ faults = 0

\* The steps a running tick takes by itself.
GoesOn(n) ==
  \/ TickEnds(n)
  \/ \E h \in Hours : Claim(n, h)
  \/ ReadHolder(n) \/ Extend(n) \/ Aggregate(n) \/ Advance(n) \/ Release(n)

Fault(n) ==
  \/ TickUnread(n) \/ HolderUnread(n) \/ \E h \in Hours : ClaimFails(n, h)
  \/ AggregateFails(n) \/ AdvanceFails(n) \/ ReleaseFails(n)
  \/ Crash(n)

Next ==
  \/ \E n \in Nodes : Tick(n) \/ GoesOn(n) \/ Fault(n)
  \/ \E h \in Hours : ClaimExpires(h) \/ ClaimLapses(h)
  \/ \E d \in Days : IndexChanges(d)
  \/ HourPasses

Spec == Init /\ [][Next]_vars

\* A tick goes on, some replica ticks, though one that crashed may never do so again,
\* and a claim without a heartbeat expires.
Fairness ==
  /\ \A n \in Nodes : WF_vars(GoesOn(n))
  /\ WF_vars(\E n \in Nodes : Tick(n))
  /\ \A h \in Hours : WF_vars(ClaimExpires(h))

(***************************************************************************)
(* Properties                                                                *)
(***************************************************************************)
TypeOK ==
  /\ ready \in 0..LastHour /\ watermark \in 0..LastHour /\ indexed \subseteq Days
  /\ claim \in [Hours -> Nodes \cup {NULL}]
  /\ rolled \subseteq Hours
  /\ pc \in [Nodes -> {"idle", "next", "holder", "extend"} \cup Working]
  /\ hour \in [Nodes -> 0..LastHour] /\ items \in [Nodes -> SUBSET Hours]
  /\ known \in [Nodes -> 0..LastHour]
  /\ mapped \in [Nodes -> BOOLEAN] /\ lapsed \in [Nodes -> BOOLEAN]
  /\ blind \in BOOLEAN /\ faults \in 0..MaxFaults

\* "the watermark does not jump past a gap" (rollup_engine.go): every hour up to
\* the watermark was aggregated by some replica, whatever fails or crashes,
\* unless a tick has run without a watermark of the application, for which every
\* hour is contiguous.
NoGap == blind \/ 1..watermark \subseteq rolled

\* "The watermark always moves forward" (rollup_lock.go), also when a replica
\* finishes an hour long after the others have gone on.
WatermarkMovesForward == [][watermark' >= watermark]_vars

\* "only one replica aggregates a given slice" (rollup_lock.go), although claims lapse
\* under their holders, are found again after a restart, and are released late: two
\* work on one hour only while one of them has lost its claim.
ExclusiveSlice ==
  \A m, n \in Nodes :
    m # n /\ Leases(m, hour[m]) /\ Leases(n, hour[m]) => lapsed[m] \/ lapsed[n]

\* h is ready, and every hour that the watermark has still to pass has a raw index.
Reachable(h) == h \in 1..ready /\ \A g \in (watermark + 1)..h : DayOf(g) \in indexed

\* Though replicas crash, operations fail and claims are left behind, every ready hour
\* of a day that keeps its raw index is aggregated in the end, and the watermark passes
\* it if the days before keep theirs.  A day without one stops the watermark for good.
BacklogIsWorkedOff ==
  \A h \in Hours :
    /\ Reachable(h) ~> watermark >= h \/ ~Reachable(h)
    /\ h \in Listed ~> h \in rolled \/ h \notin Listed \/ blind

==============================================================================
