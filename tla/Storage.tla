------------------------------- MODULE Storage -------------------------------
(***************************************************************************)
(* The background work of the observability storage extension: the purge of    *)
(* expired indices (which this module extends) and the rollup of metrics, that  *)
(* run in every replica, and the buffers of the metric writer of one replica.    *)
(* They share the replicas and a bound on faults, but no state.                *)
(***************************************************************************)
EXTENDS DistributedPurge

CONSTANTS
  LastHour, HoursPerDay, Seed,                                   \* of the rollup
  Writers, Points, KeyOf, BatchSize, MaxRetries     \* of the buffers

ASSUME HoursAreBounded == LastHour \in Nat /\ Seed \in 0..LastHour
ASSUME DaysHaveHours == HoursPerDay \in Nat \ {0}
ASSUME RetriesAreBounded == MaxRetries \in Nat
ASSUME FaultsAreBounded == MaxFaults \in Nat
ASSUME NobodyIsNoReplica == NULL \notin Nodes
ASSUME FlushersDiffer == Writers \cap {"data", "meta", "shutdown"} = {}

VARIABLES
  ready, indexed, watermark, claim, tick, hour, items, known, mapped, lapsed,
  rolled, blind, mishaps,
  buf, accepted, written, lost, seen, place, point, at, batch, tries, troubles

rollupVars == <<ready, indexed, watermark, claim, tick, hour, items, known, mapped,
                lapsed, rolled, blind, mishaps>>
bulkVars == <<buf, accepted, written, lost, seen, place, point, at, batch, tries, troubles>>

Roll == INSTANCE Rollup WITH pc <- tick, faults <- mishaps

Bulk == INSTANCE BulkWriter WITH stored <- written, pc <- place, faults <- troubles

(***************************************************************************)
(* What the rollup and the buffers promise                                   *)
(***************************************************************************)
\* The watermark never passes an hour that no replica has aggregated, unless a tick ran
\* without it.
NoGap == Roll!NoGap

\* An hour is worked on by one replica, unless another has lost its claim meanwhile.
ExclusiveSlice == Roll!ExclusiveSlice

\* The watermark never moves back.
WatermarkMovesForward == Roll!WatermarkMovesForward

\* Every ready hour of a day that keeps its index is rolled up in the end.
BacklogIsWorkedOff == Roll!BacklogIsWorkedOff

\* No document vanishes between a buffer, the batches under way and the index.
NothingVanishes == Bulk!NothingVanishes

\* A shutdown waits for the flushes and leaves the buffers empty.
ShutdownFlushes == Bulk!ShutdownFlushes

==============================================================================
