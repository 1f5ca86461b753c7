---------------------------- MODULE StorageProofs ----------------------------
(***************************************************************************)
(* The rollup and the buffers of the metric writer.                          *)
(*                                                                         *)
(* For any number of replicas, hours, crashes and failures, the watermark never *)
(* moves back and never passes an hour that nobody rolled up (unless a tick ran  *)
(* without the watermark), and two replicas work on one hour only while one of   *)
(* them has lost its claim without noticing.  The types alone are not           *)
(* inductive: that the hours a replica rolls up are hours at all is part of what *)
(* its program counter tells.  What is needed besides is what a replica's copies *)
(* of the shared state are still worth: its watermark is a lower bound, and its  *)
(* claim, unless it has lapsed, is still there.                               *)
(*                                                                         *)
(* For any number of writers, points, batch sizes, retries and failures, no      *)
(* document vanishes between the buffer, the batches under way and the index,    *)
(* and a shutdown leaves no point behind.  A batch is held only while it is sent, *)
(* so that a flusher that changes to another buffer takes nothing with it.  For   *)
(* the shutdown the invariant follows its two flushes: the writers are done       *)
(* before the first, so what a flush has found or left empty stays empty.         *)
(***************************************************************************)
EXTENDS Storage, TLAPS

(***************************************************************************)
(* The rollup                                                                *)
(***************************************************************************)
TickPcs == {"idle", "next", "holder", "extend"} \cup Roll!Working

\* What a tick believes of the watermark: a lower bound and, as long as no tick ran
\* without one, an hour.
KnownIsReached ==
  \A n \in Nodes :
    /\ known[n] <= watermark
    /\ tick[n] # "idle" /\ ~blind => mapped[n] /\ known[n] > 0

\* The hour that a tick is about to mark as done was rolled up.
AdvancesRolled == \A n \in Nodes : tick[n] = "advance" => hour[n] \in rolled

\* Whoever works on an hour holds its claim, unless the claim has lapsed.
WorkerHasClaim ==
  \A n \in Nodes :
    /\ tick[n] \in Roll!Working /\ ~lapsed[n] => claim[hour[n]] = n
    /\ tick[n] \in Roll!Working \cup {"holder", "extend"} => hour[n] \in Roll!Hours

RollupInv == Roll!TypeOK /\ Roll!NoGap /\ KnownIsReached /\ AdvancesRolled /\ WorkerHasClaim

USE HoursAreBounded, FaultsAreBounded, NobodyIsNoReplica
DEF Roll!Hours, Roll!Working, TickPcs, Roll!At, Roll!Goto, Roll!Failure, Roll!Leases,
  Roll!NextItem, Roll!Days

-----------------------------------------------------------------------------
(***************************************************************************)
(* The inductive invariant holds initially and is kept by every step.         *)
(***************************************************************************)

\* The hours up to Seed are rolled up at first, and no tick runs.
LEMMA RollupInit == Roll!Init => RollupInv
  <1> SUFFICES ASSUME Roll!Init PROVE RollupInv
    OBVIOUS
  <1>1. /\ ready \in 0..LastHour /\ watermark \in 0..LastHour
        /\ mishaps \in 0..MaxFaults
    BY DEF Roll!Init
  <1>2. claim \in [Roll!Hours -> Nodes \cup {NULL}]
    BY DEF Roll!Init
  <1>3. indexed \subseteq Roll!Days /\ rolled \subseteq Roll!Hours
    BY DEF Roll!Init
  <1>4. items \in [Nodes -> SUBSET Roll!Hours]
    BY DEF Roll!Init
  <1>5. tick \in [Nodes -> TickPcs]
    BY DEF Roll!Init
  <1>6. /\ hour \in [Nodes -> 0..LastHour] /\ known \in [Nodes -> 0..LastHour]
    BY DEF Roll!Init
  <1>7. /\ mapped \in [Nodes -> BOOLEAN] /\ lapsed \in [Nodes -> BOOLEAN]
        /\ blind \in BOOLEAN
    BY DEF Roll!Init
  <1>8. Roll!TypeOK
    BY <1>1, <1>2, <1>3, <1>4, <1>5, <1>6, <1>7 DEF Roll!TypeOK
  <1>9. Roll!NoGap /\ KnownIsReached
    BY DEF Roll!Init, Roll!NoGap, KnownIsReached
  <1>10. AdvancesRolled /\ WorkerHasClaim
    BY DEF Roll!Init, AdvancesRolled, WorkerHasClaim
  <1> QED
    BY <1>8, <1>9, <1>10 DEF RollupInv

\* Every step keeps the types.
LEMMA RollupTypeStep ==
  ASSUME Roll!TypeOK, WorkerHasClaim, [Roll!Next]_(Roll!vars)
  PROVE  Roll!TypeOK'
  <1>1. ASSUME NEW n \in Nodes, Roll!Tick(n)
        PROVE  Roll!TypeOK'
    <2>1. tick' \in [Nodes -> TickPcs]
      BY <1>1 DEF Roll!TypeOK, Roll!Tick, Roll!BeginTick, Roll!Listed
    <2>2. items' \in [Nodes -> SUBSET Roll!Hours]
      BY <1>1 DEF Roll!TypeOK, Roll!Tick, Roll!BeginTick, Roll!Listed
    <2>3. known' \in [Nodes -> 0..LastHour]
      BY <1>1 DEF Roll!TypeOK, Roll!Tick, Roll!BeginTick, Roll!Listed
    <2>4. mapped' \in [Nodes -> BOOLEAN]
      BY <1>1 DEF Roll!TypeOK, Roll!Tick, Roll!BeginTick, Roll!Listed
    <2>5. blind' \in BOOLEAN
      BY <1>1 DEF Roll!TypeOK, Roll!Tick, Roll!BeginTick, Roll!Listed
    <2>6. UNCHANGED <<ready, indexed, watermark, claim, hour, lapsed, rolled, mishaps>>
      BY <1>1 DEF Roll!Tick, Roll!BeginTick, Roll!Listed
    <2> QED BY <2>1, <2>2, <2>3, <2>4, <2>5, <2>6 DEF Roll!TypeOK
  <1>2. ASSUME NEW n \in Nodes, Roll!TickUnread(n)
        PROVE  Roll!TypeOK'
    <2>1. tick' \in [Nodes -> TickPcs]
      BY <1>2 DEF Roll!TypeOK, Roll!TickUnread, Roll!BeginTick, Roll!Listed
    <2>2. items' \in [Nodes -> SUBSET Roll!Hours]
      BY <1>2 DEF Roll!TypeOK, Roll!TickUnread, Roll!BeginTick, Roll!Listed
    <2>3. known' \in [Nodes -> 0..LastHour]
      BY <1>2 DEF Roll!TypeOK, Roll!TickUnread, Roll!BeginTick, Roll!Listed
    <2>4. mapped' \in [Nodes -> BOOLEAN]
      BY <1>2 DEF Roll!TypeOK, Roll!TickUnread, Roll!BeginTick, Roll!Listed
    <2>5. blind' \in BOOLEAN
      BY <1>2 DEF Roll!TypeOK, Roll!TickUnread, Roll!BeginTick, Roll!Listed
    <2>6. mishaps' \in 0..MaxFaults
      BY <1>2 DEF Roll!TypeOK, Roll!TickUnread, Roll!BeginTick, Roll!Listed
    <2>7. UNCHANGED <<ready, indexed, watermark, claim, hour, lapsed, rolled>>
      BY <1>2 DEF Roll!TickUnread, Roll!BeginTick, Roll!Listed
    <2> QED BY <2>1, <2>2, <2>3, <2>4, <2>5, <2>6, <2>7 DEF Roll!TypeOK
  <1>3. ASSUME NEW n \in Nodes, Roll!TickEnds(n)
        PROVE  Roll!TypeOK'
    <2>1. tick' \in [Nodes -> TickPcs]
      BY <1>3 DEF Roll!TypeOK, Roll!TickEnds, Roll!Gone
    <2>2. hour' \in [Nodes -> 0..LastHour]
      BY <1>3 DEF Roll!TypeOK, Roll!TickEnds, Roll!Gone
    <2>3. items' \in [Nodes -> SUBSET Roll!Hours]
      BY <1>3 DEF Roll!TypeOK, Roll!TickEnds, Roll!Gone
    <2>4. known' \in [Nodes -> 0..LastHour]
      BY <1>3 DEF Roll!TypeOK, Roll!TickEnds, Roll!Gone
    <2>5. mapped' \in [Nodes -> BOOLEAN]
      BY <1>3 DEF Roll!TypeOK, Roll!TickEnds, Roll!Gone
    <2>6. lapsed' \in [Nodes -> BOOLEAN]
      BY <1>3 DEF Roll!TypeOK, Roll!TickEnds, Roll!Gone
    <2>7. UNCHANGED <<ready, indexed, watermark, claim, rolled, blind, mishaps>>
      BY <1>3 DEF Roll!TickEnds, Roll!Gone
    <2> QED BY <2>1, <2>2, <2>3, <2>4, <2>5, <2>6, <2>7 DEF Roll!TypeOK
  <1>4. ASSUME NEW n \in Nodes, NEW h \in Roll!Hours, Roll!Claim(n, h)
        PROVE  Roll!TypeOK'
    <2>1. claim' \in [Roll!Hours -> Nodes \cup {NULL}]
      BY <1>4 DEF Roll!TypeOK, Roll!Claim
    <2>2. tick' \in [Nodes -> TickPcs]
      BY <1>4 DEF Roll!TypeOK, Roll!Claim
    <2>3. hour' \in [Nodes -> 0..LastHour]
      BY <1>4 DEF Roll!TypeOK, Roll!Claim
    <2>4. items' \in [Nodes -> SUBSET Roll!Hours]
      BY <1>4 DEF Roll!TypeOK, Roll!Claim
    <2>5. UNCHANGED <<ready, indexed, watermark, known, mapped, lapsed, rolled, blind, mishaps>>
      BY <1>4 DEF Roll!Claim
    <2> QED BY <2>1, <2>2, <2>3, <2>4, <2>5 DEF Roll!TypeOK
  <1>5. ASSUME NEW n \in Nodes, NEW h \in Roll!Hours, Roll!ClaimFails(n, h)
        PROVE  Roll!TypeOK'
    <2>1. claim' \in [Roll!Hours -> Nodes \cup {NULL}]
      BY <1>5 DEF Roll!TypeOK, Roll!ClaimFails
    <2>2. items' \in [Nodes -> SUBSET Roll!Hours]
      BY <1>5 DEF Roll!TypeOK, Roll!ClaimFails
    <2>3. mishaps' \in 0..MaxFaults
      BY <1>5 DEF Roll!TypeOK, Roll!ClaimFails
    <2>4. UNCHANGED <<ready, indexed, watermark, tick, hour, known, mapped, lapsed, rolled, blind>>
      BY <1>5 DEF Roll!ClaimFails
    <2> QED BY <2>1, <2>2, <2>3, <2>4 DEF Roll!TypeOK
  <1>6. ASSUME NEW n \in Nodes, Roll!ReadHolder(n) \/ Roll!HolderUnread(n)
        PROVE  Roll!TypeOK'
    <2>1. tick' \in [Nodes -> TickPcs]
      BY <1>6 DEF Roll!TypeOK, Roll!ReadHolder, Roll!HolderUnread
    <2>2. hour' \in [Nodes -> 0..LastHour]
      BY <1>6 DEF Roll!TypeOK, Roll!ReadHolder, Roll!HolderUnread
    <2>3. lapsed' \in [Nodes -> BOOLEAN]
      BY <1>6 DEF Roll!TypeOK, Roll!ReadHolder, Roll!HolderUnread
    <2>4. mishaps' \in 0..MaxFaults
      BY <1>6 DEF Roll!TypeOK, Roll!ReadHolder, Roll!HolderUnread
    <2>5. UNCHANGED <<ready, indexed, watermark, claim, items, known, mapped, rolled, blind>>
      BY <1>6 DEF Roll!ReadHolder, Roll!HolderUnread
    <2> QED BY <2>1, <2>2, <2>3, <2>4, <2>5 DEF Roll!TypeOK
  <1>7. ASSUME NEW n \in Nodes, Roll!Extend(n)
        PROVE  Roll!TypeOK'
    <2>1. tick' \in [Nodes -> TickPcs]
      BY <1>7 DEF Roll!TypeOK, Roll!Extend
    <2>2. lapsed' \in [Nodes -> BOOLEAN]
      BY <1>7 DEF Roll!TypeOK, Roll!Extend
    <2>3. UNCHANGED <<ready, indexed, watermark, claim, hour, items, known, mapped, rolled, blind, mishaps>>
      BY <1>7 DEF Roll!Extend
    <2> QED BY <2>1, <2>2, <2>3 DEF Roll!TypeOK
  <1>8. ASSUME NEW n \in Nodes, Roll!Aggregate(n)
        PROVE  Roll!TypeOK'
    <2>1. tick' \in [Nodes -> TickPcs]
      BY <1>8 DEF Roll!TypeOK, Roll!Aggregate, WorkerHasClaim
    <2>2. rolled' \subseteq Roll!Hours
      BY <1>8 DEF Roll!TypeOK, Roll!Aggregate, WorkerHasClaim
    <2>3. UNCHANGED <<ready, indexed, watermark, claim, hour, items, known, mapped, lapsed, blind, mishaps>>
      BY <1>8 DEF Roll!Aggregate
    <2> QED BY <2>1, <2>2, <2>3 DEF Roll!TypeOK
  <1>9. ASSUME NEW n \in Nodes, Roll!Advance(n)
        PROVE  Roll!TypeOK'
    <2>1. watermark' \in 0..LastHour
      BY <1>9 DEF Roll!TypeOK, Roll!Advance, Roll!Advanced
    <2>2. tick' \in [Nodes -> TickPcs]
      BY <1>9 DEF Roll!TypeOK, Roll!Advance, Roll!Advanced
    <2>3. known' \in [Nodes -> 0..LastHour]
      BY <1>9 DEF Roll!TypeOK, Roll!Advance, Roll!Advanced
    <2>4. UNCHANGED <<ready, indexed, claim, hour, items, mapped, lapsed, rolled, blind, mishaps>>
      BY <1>9 DEF Roll!Advance, Roll!Advanced
    <2> QED BY <2>1, <2>2, <2>3, <2>4 DEF Roll!TypeOK
  <1>10. ASSUME NEW n \in Nodes, Roll!Release(n)
        PROVE  Roll!TypeOK'
    <2>1. claim' \in [Roll!Hours -> Nodes \cup {NULL}]
      BY <1>10 DEF Roll!TypeOK, Roll!Release, Roll!Unclaimed
    <2>2. tick' \in [Nodes -> TickPcs]
      BY <1>10 DEF Roll!TypeOK, Roll!Release, Roll!Unclaimed
    <2>3. hour' \in [Nodes -> 0..LastHour]
      BY <1>10 DEF Roll!TypeOK, Roll!Release, Roll!Unclaimed
    <2>4. lapsed' \in [Nodes -> BOOLEAN]
      BY <1>10 DEF Roll!TypeOK, Roll!Release, Roll!Unclaimed
    <2>5. UNCHANGED <<ready, indexed, watermark, items, known, mapped, rolled, blind, mishaps>>
      BY <1>10 DEF Roll!Release, Roll!Unclaimed
    <2> QED BY <2>1, <2>2, <2>3, <2>4, <2>5 DEF Roll!TypeOK
  <1>11. ASSUME NEW n \in Nodes,
               Roll!AggregateFails(n) \/ Roll!AdvanceFails(n) \/ Roll!ReleaseFails(n)
        PROVE  Roll!TypeOK'
    <2>1. tick' \in [Nodes -> TickPcs]
      BY <1>11 DEF Roll!TypeOK, Roll!AggregateFails, Roll!AdvanceFails, Roll!ReleaseFails
    <2>2. hour' \in [Nodes -> 0..LastHour]
      BY <1>11 DEF Roll!TypeOK, Roll!AggregateFails, Roll!AdvanceFails, Roll!ReleaseFails
    <2>3. lapsed' \in [Nodes -> BOOLEAN]
      BY <1>11 DEF Roll!TypeOK, Roll!AggregateFails, Roll!AdvanceFails, Roll!ReleaseFails
    <2>4. mishaps' \in 0..MaxFaults
      BY <1>11 DEF Roll!TypeOK, Roll!AggregateFails, Roll!AdvanceFails, Roll!ReleaseFails
    <2>5. UNCHANGED <<ready, indexed, watermark, claim, items, known, mapped, rolled, blind>>
      BY <1>11 DEF Roll!AggregateFails, Roll!AdvanceFails, Roll!ReleaseFails
    <2> QED BY <2>1, <2>2, <2>3, <2>4, <2>5 DEF Roll!TypeOK
  <1>12. ASSUME NEW n \in Nodes, Roll!Crash(n)
        PROVE  Roll!TypeOK'
    <2>1. tick' \in [Nodes -> TickPcs]
      BY <1>12 DEF Roll!TypeOK, Roll!Crash, Roll!Gone
    <2>2. hour' \in [Nodes -> 0..LastHour]
      BY <1>12 DEF Roll!TypeOK, Roll!Crash, Roll!Gone
    <2>3. items' \in [Nodes -> SUBSET Roll!Hours]
      BY <1>12 DEF Roll!TypeOK, Roll!Crash, Roll!Gone
    <2>4. known' \in [Nodes -> 0..LastHour]
      BY <1>12 DEF Roll!TypeOK, Roll!Crash, Roll!Gone
    <2>5. mapped' \in [Nodes -> BOOLEAN]
      BY <1>12 DEF Roll!TypeOK, Roll!Crash, Roll!Gone
    <2>6. lapsed' \in [Nodes -> BOOLEAN]
      BY <1>12 DEF Roll!TypeOK, Roll!Crash, Roll!Gone
    <2>7. mishaps' \in 0..MaxFaults
      BY <1>12 DEF Roll!TypeOK, Roll!Crash, Roll!Gone
    <2>8. UNCHANGED <<ready, indexed, watermark, claim, rolled, blind>>
      BY <1>12 DEF Roll!Crash, Roll!Gone
    <2> QED BY <2>1, <2>2, <2>3, <2>4, <2>5, <2>6, <2>7, <2>8 DEF Roll!TypeOK
  <1>13. ASSUME NEW h \in Roll!Hours, Roll!ClaimExpires(h) \/ Roll!ClaimLapses(h)
        PROVE  Roll!TypeOK'
    <2>1. claim' \in [Roll!Hours -> Nodes \cup {NULL}]
      BY <1>13 DEF Roll!TypeOK, Roll!ClaimExpires, Roll!ClaimLapses
    <2>2. lapsed' \in [Nodes -> BOOLEAN]
      BY <1>13 DEF Roll!TypeOK, Roll!ClaimExpires, Roll!ClaimLapses
    <2>3. mishaps' \in 0..MaxFaults
      BY <1>13 DEF Roll!TypeOK, Roll!ClaimExpires, Roll!ClaimLapses
    <2>4. UNCHANGED <<ready, indexed, watermark, tick, hour, items, known, mapped, rolled, blind>>
      BY <1>13 DEF Roll!ClaimExpires, Roll!ClaimLapses
    <2> QED BY <2>1, <2>2, <2>3, <2>4 DEF Roll!TypeOK
  <1>14. ASSUME NEW d \in Roll!Days, Roll!IndexChanges(d)
        PROVE  Roll!TypeOK'
    <2>1. indexed' \subseteq Roll!Days
      BY <1>14 DEF Roll!TypeOK, Roll!IndexChanges
    <2>2. UNCHANGED <<ready, watermark, claim, tick, hour, items, known, mapped, lapsed, rolled, blind, mishaps>>
      BY <1>14 DEF Roll!IndexChanges
    <2> QED BY <2>1, <2>2 DEF Roll!TypeOK
  <1>15. CASE Roll!HourPasses
    <2>1. ready' \in 0..LastHour
      BY <1>15 DEF Roll!TypeOK, Roll!HourPasses
    <2>2. UNCHANGED <<indexed, watermark, claim, tick, hour, items, known, mapped, lapsed, rolled, blind, mishaps>>
      BY <1>15 DEF Roll!HourPasses
    <2> QED BY <2>1, <2>2 DEF Roll!TypeOK
  <1>16. CASE UNCHANGED Roll!vars
    BY <1>16 DEF Roll!TypeOK, Roll!vars
  <1> QED
    BY <1>1, <1>2, <1>3, <1>4, <1>5, <1>6, <1>7, <1>8, <1>9, <1>10, <1>11, <1>12,
       <1>13, <1>14, <1>15, <1>16
       DEF Roll!Next, Roll!GoesOn, Roll!Fault

\* A tick is never told more of the watermark than it has reached: the watermark
\* only grows, and a tick's copy follows what the tick itself wrote.
LEMMA KnownStep ==
  ASSUME Roll!TypeOK, KnownIsReached, [Roll!Next]_(Roll!vars)
  PROVE  KnownIsReached'
  <1>0. /\ watermark \in 0..LastHour /\ known \in [Nodes -> 0..LastHour]
        /\ hour \in [Nodes -> 0..LastHour] /\ tick \in [Nodes -> TickPcs]
        /\ mapped \in [Nodes -> BOOLEAN]
    BY DEF Roll!TypeOK
  <1>1. ASSUME NEW n \in Nodes, Roll!Tick(n)
        PROVE  KnownIsReached'
    <2>1. \A m \in Nodes : known'[m] <= watermark'
      BY <1>0, <1>1 DEF KnownIsReached, Roll!Tick, Roll!BeginTick
    <2>2. ASSUME NEW m \in Nodes, tick'[m] # "idle", ~blind'
          PROVE  mapped'[m] /\ known'[m] > 0
      <3>1. ~blind /\ watermark # 0
        BY <1>1, <2>2 DEF Roll!Tick
      <3>2. CASE m = n
        BY <1>0, <1>1, <3>1, <3>2 DEF Roll!Tick, Roll!BeginTick
      <3>3. CASE m # n
        BY <1>0, <1>1, <2>2, <3>1, <3>3 DEF Roll!Tick, Roll!BeginTick, KnownIsReached
      <3> QED
        BY <3>2, <3>3
    <2> QED
      BY <2>1, <2>2 DEF KnownIsReached
  <1>2. ASSUME NEW n \in Nodes, Roll!TickUnread(n)
        PROVE  KnownIsReached'
    <2>1. blind' = TRUE
      BY <1>2 DEF Roll!TickUnread
    <2>2. \A m \in Nodes : known'[m] <= watermark'
      BY <1>0, <1>2 DEF KnownIsReached, Roll!TickUnread, Roll!BeginTick
    <2> QED
      BY <2>1, <2>2 DEF KnownIsReached
  <1>3. ASSUME NEW n \in Nodes, Roll!TickEnds(n) \/ Roll!Crash(n)
        PROVE  KnownIsReached'
    BY <1>0, <1>3 DEF KnownIsReached, Roll!TickEnds, Roll!Crash, Roll!Gone
  <1>8. ASSUME NEW n \in Nodes, Roll!Advance(n)
        PROVE  KnownIsReached'
    <2>1. watermark' \in 0..LastHour /\ watermark <= watermark'
      BY <1>0, <1>8 DEF Roll!Advance, Roll!Advanced
    <2>2. CASE known' = known
      BY <1>0, <1>8, <2>1, <2>2 DEF KnownIsReached, Roll!Advance
    <2>3. CASE known' = [known EXCEPT ![n] = hour[n]] /\ watermark' = Roll!Advanced(watermark, hour[n])
               /\ mapped[n] /\ Roll!Contiguous(known[n], hour[n])
      BY <1>0, <1>8, <2>1, <2>3 DEF KnownIsReached, Roll!Advance, Roll!Advanced, Roll!Contiguous
    <2> QED
      BY <1>8, <2>2, <2>3 DEF Roll!Advance
  <1>4. ASSUME NEW n \in Nodes, NEW h \in Roll!Hours, Roll!Claim(n, h) \/ Roll!ClaimFails(n, h)
        PROVE  KnownIsReached'
    BY <1>4 DEF Roll!TypeOK, KnownIsReached, Roll!Claim, Roll!ClaimFails
  <1>5. ASSUME NEW n \in Nodes,
               Roll!ReadHolder(n) \/ Roll!Extend(n) \/ Roll!Aggregate(n) \/ Roll!Release(n)
        PROVE  KnownIsReached'
    BY <1>5 DEF Roll!TypeOK, KnownIsReached, Roll!ReadHolder, Roll!Extend, Roll!Aggregate,
                Roll!Release
  <1>6. ASSUME NEW n \in Nodes,
               Roll!HolderUnread(n) \/ Roll!AggregateFails(n) \/ Roll!AdvanceFails(n)
                 \/ Roll!ReleaseFails(n)
        PROVE  KnownIsReached'
    BY <1>6 DEF Roll!TypeOK, KnownIsReached, Roll!HolderUnread, Roll!AggregateFails,
                Roll!AdvanceFails, Roll!ReleaseFails
  <1>7. ASSUME UNCHANGED <<watermark, tick, known, mapped, blind>>
        PROVE  KnownIsReached'
    BY <1>7 DEF KnownIsReached
  <1> QED
    BY <1>1, <1>2, <1>3, <1>4, <1>5, <1>6, <1>7, <1>8
       DEF Roll!Next, Roll!GoesOn, Roll!Fault, Roll!ClaimExpires, Roll!ClaimLapses,
           Roll!IndexChanges, Roll!HourPasses, Roll!vars

\* The watermark passes only the hour after the one the tick knew as reached, which
\* is not beyond the hour after the watermark, and which the tick has rolled up.
LEMMA NoGapStep ==
  ASSUME Roll!TypeOK, Roll!NoGap, KnownIsReached, AdvancesRolled, [Roll!Next]_(Roll!vars)
  PROVE  Roll!NoGap'
  <1>1. ASSUME NEW n \in Nodes, Roll!Advance(n), ~blind
        PROVE  1..watermark' \subseteq rolled
    <2>1. /\ watermark \in Nat /\ 1..watermark \subseteq rolled /\ hour[n] \in rolled
          /\ hour[n] \in Nat /\ known[n] \in Nat /\ known[n] <= watermark /\ known[n] > 0
      BY <1>1 DEF Roll!TypeOK, Roll!NoGap, KnownIsReached, AdvancesRolled, Roll!Advance
    <2>2. CASE Roll!Contiguous(known[n], hour[n]) /\ hour[n] > watermark
      <3>1. hour[n] = watermark + 1 /\ watermark' = hour[n]
        BY <1>1, <2>1, <2>2 DEF Roll!Advance, Roll!Advanced, Roll!Contiguous
      <3> QED
        BY <2>1, <3>1
    <2>3. CASE ~(Roll!Contiguous(known[n], hour[n]) /\ hour[n] > watermark)
      BY <1>1, <2>1, <2>3 DEF Roll!Advance, Roll!Advanced
    <2> QED
      BY <2>2, <2>3
  <1>2. ASSUME NEW n \in Nodes, Roll!Advance(n)
        PROVE  Roll!NoGap'
    BY <1>1, <1>2 DEF Roll!NoGap, Roll!Advance
  <1>3. watermark' = watermark \/ \E n \in Nodes : Roll!Advance(n)
    BY DEF Roll!Next, Roll!GoesOn, Roll!Fault, Roll!Tick, Roll!TickUnread, Roll!BeginTick,
           Roll!TickEnds, Roll!Gone, Roll!Claim,
           Roll!ReadHolder, Roll!Extend, Roll!Aggregate, Roll!Release, Roll!AggregateFails,
           Roll!AdvanceFails,
           Roll!ReleaseFails, Roll!ClaimFails, Roll!HolderUnread, Roll!Crash, Roll!ClaimExpires,
           Roll!ClaimLapses, Roll!IndexChanges, Roll!HourPasses, Roll!vars
  <1>4. rolled \subseteq rolled'
    <2>1. rolled' = rolled \/ \E n \in Nodes : Roll!Aggregate(n)
      BY DEF Roll!Next, Roll!GoesOn, Roll!Fault, Roll!Tick, Roll!TickUnread, Roll!BeginTick,
             Roll!TickEnds, Roll!Gone, Roll!Claim,
             Roll!ReadHolder, Roll!Extend, Roll!Advance, Roll!Release, Roll!AggregateFails,
             Roll!AdvanceFails, Roll!ReleaseFails,
             Roll!ClaimFails, Roll!HolderUnread, Roll!Crash, Roll!ClaimExpires,
             Roll!ClaimLapses, Roll!IndexChanges, Roll!HourPasses, Roll!vars
    <2> QED
      BY <2>1 DEF Roll!Aggregate
  <1>5. blind => blind'
    <2>1. UNCHANGED blind \/ \E n \in Nodes : Roll!Tick(n) \/ Roll!TickUnread(n)
      BY DEF Roll!Next, Roll!GoesOn, Roll!Fault, Roll!TickEnds, Roll!Gone, Roll!Claim,
             Roll!ReadHolder, Roll!Extend, Roll!Aggregate,
             Roll!Advance, Roll!Release, Roll!AggregateFails, Roll!AdvanceFails,
             Roll!ReleaseFails,
             Roll!ClaimFails, Roll!HolderUnread, Roll!Crash, Roll!ClaimExpires,
             Roll!ClaimLapses, Roll!IndexChanges, Roll!HourPasses, Roll!vars
    <2> QED
      BY <2>1 DEF Roll!Tick, Roll!TickUnread
  <1> QED
    BY <1>2, <1>3, <1>4, <1>5 DEF Roll!NoGap

\* Only Aggregate leads to Advance, and it records its hour.
LEMMA AdvancesRolledStep ==
  ASSUME Roll!TypeOK, AdvancesRolled, [Roll!Next]_(Roll!vars)
  PROVE  AdvancesRolled'
  <1>1. ASSUME NEW n \in Nodes, Roll!Aggregate(n)
        PROVE  AdvancesRolled'
    BY <1>1 DEF Roll!TypeOK, AdvancesRolled, Roll!Aggregate
  <1>2. ASSUME NEW n \in Nodes, Roll!Tick(n) \/ Roll!TickUnread(n)
        PROVE  AdvancesRolled'
    BY <1>2 DEF Roll!TypeOK, AdvancesRolled, Roll!Tick, Roll!TickUnread, Roll!BeginTick
  <1>3. ASSUME NEW n \in Nodes, Roll!TickEnds(n) \/ Roll!Crash(n)
        PROVE  AdvancesRolled'
    BY <1>3 DEF Roll!TypeOK, AdvancesRolled, Roll!TickEnds, Roll!Crash, Roll!Gone
  <1>4. ASSUME NEW n \in Nodes, NEW h \in Roll!Hours, Roll!Claim(n, h) \/ Roll!ClaimFails(n, h)
        PROVE  AdvancesRolled'
    BY <1>4 DEF Roll!TypeOK, AdvancesRolled, Roll!Claim, Roll!ClaimFails
  <1>5. ASSUME NEW n \in Nodes,
               Roll!ReadHolder(n) \/ Roll!Extend(n) \/ Roll!Advance(n) \/ Roll!Release(n)
        PROVE  AdvancesRolled'
    BY <1>5 DEF Roll!TypeOK, AdvancesRolled, Roll!ReadHolder, Roll!Extend, Roll!Advance,
                Roll!Release
  <1>6. ASSUME NEW n \in Nodes,
               Roll!HolderUnread(n) \/ Roll!AggregateFails(n) \/ Roll!AdvanceFails(n)
                 \/ Roll!ReleaseFails(n)
        PROVE  AdvancesRolled'
    BY <1>6 DEF Roll!TypeOK, AdvancesRolled, Roll!HolderUnread, Roll!AggregateFails,
                Roll!AdvanceFails, Roll!ReleaseFails
  <1>7. ASSUME UNCHANGED <<tick, hour, rolled>>
        PROVE  AdvancesRolled'
    BY <1>7 DEF AdvancesRolled
  <1> QED
    BY <1>1, <1>2, <1>3, <1>4, <1>5, <1>6, <1>7
       DEF Roll!Next, Roll!GoesOn, Roll!Fault, Roll!ClaimExpires, Roll!ClaimLapses,
           Roll!IndexChanges, Roll!HourPasses, Roll!vars

\* SET NX succeeds only for a claim that is free, a release deletes only the
\* replica's own claim, a claim expires only while nobody's heartbeat keeps it, and
\* one that lapses under its holder is known to have lapsed.
LEMMA ClaimStep ==
  ASSUME Roll!TypeOK, WorkerHasClaim, [Roll!Next]_(Roll!vars)
  PROVE  WorkerHasClaim'
  <1>1. ASSUME NEW n \in Nodes, NEW h \in Roll!Hours, Roll!Claim(n, h) \/ Roll!ClaimFails(n, h)
        PROVE  WorkerHasClaim'
    BY <1>1 DEF Roll!TypeOK, WorkerHasClaim, Roll!Claim, Roll!ClaimFails
  <1>2. ASSUME NEW n \in Nodes, Roll!ReadHolder(n)
        PROVE  WorkerHasClaim'
    BY <1>2 DEF Roll!TypeOK, WorkerHasClaim, Roll!ReadHolder
  <1>3. ASSUME NEW n \in Nodes, Roll!Extend(n) \/ Roll!Aggregate(n) \/ Roll!Advance(n)
        PROVE  WorkerHasClaim'
    BY <1>3 DEF Roll!TypeOK, WorkerHasClaim, Roll!Extend, Roll!Aggregate, Roll!Advance
  <1>4. ASSUME NEW n \in Nodes, Roll!Release(n)
        PROVE  WorkerHasClaim'
    BY <1>4 DEF Roll!TypeOK, WorkerHasClaim, Roll!Release, Roll!Unclaimed
  <1>5. ASSUME NEW n \in Nodes,
               Roll!HolderUnread(n) \/ Roll!AggregateFails(n) \/ Roll!AdvanceFails(n)
                 \/ Roll!ReleaseFails(n)
        PROVE  WorkerHasClaim'
    BY <1>5 DEF Roll!TypeOK, WorkerHasClaim, Roll!HolderUnread, Roll!AggregateFails,
                Roll!AdvanceFails, Roll!ReleaseFails
  <1>6. ASSUME NEW n \in Nodes, Roll!Tick(n) \/ Roll!TickUnread(n)
        PROVE  WorkerHasClaim'
    BY <1>6 DEF Roll!TypeOK, WorkerHasClaim, Roll!Tick, Roll!TickUnread, Roll!BeginTick
  <1>7. ASSUME NEW n \in Nodes, Roll!Gone(n), UNCHANGED claim
        PROVE  WorkerHasClaim'
    BY <1>7 DEF Roll!TypeOK, WorkerHasClaim, Roll!Gone
  <1>8. ASSUME NEW h \in Roll!Hours, Roll!ClaimExpires(h)
        PROVE  WorkerHasClaim'
    BY <1>8 DEF Roll!TypeOK, WorkerHasClaim, Roll!ClaimExpires, Roll!Kept
  <1>10. ASSUME NEW h \in Roll!Hours, Roll!ClaimLapses(h)
         PROVE  WorkerHasClaim'
    BY <1>10 DEF Roll!TypeOK, WorkerHasClaim, Roll!ClaimLapses
  <1>9. ASSUME UNCHANGED <<claim, tick, hour, lapsed>>
        PROVE  WorkerHasClaim'
    BY <1>9 DEF WorkerHasClaim
  <1> QED
    BY <1>1, <1>2, <1>3, <1>4, <1>5, <1>6, <1>7, <1>8, <1>9, <1>10
       DEF Roll!Next, Roll!GoesOn, Roll!Fault, Roll!TickEnds, Roll!Crash, Roll!IndexChanges,
           Roll!HourPasses, Roll!vars

\* The invariant holds in every state.
LEMMA RollupInvariance == Roll!Spec => []RollupInv
  <1>1. RollupInv /\ [Roll!Next]_(Roll!vars) => RollupInv'
    BY RollupTypeStep, KnownStep, NoGapStep, AdvancesRolledStep, ClaimStep DEF RollupInv
  <1> QED
    BY RollupInit, <1>1, PTL DEF Roll!Spec

-----------------------------------------------------------------------------
(***************************************************************************)
(* What the rollup promises.                                                *)
(***************************************************************************)

\* Every state has its types (rollup_engine.go, rollup_lock.go).
THEOREM RollupTypeCorrect == Roll!Spec => []Roll!TypeOK
  <1>1. RollupInv => Roll!TypeOK
    BY DEF RollupInv
  <1> QED
    BY RollupInvariance, <1>1, PTL

\* The watermark never passes an hour that no replica has aggregated, however ticks
\* interleave, fail and crash, unless one of them ran without the watermark
\* (advanceWatermark and watermarkContiguous).
THEOREM NoGapHolds == Roll!Spec => []NoGap
  <1>1. RollupInv => NoGap
    BY DEF RollupInv, NoGap
  <1> QED
    BY RollupInvariance, <1>1, PTL

\* Of two replicas that work on one hour, one has lost its claim without noticing, to
\* a heartbeat that failed or between finding it and extending it (TryClaimSlice,
\* heartbeat and releaseClaimScript).
THEOREM ExclusiveSliceHolds == Roll!Spec => []ExclusiveSlice
  <1>1. RollupInv => ExclusiveSlice
    <2> SUFFICES ASSUME RollupInv, NEW m \in Nodes, NEW n \in Nodes, m # n,
                        Roll!Leases(m, hour[m]), Roll!Leases(n, hour[m]),
                        ~lapsed[m], ~lapsed[n]
                 PROVE  FALSE
      BY DEF ExclusiveSlice, Roll!ExclusiveSlice
    <2> QED
      BY DEF RollupInv, WorkerHasClaim
  <1> QED
    BY RollupInvariance, <1>1, PTL

\* The watermark never moves back, also when a replica finishes an hour long after
\* the others have gone on (setWatermarkIfGreaterScript).
THEOREM WatermarkMovesForwardHolds == Roll!Spec => WatermarkMovesForward
  <1>1. ASSUME Roll!TypeOK, [Roll!Next]_(Roll!vars)
        PROVE  watermark' >= watermark
    <2>1. watermark \in 0..LastHour /\ hour \in [Nodes -> 0..LastHour]
      BY <1>1 DEF Roll!TypeOK
    <2>2. ASSUME NEW n \in Nodes, Roll!Advance(n)
          PROVE  watermark' >= watermark
      BY <2>1, <2>2 DEF Roll!Advance, Roll!Advanced
    <2>3. ASSUME watermark' = watermark
          PROVE  watermark' >= watermark
      BY <2>1, <2>3
    <2> QED
      BY <1>1, <2>2, <2>3
         DEF Roll!Next, Roll!GoesOn, Roll!Fault, Roll!Tick, Roll!TickUnread, Roll!BeginTick,
             Roll!TickEnds, Roll!Gone, Roll!Claim,
             Roll!ReadHolder, Roll!Extend, Roll!Aggregate, Roll!Advance, Roll!Release,
             Roll!AggregateFails, Roll!AdvanceFails,
             Roll!ReleaseFails, Roll!ClaimFails, Roll!HolderUnread, Roll!Crash, Roll!ClaimExpires,
             Roll!ClaimLapses, Roll!IndexChanges, Roll!HourPasses, Roll!vars
  <1>2. Roll!TypeOK /\ [Roll!Next]_(Roll!vars) => [watermark' >= watermark]_(Roll!vars)
    BY <1>1
  <1> QED
    BY RollupTypeCorrect, <1>2, PTL
       DEF Roll!Spec, WatermarkMovesForward, Roll!WatermarkMovesForward

-----------------------------------------------------------------------------
(***************************************************************************)
(* The bulk buffers                                                          *)
(***************************************************************************)
HIDE DEF Roll!Hours, Roll!Working, TickPcs, Roll!At, Roll!Goto, Roll!Failure, Roll!Leases,
  Roll!NextItem, Roll!Days

BulkPcs == {"idle", "data", "meta", "swap", "send", "stop", "exited", "down"}

\* Where the code of each goroutine can be, and that a loop flushes its own buffer.
PlacesOK ==
  /\ \A w \in Writers :
       /\ place[w] \in {"idle", "data", "meta", "swap", "send"}
       /\ place[w] # "idle" => point[w] \in Points
  /\ \A b \in Bulk!Loops : place[b] \in {"idle", "swap", "send", "exited"} /\ at[b] = b
  /\ place["shutdown"] \in {"idle", "swap", "send", "stop", "down"}

\* A flusher holds a batch only while it sends it, and has attempts left as long.
SendersHold ==
  \A p \in Bulk!Flushers :
    /\ batch[p] # {} => place[p] = "send"
    /\ place[p] = "send" => tries[p] <= MaxRetries

\* NothingVanishes, document by document.
Followed ==
  \A b \in Bulk!Buffers, d \in Points :
    d \in accepted[b] <=> \/ d \in buf[b] \/ d \in written[b] \/ d \in lost[b]
                          \/ \E p \in Bulk!Flushers : at[p] = b /\ d \in batch[p]

\* The order of a shutdown: the writers, the data, the metadata, the loops.
ShutdownOrder ==
  /\ place["shutdown"] # "idle" => \A w \in Writers : place[w] = "idle"
  /\ place["shutdown"] = "idle" => at["shutdown"] = "data"
  /\ place["shutdown"] \in {"send", "stop", "down"} \/ at["shutdown"] = "meta" => buf["data"] = {}
  /\ troubles = 0 /\ place["shutdown"] \in {"stop", "down"} => at["shutdown"] = "meta"
  /\ place["shutdown"] \in {"send", "stop", "down"} /\ at["shutdown"] = "meta" => buf["meta"] = {}
  /\ place["shutdown"] = "down" => \A b \in Bulk!Loops : place[b] = "exited"

BulkInv == Bulk!TypeOK /\ PlacesOK /\ SendersHold /\ Followed /\ ShutdownOrder

USE FlushersDiffer, RetriesAreBounded, FaultsAreBounded
DEF Bulk!Buffers, Bulk!Loops, Bulk!Flushers, BulkPcs, Bulk!At, Bulk!Goto, Bulk!Fault

-----------------------------------------------------------------------------
(***************************************************************************)
(* What the end of a flush changes.                                          *)
(***************************************************************************)

\* Where a flush that has returned goes on, and that no other flush moves.
LEMMA ReturnedTo ==
  ASSUME Bulk!TypeOK, PlacesOK, NEW p \in Bulk!Flushers, NEW ok \in BOOLEAN,
         Bulk!At(p, "swap") \/ Bulk!At(p, "send"), Bulk!Returned(p, ok)
  PROVE  /\ place' \in [Bulk!Flushers -> BulkPcs] /\ at' \in [Bulk!Flushers -> Bulk!Buffers]
         /\ \A q \in Bulk!Flushers : q # p => place'[q] = place[q] /\ at'[q] = at[q]
         /\ p \in Writers => place'[p] \in {"idle", "meta"} /\ at'[p] = at[p]
         /\ p \in Bulk!Loops => place'[p] = "idle" /\ at'[p] = at[p]
         /\ p = "shutdown" => \/ place'[p] = "swap" /\ at[p] = "data" /\ at'[p] = "meta"
                              \/ place'[p] = "stop" /\ at'[p] = at[p] /\ (ok => at[p] = "meta")
  <1>1. place \in [Bulk!Flushers -> BulkPcs] /\ at \in [Bulk!Flushers -> Bulk!Buffers]
    BY DEF Bulk!TypeOK
  <1>2. CASE p = "shutdown" /\ at[p] = "data" /\ ok
    BY <1>1, <1>2 DEF Bulk!Returned
  <1>3. CASE p = "shutdown" /\ ~(at[p] = "data" /\ ok)
    BY <1>1, <1>3 DEF Bulk!Returned
  <1>4. CASE p \in Writers
    BY <1>1, <1>4 DEF Bulk!Returned
  <1>5. CASE p \in Bulk!Loops
    BY <1>1, <1>5 DEF Bulk!Returned
  <1> QED
    BY <1>2, <1>3, <1>4, <1>5

-----------------------------------------------------------------------------
\* Every step keeps the types.
LEMMA BulkTypeStep ==
  ASSUME Bulk!TypeOK, PlacesOK, SendersHold, [Bulk!Next]_(Bulk!vars)
  PROVE  Bulk!TypeOK'
  <1>1. ASSUME NEW w \in Writers, NEW d \in Points, Bulk!Begin(w, d)
        PROVE  Bulk!TypeOK'
    <2>1. place' \in [Bulk!Flushers -> BulkPcs]
      BY <1>1 DEF Bulk!TypeOK, Bulk!Begin, Bulk!sets
    <2>2. point' \in [Writers -> Points \cup {NULL}]
      BY <1>1 DEF Bulk!TypeOK, Bulk!Begin, Bulk!sets
    <2>3. UNCHANGED <<buf, accepted, written, lost, seen, at, batch, tries, troubles>>
      BY <1>1 DEF Bulk!Begin, Bulk!sets
    <2> QED BY <2>1, <2>2, <2>3 DEF Bulk!TypeOK
  <1>2. ASSUME NEW w \in Writers, Bulk!AddData(w)
        PROVE  Bulk!TypeOK'
    <2>1. place' \in [Bulk!Flushers -> BulkPcs]
      BY <1>2 DEF Bulk!TypeOK, Bulk!AddData, Bulk!Add, PlacesOK
    <2>2. at' \in [Bulk!Flushers -> Bulk!Buffers]
      BY <1>2 DEF Bulk!TypeOK, Bulk!AddData, Bulk!Add, PlacesOK
    <2>3. buf' \in [Bulk!Buffers -> SUBSET Points]
      BY <1>2 DEF Bulk!TypeOK, Bulk!AddData, Bulk!Add, PlacesOK
    <2>4. accepted' \in [Bulk!Buffers -> SUBSET Points]
      BY <1>2 DEF Bulk!TypeOK, Bulk!AddData, Bulk!Add, PlacesOK
    <2>5. UNCHANGED <<written, lost, seen, point, batch, tries, troubles>>
      BY <1>2 DEF Bulk!AddData, Bulk!Add, PlacesOK
    <2> QED BY <2>1, <2>2, <2>3, <2>4, <2>5 DEF Bulk!TypeOK
  <1>3. ASSUME NEW w \in Writers, Bulk!AddMeta(w)
        PROVE  Bulk!TypeOK'
    <2>1. place' \in [Bulk!Flushers -> BulkPcs]
      BY <1>3 DEF Bulk!TypeOK, Bulk!AddMeta, Bulk!Add, PlacesOK
    <2>2. at' \in [Bulk!Flushers -> Bulk!Buffers]
      BY <1>3 DEF Bulk!TypeOK, Bulk!AddMeta, Bulk!Add, PlacesOK
    <2>3. buf' \in [Bulk!Buffers -> SUBSET Points]
      BY <1>3 DEF Bulk!TypeOK, Bulk!AddMeta, Bulk!Add, PlacesOK
    <2>4. accepted' \in [Bulk!Buffers -> SUBSET Points]
      BY <1>3 DEF Bulk!TypeOK, Bulk!AddMeta, Bulk!Add, PlacesOK
    <2>5. seen' \subseteq {KeyOf[d] : d \in Points}
      BY <1>3 DEF Bulk!TypeOK, Bulk!AddMeta, Bulk!Add, PlacesOK
    <2>6. UNCHANGED <<written, lost, point, batch, tries, troubles>>
      BY <1>3 DEF Bulk!AddMeta, Bulk!Add, PlacesOK
    <2> QED BY <2>1, <2>2, <2>3, <2>4, <2>5, <2>6 DEF Bulk!TypeOK
  <1>4. ASSUME NEW w \in Writers, Bulk!SkipMeta(w)
        PROVE  Bulk!TypeOK'
    <2>1. place' \in [Bulk!Flushers -> BulkPcs]
      BY <1>4 DEF Bulk!TypeOK, Bulk!SkipMeta, Bulk!sets
    <2>2. UNCHANGED <<buf, accepted, written, lost, seen, point, at, batch, tries, troubles>>
      BY <1>4 DEF Bulk!SkipMeta, Bulk!sets
    <2> QED BY <2>1, <2>2 DEF Bulk!TypeOK
  <1>5. ASSUME NEW b \in Bulk!Loops, Bulk!Tick(b) \/ Bulk!LoopExits(b)
        PROVE  Bulk!TypeOK'
    <2>1. place' \in [Bulk!Flushers -> BulkPcs]
      BY <1>5 DEF Bulk!TypeOK, Bulk!Tick, Bulk!LoopExits, Bulk!sets
    <2>2. UNCHANGED <<buf, accepted, written, lost, seen, point, at, batch, tries, troubles>>
      BY <1>5 DEF Bulk!Tick, Bulk!LoopExits, Bulk!sets
    <2> QED BY <2>1, <2>2 DEF Bulk!TypeOK
  <1>6. CASE Bulk!Shutdown \/ Bulk!Stopped
    <2>1. place' \in [Bulk!Flushers -> BulkPcs]
      BY <1>6 DEF Bulk!TypeOK, Bulk!Shutdown, Bulk!Stopped, Bulk!sets
    <2>2. UNCHANGED <<buf, accepted, written, lost, seen, point, at, batch, tries, troubles>>
      BY <1>6 DEF Bulk!Shutdown, Bulk!Stopped, Bulk!sets
    <2> QED BY <2>1, <2>2 DEF Bulk!TypeOK
  <1>7. ASSUME NEW p \in Bulk!Flushers, Bulk!Swap(p)
        PROVE  Bulk!TypeOK'
    <2>1. place' \in [Bulk!Flushers -> BulkPcs]
      BY <1>7 DEF Bulk!TypeOK, Bulk!Swap
    <2>2. buf' \in [Bulk!Buffers -> SUBSET Points]
      BY <1>7 DEF Bulk!TypeOK, Bulk!Swap
    <2>3. batch' \in [Bulk!Flushers -> SUBSET Points]
      BY <1>7 DEF Bulk!TypeOK, Bulk!Swap
    <2>4. tries' \in [Bulk!Flushers -> 0..(MaxRetries + 1)]
      BY <1>7 DEF Bulk!TypeOK, Bulk!Swap
    <2>5. UNCHANGED <<accepted, written, lost, seen, point, at, troubles>>
      BY <1>7 DEF Bulk!Swap
    <2> QED BY <2>1, <2>2, <2>3, <2>4, <2>5 DEF Bulk!TypeOK
  <1>8. ASSUME NEW p \in Bulk!Flushers, Bulk!NothingToFlush(p)
      PROVE  Bulk!TypeOK'
    <2>1. place' \in [Bulk!Flushers -> BulkPcs] /\ at' \in [Bulk!Flushers -> Bulk!Buffers]
      BY <1>8, ReturnedTo DEF Bulk!NothingToFlush
    <2>2. UNCHANGED <<buf, accepted, written, lost, seen, point, batch, tries, troubles>>
      BY <1>8 DEF Bulk!NothingToFlush, Bulk!sets
    <2> QED BY <2>1, <2>2 DEF Bulk!TypeOK
  <1>9. ASSUME NEW p \in Bulk!Flushers, NEW refused \in SUBSET batch[p], Bulk!Send(p, refused)
      PROVE  Bulk!TypeOK'
    <2>1. place' \in [Bulk!Flushers -> BulkPcs] /\ at' \in [Bulk!Flushers -> Bulk!Buffers]
      BY <1>9, ReturnedTo DEF Bulk!Send
    <2>2. written' \in [Bulk!Buffers -> SUBSET Points]
      BY <1>9 DEF Bulk!TypeOK, Bulk!Send
    <2>3. lost' \in [Bulk!Buffers -> SUBSET Points]
      BY <1>9 DEF Bulk!TypeOK, Bulk!Send
    <2>4. batch' \in [Bulk!Flushers -> SUBSET Points]
      BY <1>9 DEF Bulk!TypeOK, Bulk!Send
    <2>5. troubles' \in 0..MaxFaults
      BY <1>9 DEF Bulk!TypeOK, Bulk!Send
    <2>6. UNCHANGED <<buf, accepted, seen, point, tries>>
      BY <1>9 DEF Bulk!Send
    <2> QED BY <2>1, <2>2, <2>3, <2>4, <2>5, <2>6 DEF Bulk!TypeOK
  <1>10. ASSUME NEW p \in Bulk!Flushers, NEW done \in {{}, batch[p]}, Bulk!SendFails(p, done)
      PROVE  Bulk!TypeOK'
    <2>1. place' \in [Bulk!Flushers -> BulkPcs] /\ at' \in [Bulk!Flushers -> Bulk!Buffers]
      <3>1. CASE UNCHANGED <<place, at>>
        BY <3>1 DEF Bulk!TypeOK
      <3>2. CASE Bulk!Returned(p, FALSE)
        BY <1>10, <3>2, ReturnedTo DEF Bulk!SendFails
      <3> QED BY <1>10, <3>1, <3>2 DEF Bulk!SendFails
    <2>2. written' \in [Bulk!Buffers -> SUBSET Points]
      BY <1>10 DEF Bulk!TypeOK, Bulk!SendFails
    <2>3. lost' \in [Bulk!Buffers -> SUBSET Points]
      <3>1. lost \in [Bulk!Buffers -> SUBSET Points] /\ batch[p] \in SUBSET Points
        BY <1>10 DEF Bulk!TypeOK
      <3>2. CASE UNCHANGED lost
        BY <3>1, <3>2
      <3>3. CASE lost' = [lost EXCEPT ![at[p]] = @ \cup (batch[p] \ written'[at[p]])]
        BY <3>1, <3>3
      <3> QED BY <1>10, <3>2, <3>3 DEF Bulk!SendFails
    <2>4. batch' \in [Bulk!Flushers -> SUBSET Points]
      BY <1>10 DEF Bulk!TypeOK, Bulk!SendFails
    <2>5. tries' \in [Bulk!Flushers -> 0..(MaxRetries + 1)]
      BY <1>10 DEF Bulk!TypeOK, SendersHold, Bulk!SendFails
    <2>6. troubles' \in 0..MaxFaults
      BY <1>10 DEF Bulk!TypeOK, Bulk!SendFails
    <2>7. UNCHANGED <<buf, accepted, seen, point>>
      BY <1>10 DEF Bulk!SendFails
    <2> QED BY <2>1, <2>2, <2>3, <2>4, <2>5, <2>6, <2>7 DEF Bulk!TypeOK
  <1>11. ASSUME NEW p \in Bulk!Flushers, Bulk!Cancelled(p)
      PROVE  Bulk!TypeOK'
    <2>1. place' \in [Bulk!Flushers -> BulkPcs] /\ at' \in [Bulk!Flushers -> Bulk!Buffers]
      BY <1>11, ReturnedTo DEF Bulk!Cancelled
    <2>2. lost' \in [Bulk!Buffers -> SUBSET Points]
      BY <1>11 DEF Bulk!TypeOK, Bulk!Cancelled
    <2>3. batch' \in [Bulk!Flushers -> SUBSET Points]
      BY <1>11 DEF Bulk!TypeOK, Bulk!Cancelled
    <2>4. troubles' \in 0..MaxFaults
      BY <1>11 DEF Bulk!TypeOK, Bulk!Cancelled
    <2>5. UNCHANGED <<buf, accepted, written, seen, point, tries>>
      BY <1>11 DEF Bulk!Cancelled
    <2> QED BY <2>1, <2>2, <2>3, <2>4, <2>5 DEF Bulk!TypeOK
  <1>12. CASE UNCHANGED Bulk!vars
    BY <1>12 DEF Bulk!TypeOK, Bulk!vars, Bulk!sets
  <1> QED
    BY <1>1, <1>2, <1>3, <1>4, <1>5, <1>6, <1>7, <1>8, <1>9, <1>10, <1>11, <1>12
       DEF Bulk!Next, Bulk!WriterStep, Bulk!FlushStep

\* Each goroutine follows its own code, and a writer keeps its point while it writes.
LEMMA PlacesStep ==
  ASSUME Bulk!TypeOK, PlacesOK, [Bulk!Next]_(Bulk!vars)
  PROVE  PlacesOK'
  <1>0. /\ place \in [Bulk!Flushers -> BulkPcs] /\ at \in [Bulk!Flushers -> Bulk!Buffers]
        /\ point \in [Writers -> Points \cup {NULL}]
    BY DEF Bulk!TypeOK
  <1>1. ASSUME NEW w \in Writers, NEW d \in Points, Bulk!Begin(w, d)
        PROVE  PlacesOK'
    BY <1>0, <1>1 DEF PlacesOK, Bulk!Begin
  <1>2. ASSUME NEW w \in Writers, Bulk!AddData(w) \/ Bulk!AddMeta(w) \/ Bulk!SkipMeta(w)
        PROVE  PlacesOK'
    BY <1>0, <1>2 DEF PlacesOK, Bulk!AddData, Bulk!AddMeta, Bulk!Add, Bulk!SkipMeta
  <1>3. ASSUME NEW b \in Bulk!Loops, Bulk!Tick(b) \/ Bulk!LoopExits(b)
        PROVE  PlacesOK'
    BY <1>0, <1>3 DEF PlacesOK, Bulk!Tick, Bulk!LoopExits
  <1>4. CASE Bulk!Shutdown \/ Bulk!Stopped
    BY <1>0, <1>4 DEF PlacesOK, Bulk!Shutdown, Bulk!Stopped
  <1>5. ASSUME NEW p \in Bulk!Flushers, Bulk!Swap(p)
        PROVE  PlacesOK'
    BY <1>0, <1>5 DEF PlacesOK, Bulk!Swap
  <1>6. ASSUME NEW p \in Bulk!Flushers, NEW ok \in BOOLEAN, Bulk!At(p, "swap") \/ Bulk!At(p,
               "send"),
               Bulk!Returned(p, ok), UNCHANGED point
        PROVE  PlacesOK'
    BY <1>0, <1>6, ReturnedTo DEF PlacesOK
  <1>7. ASSUME UNCHANGED <<place, at, point>>
        PROVE  PlacesOK'
    BY <1>7 DEF PlacesOK
  <1>8. ASSUME NEW p \in Bulk!Flushers, Bulk!NothingToFlush(p) \/ Bulk!Cancelled(p)
        PROVE  PlacesOK'
    BY <1>6, <1>8 DEF Bulk!NothingToFlush, Bulk!Cancelled
  <1>9. ASSUME NEW p \in Bulk!Flushers, NEW refused \in SUBSET batch[p], Bulk!Send(p, refused)
        PROVE  PlacesOK'
    BY <1>6, <1>9 DEF Bulk!Send
  <1>10. ASSUME NEW p \in Bulk!Flushers, NEW done \in {{}, batch[p]}, Bulk!SendFails(p, done)
         PROVE  PlacesOK'
    BY <1>6, <1>7, <1>10 DEF Bulk!SendFails
  <1> QED
    BY <1>1, <1>2, <1>3, <1>4, <1>5, <1>7, <1>8, <1>9, <1>10
       DEF Bulk!Next, Bulk!WriterStep, Bulk!FlushStep, Bulk!vars, Bulk!sets

\* A batch is taken with a step to "send" and given up with every step from there.
LEMMA SendersStep ==
  ASSUME Bulk!TypeOK, PlacesOK, SendersHold, [Bulk!Next]_(Bulk!vars)
  PROVE  SendersHold'
  <1>0. /\ place \in [Bulk!Flushers -> BulkPcs] /\ batch \in [Bulk!Flushers -> SUBSET Points]
        /\ tries \in [Bulk!Flushers -> 0..(MaxRetries + 1)]
    BY DEF Bulk!TypeOK
  <1>1. ASSUME NEW p \in Bulk!Flushers, NEW l \in BulkPcs \ {"send"}, ~Bulk!At(p, "send"),
               Bulk!Goto(p, l),
               UNCHANGED <<batch, tries>>
        PROVE  SendersHold'
    BY <1>0, <1>1 DEF SendersHold
  <1>2. ASSUME NEW p \in Bulk!Flushers, Bulk!Swap(p)
        PROVE  SendersHold'
    BY <1>0, <1>2 DEF SendersHold, Bulk!Swap
  <1>3. ASSUME NEW p \in Bulk!Flushers, NEW ok \in BOOLEAN, Bulk!At(p, "swap") \/ Bulk!At(p,
               "send"),
               Bulk!Returned(p, ok), batch' = [batch EXCEPT ![p] = {}],
               \A q \in Bulk!Flushers : q # p => tries'[q] = tries[q]
        PROVE  SendersHold'
    <2>1. place'[p] # "send" /\ batch'[p] = {}
      BY <1>0, <1>3, ReturnedTo
    <2>2. \A q \in Bulk!Flushers : q # p => place'[q] = place[q] /\ batch'[q] = batch[q]
      BY <1>0, <1>3, ReturnedTo
    <2> QED
      BY <1>3, <2>1, <2>2 DEF SendersHold
  <1>4. ASSUME NEW p \in Bulk!Flushers, Bulk!NothingToFlush(p)
        PROVE  SendersHold'
    <2>1. batch' = [batch EXCEPT ![p] = {}]
      BY <1>0, <1>4 DEF Bulk!NothingToFlush, SendersHold
    <2> QED
      BY <1>3, <1>4, <2>1 DEF Bulk!NothingToFlush
  <1>5. ASSUME NEW p \in Bulk!Flushers, Bulk!Cancelled(p)
        PROVE  SendersHold'
    BY <1>3, <1>5 DEF Bulk!Cancelled
  <1>6. ASSUME NEW p \in Bulk!Flushers, NEW refused \in SUBSET batch[p], Bulk!Send(p, refused)
        PROVE  SendersHold'
    BY <1>3, <1>6 DEF Bulk!Send
  <1>7. ASSUME NEW p \in Bulk!Flushers, NEW done \in {{}, batch[p]}, Bulk!SendFails(p, done)
        PROVE  SendersHold'
    <2>1. \A q \in Bulk!Flushers : q # p => tries'[q] = tries[q]
      BY <1>0, <1>7 DEF Bulk!SendFails
    <2>2. CASE tries[p] < MaxRetries
      <3>1. tries'[p] <= MaxRetries /\ UNCHANGED <<place, batch>>
        BY <1>0, <1>7, <2>2 DEF Bulk!SendFails
      <3> QED
        BY <1>7, <2>1, <3>1 DEF SendersHold, Bulk!SendFails
    <2>3. CASE ~(tries[p] < MaxRetries)
      BY <1>3, <1>7, <2>1, <2>3 DEF Bulk!SendFails
    <2> QED
      BY <2>2, <2>3
  <1>8. ASSUME NEW w \in Writers, Bulk!WriterStep(w) \/ \E d \in Points : Bulk!Begin(w, d)
        PROVE  SendersHold'
    BY <1>1, <1>8 DEF Bulk!WriterStep, Bulk!AddData, Bulk!AddMeta, Bulk!Add, Bulk!SkipMeta,
                      Bulk!Begin
  <1>9. CASE (\E b \in Bulk!Loops : Bulk!Tick(b) \/ Bulk!LoopExits(b)) \/ Bulk!Shutdown \/ Bulk!Stopped
    BY <1>1, <1>9 DEF Bulk!Tick, Bulk!LoopExits, Bulk!Shutdown, Bulk!Stopped
  <1>10. CASE UNCHANGED Bulk!vars
    BY <1>10 DEF SendersHold, Bulk!vars
  <1> QED
    BY <1>2, <1>4, <1>5, <1>6, <1>7, <1>8, <1>9, <1>10 DEF Bulk!Next, Bulk!FlushStep

-----------------------------------------------------------------------------
(***************************************************************************)
(* Documents, followed one by one.                                           *)
(***************************************************************************)

\* A flusher that takes over, keeps or gives up a batch of its own buffer: what the
\* documents of that buffer are in is all that changes.
Holders(b, d) == \E p \in Bulk!Flushers : at[p] = b /\ d \in batch[p]

\* Only what p holds changes, and p flushes the same buffer or holds nothing.
LEMMA OthersHold ==
  ASSUME Bulk!TypeOK, NEW p \in Bulk!Flushers, NEW b \in Bulk!Buffers, NEW d \in Points,
         \A q \in Bulk!Flushers : q # p => at'[q] = at[q] /\ batch'[q] = batch[q],
         at'[p] = at[p] \/ batch'[p] = {}
  PROVE  Holders(b, d)' <=> \/ at[p] = b /\ d \in batch'[p]
                            \/ \E q \in Bulk!Flushers : q # p /\ at[q] = b /\ d \in batch[q]
  BY DEF Holders

\* Every step keeps an event in its buffer, with the flush that took it, or where it ended.
LEMMA FollowedStep ==
  ASSUME Bulk!TypeOK, PlacesOK, SendersHold, Followed, [Bulk!Next]_(Bulk!vars)
  PROVE  Followed'
  <1>0. /\ buf \in [Bulk!Buffers -> SUBSET Points] /\ accepted \in [Bulk!Buffers -> SUBSET Points]
        /\ written \in [Bulk!Buffers -> SUBSET Points] /\ lost \in [Bulk!Buffers -> SUBSET Points]
        /\ at \in [Bulk!Flushers -> Bulk!Buffers] /\ batch \in [Bulk!Flushers -> SUBSET Points]
    BY DEF Bulk!TypeOK
  <1>1. ASSUME NEW w \in Writers, NEW b \in Bulk!Buffers, NEW next, Bulk!At(w,
               "data") \/ Bulk!At(w, "meta"),
               Bulk!Add(w, b, next)
        PROVE  Followed'
    <2>1. batch[w] = {} /\ batch' = batch /\ at' = [at EXCEPT ![w] = b]
      BY <1>0, <1>1 DEF SendersHold, Bulk!Add
    <2>2. /\ buf' = [buf EXCEPT ![b] = @ \cup {point[w]}]
          /\ accepted' = [accepted EXCEPT ![b] = @ \cup {point[w]}]
          /\ UNCHANGED <<written, lost>>
      BY <1>0, <1>1 DEF Bulk!Add
    <2>3. ASSUME NEW c \in Bulk!Buffers, NEW d \in Points
          PROVE  Holders(c, d)' <=> Holders(c, d)
      BY <1>0, <2>1 DEF Holders
    <2> QED
      BY <1>0, <2>2, <2>3 DEF Followed, Holders
  <1>2. ASSUME NEW p \in Bulk!Flushers, Bulk!Swap(p)
        PROVE  Followed'
    <2>1. batch[p] = {}
      BY <1>2 DEF SendersHold, Bulk!Swap
    <2>2. ASSUME NEW c \in Bulk!Buffers, NEW d \in Points
          PROVE  Holders(c, d)' <=> Holders(c, d) \/ (c = at[p] /\ d \in buf[c])
      BY <1>0, <1>2, <2>1 DEF Holders, Bulk!Swap
    <2>3. ASSUME NEW c \in Bulk!Buffers, NEW d \in Points
          PROVE  d \in buf[c] <=> d \in buf'[c] \/ (c = at[p] /\ d \in buf[c])
      BY <1>0, <1>2 DEF Bulk!Swap
    <2> QED
      BY <1>2, <2>2, <2>3 DEF Followed, Holders, Bulk!Swap
  \* A batch, or a part of it, goes to the index or is dropped.
  <1>3. ASSUME NEW p \in Bulk!Flushers, UNCHANGED <<buf, accepted>>,
               \A q \in Bulk!Flushers : q # p => at'[q] = at[q] /\ batch'[q] = batch[q],
               at'[p] = at[p] \/ batch'[p] = {},
               \A c \in Bulk!Buffers : c # at[p] => written'[c] = written[c] /\ lost'[c] = lost[c],
               written[at[p]] \cup lost[at[p]] \cup batch[p]
                 = written'[at[p]] \cup lost'[at[p]] \cup batch'[p]
        PROVE  Followed'
    <2> SUFFICES ASSUME NEW b \in Bulk!Buffers, NEW d \in Points
                 PROVE  d \in accepted[b] <=> \/ d \in buf[b] \/ d \in written'[b] \/ d \in lost'[b]
                                              \/ Holders(b, d)'
      BY <1>3 DEF Followed, Holders
    <2>1. d \in accepted[b] <=> \/ d \in buf[b] \/ d \in written[b] \/ d \in lost[b]
                                \/ Holders(b, d)
      BY DEF Followed, Holders
    <2>2. Holders(b, d)' <=> \/ at[p] = b /\ d \in batch'[p]
                             \/ \E q \in Bulk!Flushers : q # p /\ at[q] = b /\ d \in batch[q]
      BY <1>3, OthersHold
    <2>3. Holders(b, d) <=> \/ at[p] = b /\ d \in batch[p]
                            \/ \E q \in Bulk!Flushers : q # p /\ at[q] = b /\ d \in batch[q]
      BY DEF Holders
    <2> QED
      BY <1>3, <2>1, <2>2, <2>3
  <1>4. ASSUME NEW p \in Bulk!Flushers, NEW refused \in SUBSET batch[p], Bulk!Send(p, refused)
        PROVE  Followed'
    <2>1. /\ \A q \in Bulk!Flushers : q # p => at'[q] = at[q] /\ batch'[q] = batch[q]
          /\ batch'[p] = {} /\ UNCHANGED <<buf, accepted>>
      BY <1>0, <1>4, ReturnedTo DEF Bulk!Send
    <2>2. /\ \A c \in Bulk!Buffers : c # at[p] => written'[c] = written[c] /\ lost'[c] = lost[c]
          /\ written'[at[p]] = written[at[p]] \cup (batch[p] \ refused)
          /\ lost'[at[p]] = lost[at[p]] \cup refused
      BY <1>0, <1>4 DEF Bulk!Send
    <2> QED
      BY <1>3, <2>1, <2>2
  <1>5. ASSUME NEW p \in Bulk!Flushers, Bulk!Cancelled(p)
        PROVE  Followed'
    <2>1. /\ \A q \in Bulk!Flushers : q # p => at'[q] = at[q] /\ batch'[q] = batch[q]
          /\ batch'[p] = {} /\ UNCHANGED <<buf, accepted>>
      BY <1>0, <1>5, ReturnedTo DEF Bulk!Cancelled
    <2>2. /\ \A c \in Bulk!Buffers : c # at[p] => written'[c] = written[c] /\ lost'[c] = lost[c]
          /\ written'[at[p]] = written[at[p]]
          /\ lost'[at[p]] = lost[at[p]] \cup (batch[p] \ written[at[p]])
      BY <1>0, <1>5 DEF Bulk!Cancelled
    <2> QED
      BY <1>3, <2>1, <2>2
  <1>6. ASSUME NEW p \in Bulk!Flushers, NEW done \in {{}, batch[p]}, Bulk!SendFails(p, done)
        PROVE  Followed'
    <2>1. /\ \A c \in Bulk!Buffers : c # at[p] => written'[c] = written[c]
          /\ written'[at[p]] = written[at[p]] \cup done /\ UNCHANGED <<buf, accepted>>
      BY <1>0, <1>6 DEF Bulk!SendFails
    <2>2. CASE tries[p] < MaxRetries
      BY <1>3, <1>6, <2>1, <2>2 DEF Bulk!SendFails
    <2>3. CASE ~(tries[p] < MaxRetries)
      <3>1. /\ \A q \in Bulk!Flushers : q # p => at'[q] = at[q] /\ batch'[q] = batch[q]
            /\ batch'[p] = {}
        <4>1. Bulk!Returned(p, FALSE) /\ Bulk!At(p, "send") /\ batch' = [batch EXCEPT ![p] = {}]
          BY <1>6, <2>3 DEF Bulk!SendFails
        <4> QED
          BY <1>0, <4>1, ReturnedTo
      <3>2. /\ \A c \in Bulk!Buffers : c # at[p] => lost'[c] = lost[c]
            /\ lost'[at[p]] = lost[at[p]] \cup (batch[p] \ written'[at[p]])
        BY <1>0, <1>6, <2>3 DEF Bulk!SendFails
      <3> QED
        BY <1>3, <1>6, <2>1, <3>1, <3>2
    <2> QED
      BY <2>2, <2>3
  <1>7. ASSUME NEW p \in Bulk!Flushers, Bulk!NothingToFlush(p)
        PROVE  Followed'
    <2>1. batch[p] = {}
      BY <1>7 DEF SendersHold, Bulk!NothingToFlush
    <2>2. \A q \in Bulk!Flushers : q # p => at'[q] = at[q]
      BY <1>7, ReturnedTo DEF Bulk!NothingToFlush
    <2> QED
      BY <1>3, <1>7, <2>1, <2>2 DEF Bulk!NothingToFlush, Bulk!sets
  <1>8. ASSUME UNCHANGED <<buf, accepted, written, lost, at, batch>>
        PROVE  Followed'
    BY <1>8 DEF Followed
  <1>9. ASSUME NEW w \in Writers, Bulk!AddData(w) \/ Bulk!AddMeta(w)
        PROVE  Followed'
    BY <1>1, <1>9 DEF Bulk!AddData, Bulk!AddMeta
  <1> QED
    BY <1>2, <1>4, <1>5, <1>6, <1>7, <1>8, <1>9
       DEF Bulk!Next, Bulk!WriterStep, Bulk!FlushStep, Bulk!SkipMeta, Bulk!Begin, Bulk!Tick,
           Bulk!LoopExits, Bulk!Shutdown, Bulk!Stopped,
           Bulk!vars, Bulk!sets

-----------------------------------------------------------------------------
(***************************************************************************)
(* The order of the shutdown.                                               *)
(***************************************************************************)

\* Every step keeps the order in which Shutdown flushes the two buffers.
LEMMA ShutdownStep ==
  ASSUME Bulk!TypeOK, PlacesOK, ShutdownOrder, [Bulk!Next]_(Bulk!vars)
  PROVE  ShutdownOrder'
  <1>0. /\ place \in [Bulk!Flushers -> BulkPcs] /\ at \in [Bulk!Flushers -> Bulk!Buffers]
        /\ buf \in [Bulk!Buffers -> SUBSET Points] /\ troubles \in Nat
    BY DEF Bulk!TypeOK
  \* No writer works any more once the shutdown has begun.
  <1>1. ASSUME NEW w \in Writers, Bulk!WriterStep(w) \/ \E d \in Points : Bulk!Begin(w, d)
        PROVE  ShutdownOrder'
    <2>1. place["shutdown"] = "idle" /\ at["shutdown"] = "data"
      BY <1>1 DEF ShutdownOrder, Bulk!WriterStep, Bulk!AddData, Bulk!AddMeta, Bulk!SkipMeta,
                  Bulk!Begin
    <2>2. place'["shutdown"] = "idle" /\ at'["shutdown"] = "data"
      BY <1>0, <1>1, <2>1
         DEF Bulk!WriterStep, Bulk!AddData, Bulk!AddMeta, Bulk!Add, Bulk!SkipMeta,
                              Bulk!Begin
    <2> QED
      BY <2>2 DEF ShutdownOrder
  <1>2. ASSUME NEW b \in Bulk!Loops, Bulk!Tick(b) \/ Bulk!LoopExits(b)
        PROVE  ShutdownOrder'
    BY <1>0, <1>2 DEF ShutdownOrder, Bulk!Tick, Bulk!LoopExits, Bulk!sets
  <1>3. CASE Bulk!Shutdown
    BY <1>0, <1>3 DEF ShutdownOrder, Bulk!Shutdown, Bulk!sets
  <1>4. CASE Bulk!Stopped
    BY <1>0, <1>4 DEF ShutdownOrder, Bulk!Stopped, Bulk!sets
  <1>5. ASSUME NEW p \in Bulk!Flushers, Bulk!Swap(p)
        PROVE  ShutdownOrder'
    <2>1. /\ place' = [place EXCEPT ![p] = "send"] /\ buf' = [buf EXCEPT ![at[p]] = {}]
          /\ place[p] = "swap" /\ UNCHANGED <<at, troubles>>
      BY <1>5 DEF Bulk!Swap
    <2>2. /\ buf["data"] = {} => buf'["data"] = {} /\ (buf["meta"] = {} => buf'["meta"] = {})
          /\ buf'[at[p]] = {}
      BY <1>0, <2>1
    <2>3. CASE p = "shutdown"
      BY <1>0, <2>1, <2>2, <2>3 DEF ShutdownOrder
    <2>4. CASE p # "shutdown"
      BY <1>0, <2>1, <2>2, <2>4 DEF ShutdownOrder
    <2> QED
      BY <2>3, <2>4
  \* A flush ends; with an error, if it was the first of the shutdown.
  <1>6. ASSUME NEW p \in Bulk!Flushers, NEW ok \in BOOLEAN, Bulk!Returned(p, ok), UNCHANGED buf,
               Bulk!At(p, "send") \/ (Bulk!At(p, "swap") /\ buf[at[p]] = {}),
               (ok /\ (troubles' = 0 => troubles = 0)) \/ troubles' > 0
        PROVE  ShutdownOrder'
    <2>1. CASE p = "shutdown"
      <3>1. buf["data"] = {} /\ \A w \in Writers : place[w] = "idle"
        BY <1>0, <1>6, <2>1 DEF ShutdownOrder
      <3>2. at[p] = "meta" => buf["meta"] = {}
        BY <1>0, <1>6, <2>1 DEF ShutdownOrder
      <3>3. \A w \in Writers : place'[w] = "idle"
        BY <1>6, <2>1, <3>1, ReturnedTo
      <3>4. CASE place'[p] = "swap" /\ at'[p] = "meta"
        BY <1>6, <2>1, <3>1, <3>3, <3>4 DEF ShutdownOrder
      <3>5. CASE place'[p] = "stop" /\ at'[p] = at[p] /\ (ok => at[p] = "meta")
        BY <1>6, <2>1, <3>1, <3>2, <3>3, <3>5 DEF ShutdownOrder
      <3> QED
        BY <1>6, <2>1, <3>4, <3>5, ReturnedTo
    <2>2. CASE p \in Writers
      <3>1. place["shutdown"] = "idle" /\ at["shutdown"] = "data"
        BY <1>6, <2>2 DEF ShutdownOrder
      <3>2. place'["shutdown"] = "idle" /\ at'["shutdown"] = "data"
        BY <1>6, <2>2, <3>1, ReturnedTo
      <3> QED
        BY <3>2 DEF ShutdownOrder
    <2>3. CASE p \in Bulk!Loops
      <3>1. place["shutdown"] # "down"
        BY <1>6, <2>3 DEF ShutdownOrder
      <3>2. /\ place'["shutdown"] = place["shutdown"] /\ at'["shutdown"] = at["shutdown"]
            /\ \A w \in Writers : place'[w] = place[w]
        BY <1>6, <2>3, ReturnedTo
      <3> QED
        BY <1>0, <1>6, <3>1, <3>2 DEF ShutdownOrder
    <2> QED
      BY <2>1, <2>2, <2>3
  <1>7. ASSUME NEW p \in Bulk!Flushers, Bulk!NothingToFlush(p)
        PROVE  ShutdownOrder'
    BY <1>6, <1>7 DEF Bulk!NothingToFlush, Bulk!sets
  <1>8. ASSUME NEW p \in Bulk!Flushers, Bulk!Cancelled(p)
        PROVE  ShutdownOrder'
    <2>1. Bulk!At(p, "send") /\ Bulk!Returned(p, FALSE) /\ UNCHANGED buf /\ troubles' = troubles + 1
      BY <1>8 DEF Bulk!Cancelled
    <2>2. troubles' > 0
      BY <1>0, <2>1
    <2> QED
      BY <1>6, <2>1, <2>2
  <1>9. ASSUME NEW p \in Bulk!Flushers, NEW refused \in SUBSET batch[p], Bulk!Send(p, refused)
        PROVE  ShutdownOrder'
    <2>1. /\ Bulk!At(p, "send") /\ Bulk!Returned(p, TRUE) /\ UNCHANGED buf
          /\ troubles' = troubles \/ troubles' = troubles + 1
      BY <1>9 DEF Bulk!Send
    <2>2. troubles' = 0 => troubles = 0
      BY <1>0, <2>1
    <2> QED
      BY <1>6, <2>1, <2>2
  <1>10. ASSUME NEW p \in Bulk!Flushers, NEW done \in {{}, batch[p]}, Bulk!SendFails(p, done)
         PROVE  ShutdownOrder'
    <2>1. /\ Bulk!At(p, "send") /\ UNCHANGED buf /\ troubles' = troubles + 1
          /\ (UNCHANGED <<place, at>>) \/ Bulk!Returned(p, FALSE)
      BY <1>10 DEF Bulk!SendFails
    <2>2. troubles' > 0
      BY <1>0, <2>1
    <2>3. CASE UNCHANGED <<place, at>>
      BY <1>0, <2>1, <2>2, <2>3 DEF ShutdownOrder
    <2>4. CASE Bulk!Returned(p, FALSE)
      BY <1>6, <2>1, <2>2, <2>4
    <2> QED
      BY <2>1, <2>3, <2>4
  <1>11. CASE UNCHANGED Bulk!vars
    BY <1>11 DEF ShutdownOrder, Bulk!vars, Bulk!sets
  <1> QED
    BY <1>1, <1>2, <1>3, <1>4, <1>5, <1>7, <1>8, <1>9, <1>10, <1>11 DEF Bulk!Next, Bulk!FlushStep

-----------------------------------------------------------------------------
\* Both buffers are empty at first, and nothing is under way.
LEMMA BulkInit ==
  ASSUME Bulk!Init
  PROVE  BulkInv
  <1>1. /\ buf \in [Bulk!Buffers -> SUBSET Points] /\ accepted \in [Bulk!Buffers -> SUBSET Points]
        /\ written \in [Bulk!Buffers -> SUBSET Points] /\ lost \in [Bulk!Buffers -> SUBSET Points]
        /\ seen \subseteq {KeyOf[d] : d \in Points}
    BY DEF Bulk!Init
  <1>2. place \in [Bulk!Flushers -> BulkPcs] /\ at \in [Bulk!Flushers -> Bulk!Buffers]
    BY DEF Bulk!Init
  <1>3. batch \in [Bulk!Flushers -> SUBSET Points] /\ tries \in [Bulk!Flushers -> 0..(MaxRetries + 1)]
    BY DEF Bulk!Init
  <1>4. point \in [Writers -> Points \cup {NULL}] /\ troubles \in 0..MaxFaults
    BY DEF Bulk!Init
  <1>5. Bulk!TypeOK
    BY <1>1, <1>2, <1>3, <1>4 DEF Bulk!TypeOK
  <1>6. PlacesOK /\ SendersHold
    BY DEF Bulk!Init, PlacesOK, SendersHold
  <1>7. Followed /\ ShutdownOrder
    BY DEF Bulk!Init, Followed, ShutdownOrder
  <1> QED
    BY <1>5, <1>6, <1>7 DEF BulkInv

\* The invariant holds in every state.
LEMMA BulkInvariance == Bulk!Spec => []BulkInv
  <1>1. Bulk!Init => BulkInv
    BY BulkInit
  <1>2. BulkInv /\ [Bulk!Next]_(Bulk!vars) => BulkInv'
    BY BulkTypeStep, PlacesStep, SendersStep, FollowedStep, ShutdownStep DEF BulkInv
  <1> QED
    BY <1>1, <1>2, PTL DEF Bulk!Spec

-----------------------------------------------------------------------------
(***************************************************************************)
(* What the buffers promise.                                                *)
(***************************************************************************)

\* Every state has its types (bulk_buffer.go, metric_writer.go): among others, no flush
\* is attempted more often than the configured retries allow.
THEOREM BulkTypeCorrect == Bulk!Spec => []Bulk!TypeOK
  <1>1. BulkInv => Bulk!TypeOK
    BY DEF BulkInv
  <1> QED
    BY BulkInvariance, <1>1, PTL

\* Every document that was added is buffered, in the batch of a flusher of its buffer,
\* in Elasticsearch, or dropped by a flush that said so (BulkBuffer.Add and Flush).
THEOREM NothingVanishesHolds == Bulk!Spec => []NothingVanishes
  <1>1. BulkInv => NothingVanishes
    <2> SUFFICES ASSUME BulkInv, NEW b \in Bulk!Buffers
                 PROVE  accepted[b] = buf[b] \cup written[b] \cup lost[b]
                                        \cup UNION {batch[p] : p \in {q \in Bulk!Flushers : at[q] = b}}
      BY DEF NothingVanishes, Bulk!NothingVanishes
    <2>1. /\ accepted[b] \subseteq Points /\ buf[b] \subseteq Points
          /\ written[b] \subseteq Points /\ lost[b] \subseteq Points
          /\ \A p \in Bulk!Flushers : batch[p] \subseteq Points
      BY DEF BulkInv, Bulk!TypeOK
    <2>2. \A d \in Points :
            d \in accepted[b] <=> \/ d \in buf[b] \/ d \in written[b] \/ d \in lost[b]
                                  \/ \E p \in Bulk!Flushers : at[p] = b /\ d \in batch[p]
      BY DEF BulkInv, Followed
    <2>3. \A d : d \in UNION {batch[p] : p \in {q \in Bulk!Flushers : at[q] = b}}
                   <=> \E p \in Bulk!Flushers : at[p] = b /\ d \in batch[p]
      OBVIOUS
    <2> QED
      BY <2>1, <2>2, <2>3
  <1> QED
    BY BulkInvariance, <1>1, PTL

\* When the provider is down, no flush is under way and no point is left in the data
\* buffer; metadata is left only after a flush has failed (MetricWriter.Flush, Stop).
THEOREM ShutdownFlushesHolds == Bulk!Spec => []ShutdownFlushes
  <1>1. BulkInv => ShutdownFlushes
    <2> SUFFICES ASSUME BulkInv, Bulk!At("shutdown", "down")
                 PROVE  /\ buf["data"] = {} /\ \A p \in Bulk!Flushers : batch[p] = {}
                        /\ troubles = 0 => buf["meta"] = {}
      BY DEF ShutdownFlushes, Bulk!ShutdownFlushes
    <2>1. \A p \in Bulk!Flushers : place[p] # "send"
      BY DEF BulkInv, ShutdownOrder
    <2> QED
      BY <2>1 DEF BulkInv, SendersHold, ShutdownOrder
  <1> QED
    BY BulkInvariance, <1>1, PTL

==============================================================================
