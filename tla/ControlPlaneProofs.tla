-------------------------- MODULE ControlPlaneProofs --------------------------
(***************************************************************************)
(* Parts of the control plane.                                               *)
(*                                                                         *)
(* The cache of the agent statistics, for any number of readers and writers: at *)
(* most one refresh is under way, and a valid cache misses a write whose          *)
(* operation has returned only if a refresh that had read before it filled the     *)
(* cache.  Writes beneath the cache come at any time.  A refresh carries what it   *)
(* read across the unlocked part of refreshStats: at first that is the newest      *)
(* write of all, and an operation that returns later, of a write it has missed,    *)
(* marks it as overtaken.                                                     *)
(*                                                                         *)
(* The gates of the stale task reaper (Gate), for any durations of which the       *)
(* breaker's reset is no longer than the longest backoff: a run of skipped ticks   *)
(* takes no longer than that backoff.  It is proved by counting the time since     *)
(* the last failure in skipped ticks.                                         *)
(*                                                                         *)
(* An Arthas session of the MCP server (Mcp), for any number of calls, retries   *)
(* and faults: a session that was closed or has failed is not brought back, in    *)
(* whatever order the answers of its calls come.  The types are all it takes:    *)
(* what decides is that each operation looks at the record before it writes it.   *)
(***************************************************************************)
EXTENDS ControlPlane, TLAPS

(***************************************************************************)
(* The cache of the agent statistics                                         *)
(***************************************************************************)
Pcs == {"idle", "enter", "wait", "woken", "fetch", "store"}

Refreshes(r) == pc[r] \in {"fetch", "store"}

\* statsRefreshing is the lock of the one refresh under way.
OneRefresh ==
  /\ \A r \in Readers : Refreshes(r) => refreshing
  /\ \A r, q \in Readers : Refreshes(r) /\ Refreshes(q) => r = q

\* A refresh that is not overtaken has read every write whose operation has returned.
ReadIsCurrent ==
  \A r \in Readers : got[r] # NULL /\ r \notin overtaken => got[r] >= done

IInv == TypeOK /\ OneRefresh /\ ReadIsCurrent /\ CacheMissesNoWrite

USE StatsBounds, NullIsNoVersion
DEF Pcs, At, Goto

-----------------------------------------------------------------------------
\* The cache is invalid at first, and nobody refreshes it.
LEMMA InitInv ==
  ASSUME Init
  PROVE  IInv
  <1>1. /\ version \in 0..MaxWrites /\ done \in 0..version /\ cached \in 0..MaxWrites
        /\ wrote \in [Writers -> 0..version] /\ overtaken \subseteq Readers
        /\ errors \in 0..MaxErrors /\ expiries \in 0..MaxExpiries
    BY DEF Init
  <1>2. pc \in [Readers -> Pcs] /\ got \in [Readers -> 0..MaxWrites \cup {NULL}]
    BY DEF Init
  <1>3. valid \in BOOLEAN /\ refreshing \in BOOLEAN /\ suspect \in BOOLEAN
    BY DEF Init
  <1>4. TypeOK
    BY <1>1, <1>2, <1>3 DEF TypeOK
  <1>5. OneRefresh /\ ReadIsCurrent /\ CacheMissesNoWrite
    BY DEF Init, OneRefresh, Refreshes, ReadIsCurrent, CacheMissesNoWrite
  <1> QED
    BY <1>4, <1>5 DEF IInv

\* Every step keeps the types.
LEMMA TypeStep ==
  ASSUME TypeOK, [Next]_vars
  PROVE  TypeOK'
  <1>1. ASSUME NEW r \in Readers, Miss(r)
        PROVE  TypeOK'
    <2>1. pc' \in [Readers -> Pcs]
      BY <1>1 DEF TypeOK, Miss, shared
    <2>2. UNCHANGED <<version, done, cached, valid, refreshing, got, wrote, overtaken, suspect,
                      errors, expiries>>
      BY <1>1 DEF Miss, shared
    <2> QED BY <2>1, <2>2 DEF TypeOK
  <1>2. ASSUME NEW r \in Readers, Decide(r)
        PROVE  TypeOK'
    <2>1. pc' \in [Readers -> Pcs]
      BY <1>2 DEF TypeOK, Decide
    <2>2. refreshing' \in BOOLEAN
      BY <1>2 DEF TypeOK, Decide
    <2>3. UNCHANGED <<version, done, cached, valid, got, wrote, overtaken, suspect, errors, expiries>>
      BY <1>2 DEF Decide
    <2> QED BY <2>1, <2>2, <2>3 DEF TypeOK
  <1>3. ASSUME NEW r \in Readers, Fetch(r)
        PROVE  TypeOK'
    <2>1. pc' \in [Readers -> Pcs]
      BY <1>3 DEF TypeOK, Fetch, shared
    <2>2. got' \in [Readers -> 0..MaxWrites \cup {NULL}]
      BY <1>3 DEF TypeOK, Fetch, shared
    <2>3. overtaken' \subseteq Readers
      BY <1>3 DEF TypeOK, Fetch, shared
    <2>4. UNCHANGED <<version, done, cached, valid, refreshing, wrote, suspect, errors, expiries>>
      BY <1>3 DEF Fetch, shared
    <2> QED BY <2>1, <2>2, <2>3, <2>4 DEF TypeOK
  <1>4. ASSUME NEW r \in Readers, FetchFails(r)
        PROVE  TypeOK'
    <2>1. pc' \in [Readers -> Pcs]
      BY <1>4 DEF TypeOK, FetchFails
    <2>2. got' \in [Readers -> 0..MaxWrites \cup {NULL}]
      BY <1>4 DEF TypeOK, FetchFails
    <2>3. errors' \in 0..MaxErrors
      BY <1>4 DEF TypeOK, FetchFails
    <2>4. UNCHANGED <<version, done, cached, valid, refreshing, wrote, overtaken, suspect, expiries>>
      BY <1>4 DEF FetchFails
    <2> QED BY <2>1, <2>2, <2>3, <2>4 DEF TypeOK
  <1>5. ASSUME NEW r \in Readers, Store(r)
        PROVE  TypeOK'
    <2>1. pc' \in [Readers -> Pcs]
      BY <1>5 DEF TypeOK, Store
    <2>2. got' \in [Readers -> 0..MaxWrites \cup {NULL}]
      BY <1>5 DEF TypeOK, Store
    <2>3. cached' \in 0..MaxWrites
      BY <1>5 DEF TypeOK, Store
    <2>4. valid' \in BOOLEAN
      BY <1>5 DEF TypeOK, Store
    <2>5. suspect' \in BOOLEAN
      <3>1. UNCHANGED suspect \/ suspect' = (r \in overtaken)
        BY <1>5 DEF Store
      <3>2. suspect \in BOOLEAN /\ (r \in overtaken) \in BOOLEAN
        BY DEF TypeOK
      <3> QED BY <3>1, <3>2
    <2>6. overtaken' \subseteq Readers
      BY <1>5 DEF TypeOK, Store
    <2>7. refreshing' \in BOOLEAN
      BY <1>5 DEF TypeOK, Store
    <2>8. UNCHANGED <<version, done, wrote, errors, expiries>>
      BY <1>5 DEF Store
    <2> QED BY <2>1, <2>2, <2>3, <2>4, <2>5, <2>6, <2>7, <2>8 DEF TypeOK
  <1>6. ASSUME NEW w \in Writers, Write(w)
        PROVE  TypeOK'
    <2>1. version' \in 0..MaxWrites
      BY <1>6 DEF TypeOK, Write
    <2>2. done' \in 0..version' /\ wrote' \in [Writers -> 0..version']
      BY <1>6 DEF TypeOK, Write
    <2>3. UNCHANGED <<cached, valid, refreshing, pc, got, overtaken, suspect, errors, expiries>>
      BY <1>6 DEF Write
    <2> QED BY <2>1, <2>2, <2>3 DEF TypeOK
  <1>7. ASSUME NEW w \in Writers, Invalidate(w)
        PROVE  TypeOK'
    <2>1. valid' \in BOOLEAN
      BY <1>7 DEF TypeOK, Invalidate, Invalidated
    <2>2. done' \in 0..version' /\ wrote' \in [Writers -> 0..version']
      BY <1>7 DEF TypeOK, Invalidate
    <2>3. overtaken' \subseteq Readers
      BY <1>7 DEF TypeOK, Invalidate, Invalidated
    <2>4. UNCHANGED <<version, cached, refreshing, pc, got, suspect, errors, expiries>>
      BY <1>7 DEF Invalidate, Invalidated
    <2> QED BY <2>1, <2>2, <2>3, <2>4 DEF TypeOK
  <1>8. CASE Elapse
    <2>1. valid' \in BOOLEAN
      BY <1>8 DEF TypeOK, Elapse
    <2>2. expiries' \in 0..MaxExpiries
      BY <1>8 DEF TypeOK, Elapse
    <2>3. UNCHANGED <<version, done, cached, refreshing, pc, got, wrote, overtaken, suspect, errors>>
      BY <1>8 DEF Elapse
    <2> QED BY <2>1, <2>2, <2>3 DEF TypeOK
  <1>9. CASE WriteBeneath
    <2>1. version' \in 0..MaxWrites
      BY <1>9 DEF TypeOK, WriteBeneath
    <2>2. done' \in 0..version' /\ wrote' \in [Writers -> 0..version']
      BY <1>9 DEF TypeOK, WriteBeneath
    <2>3. UNCHANGED <<cached, valid, refreshing, pc, got, overtaken, suspect, errors, expiries>>
      BY <1>9 DEF WriteBeneath
    <2> QED BY <2>1, <2>2, <2>3 DEF TypeOK
  <1>10. CASE UNCHANGED vars
    BY <1>10 DEF TypeOK, vars, shared
  <1> QED
    BY <1>1, <1>2, <1>3, <1>4, <1>5, <1>6, <1>7, <1>8, <1>9, <1>10 DEF Next, Step

\* A reader starts a refresh only when none is under way (Decide, under the lock).
LEMMA OneRefreshStep ==
  ASSUME TypeOK, OneRefresh, [Next]_vars
  PROVE  OneRefresh'
  <1>0. pc \in [Readers -> Pcs]
    BY DEF TypeOK
  <1>1. ASSUME NEW r \in Readers, Miss(r)
        PROVE  OneRefresh'
    BY <1>0, <1>1 DEF OneRefresh, Refreshes, Miss, shared
  <1>2. ASSUME NEW r \in Readers, Decide(r)
        PROVE  OneRefresh'
    <2>1. CASE ~valid /\ ~refreshing
      <3>1. /\ refreshing' /\ \A q \in Readers : Refreshes(q)' => q = r
        BY <1>0, <1>2, <2>1 DEF OneRefresh, Refreshes, Decide, MustWait
      <3> QED
        BY <3>1 DEF OneRefresh
    <2>2. CASE ~(~valid /\ ~refreshing)
      <3>1. \A q \in Readers : Refreshes(q)' => Refreshes(q)
        BY <1>0, <1>2, <2>2 DEF Refreshes, Decide, MustWait
      <3>2. refreshing => refreshing'
        BY <1>2 DEF Decide
      <3> QED
        BY <3>1, <3>2 DEF OneRefresh
    <2> QED
      BY <2>1, <2>2
  <1>3. ASSUME NEW r \in Readers, Fetch(r) \/ FetchFails(r)
        PROVE  OneRefresh'
    <2>1. UNCHANGED refreshing /\ \A q \in Readers : Refreshes(q)' => Refreshes(q)
      BY <1>0, <1>3 DEF Refreshes, Fetch, FetchFails, shared
    <2> QED
      BY <2>1 DEF OneRefresh
  <1>4. ASSUME NEW r \in Readers, Store(r)
        PROVE  OneRefresh'
    <2>1. \A q \in Readers : ~Refreshes(q)'
      BY <1>0, <1>4 DEF OneRefresh, Refreshes, Store, Woken
    <2> QED
      BY <2>1 DEF OneRefresh
  <1>5. ASSUME UNCHANGED <<pc, refreshing>>
        PROVE  OneRefresh'
    BY <1>5 DEF OneRefresh, Refreshes
  <1> QED
    BY <1>1, <1>2, <1>3, <1>4, <1>5 DEF Next, Step, Write, WriteBeneath, Invalidate, Elapse, vars, shared

\* An operation that returns has marked every refresh that missed its write.
LEMMA ReadIsCurrentStep ==
  ASSUME TypeOK, ReadIsCurrent, [Next]_vars
  PROVE  ReadIsCurrent'
  <1>0. /\ got \in [Readers -> 0..MaxWrites \cup {NULL}] /\ overtaken \subseteq Readers
        /\ version \in Nat /\ done \in 0..version
    BY DEF TypeOK
  <1>1. ASSUME NEW r \in Readers, Fetch(r)
        PROVE  ReadIsCurrent'
    BY <1>0, <1>1 DEF ReadIsCurrent, Fetch, shared
  <1>2. ASSUME NEW r \in Readers, FetchFails(r)
        PROVE  ReadIsCurrent'
    BY <1>0, <1>2 DEF ReadIsCurrent, FetchFails
  <1>3. ASSUME NEW r \in Readers, Store(r)
        PROVE  ReadIsCurrent'
    BY <1>0, <1>3 DEF ReadIsCurrent, Store
  <1>4. ASSUME NEW w \in Writers, Invalidate(w)
        PROVE  ReadIsCurrent'
    <2>1. ASSUME NEW r \in Readers, got'[r] # NULL, r \notin overtaken'
          PROVE  got'[r] >= done'
      <3>1. /\ got' = got /\ r \notin overtaken
            /\ overtaken' = overtaken
                 \cup {q \in Readers : got[q] # NULL /\ got[q] < wrote[w]}
            /\ done' = IF done < wrote[w] THEN wrote[w] ELSE done
        BY <1>4, <2>1 DEF Invalidate
      <3>2. got[r] \in Nat /\ wrote[w] \in Nat
        BY <1>0, <2>1, <3>1 DEF TypeOK
      <3>3. got[r] >= done /\ ~(got[r] < wrote[w])
        BY <2>1, <3>1 DEF ReadIsCurrent
      <3> QED
        BY <1>0, <3>1, <3>2, <3>3
    <2> QED
      BY <2>1 DEF ReadIsCurrent
  <1>5. ASSUME UNCHANGED <<got, overtaken, done>>
        PROVE  ReadIsCurrent'
    BY <1>5 DEF ReadIsCurrent
  <1> QED
    BY <1>1, <1>2, <1>3, <1>4, <1>5
       DEF Next, Step, Miss, Decide, Write, WriteBeneath, Elapse, vars, shared

\* What fills the cache is not older than the last write whose operation has returned.
LEMMA CacheStep ==
  ASSUME TypeOK, ReadIsCurrent, CacheMissesNoWrite, [Next]_vars
  PROVE  CacheMissesNoWrite'
  <1>1. ASSUME NEW r \in Readers, Store(r)
        PROVE  CacheMissesNoWrite'
    <2>1. CASE got[r] = NULL
      BY <1>1, <2>1 DEF CacheMissesNoWrite, Store
    <2>2. CASE got[r] # NULL
      <3>1. cached' = got[r] /\ done' = done /\ suspect' = (r \in overtaken)
        BY <1>1, <2>2 DEF Store
      <3> QED
        BY <1>1, <2>2, <3>1 DEF ReadIsCurrent, CacheMissesNoWrite
    <2> QED
      BY <2>1, <2>2
  <1>2. ASSUME NEW w \in Writers, Invalidate(w)
        PROVE  CacheMissesNoWrite'
    BY <1>2 DEF CacheMissesNoWrite, Invalidate, Invalidated
  <1>3. CASE Elapse
    BY <1>3 DEF CacheMissesNoWrite, Elapse
  <1>4. ASSUME UNCHANGED <<done, cached, valid, suspect>>
        PROVE  CacheMissesNoWrite'
    BY <1>4 DEF CacheMissesNoWrite
  <1> QED
    BY <1>1, <1>2, <1>3, <1>4
       DEF Next, Step, Miss, Decide, Fetch, FetchFails, Write, WriteBeneath, vars, shared

\* The invariant holds in every state.
LEMMA Invariance == Spec => []IInv
  <1>1. Init => IInv
    BY InitInv
  <1>2. IInv /\ [Next]_vars => IInv'
    BY TypeStep, OneRefreshStep, ReadIsCurrentStep, CacheStep DEF IInv
  <1> QED
    BY <1>1, <1>2, PTL DEF Spec

-----------------------------------------------------------------------------
\* Readers that miss the cache together refresh it once (refreshStats): of all that
\* wait, fetch or store, one at most is between its unlock and its broadcast.
THEOREM OneRefreshHolds == Spec => []OneRefresh
  <1>1. IInv => OneRefresh
    BY DEF IInv
  <1> QED
    BY Invariance, <1>1, PTL

\* A valid cache misses a write whose operation through the cache has returned only if it
\* was filled by a refresh that had read the registry before that write, whatever is
\* written beneath the cache (InvalidateStatsCache against refreshStats).
THEOREM CacheMissesNoWriteHolds == Spec => []CacheMissesNoWrite
  <1>1. IInv => CacheMissesNoWrite
    BY DEF IInv
  <1> QED
    BY Invariance, <1>1, PTL

(***************************************************************************)
(* The gates of the reaper                                                   *)
(***************************************************************************)
\* The ticks that were skipped have taken their time since the failure.
TimePasses ==
  /\ since \in Int /\ streak \in Nat /\ skipped \in Nat
  /\ delay \in Int /\ delay <= MaxDelay
  /\ streak = 0 => circuit = "closed" /\ skipped = 0
  /\ streak # 0 => since >= Gate!LongAgo \/ since + ScanTimeout >= (skipped + 1) * ScanInterval
  /\ Gate!ReaperComesBack

\* A backoff delay is never longer than MaxDelay, however often the reaper has failed.
LEMMA DelayIsCapped ==
  ASSUME NEW n \in Nat, n > 0
  PROVE  Gate!Delay(n) \in Int /\ Gate!Delay(n) <= MaxDelay
  <1>1. Gate!Smaller(n, 7) \in 1..7
    BY DEF Gate!Smaller
  <1>2. Gate!Shifted(n) \in Nat
    BY <1>1 DEF Gate!Shifted
  <1>3. BaseDelay * Gate!Shifted(n) \in Int
    BY <1>2, GateDurations
  <1> QED
    BY <1>3, GateDurations DEF Gate!Delay, Gate!Smaller

\* The circuit is closed at first, and nothing has failed.
LEMMA GateInit ==
  ASSUME Gate!Init
  PROVE  TimePasses
  BY GateDurations DEF Gate!Init, TimePasses, Gate!LongAgo, Gate!ReaperComesBack

\* A failed scan starts the delay, and each tick that is skipped uses up some of it.
LEMMA GateStep ==
  ASSUME TimePasses, [Gate!Next]_(Gate!vars)
  PROVE  TimePasses'
  <1>0. /\ since \in Int /\ streak \in Nat /\ skipped \in Nat
        /\ delay \in Int /\ delay <= MaxDelay
        /\ streak = 0 => circuit = "closed" /\ skipped = 0
        /\ streak # 0 => since >= Gate!LongAgo \/ since + ScanTimeout >= (skipped + 1) * ScanInterval
        /\ Gate!ReaperComesBack
    BY DEF TimePasses
  <1>1. /\ ScanInterval \in Nat /\ ScanTimeout \in Nat /\ MaxLateness \in Nat
        /\ MaxDelay \in Nat /\ ResetTimeout \in Nat
        /\ 0 < MaxDelay /\ ResetTimeout <= MaxDelay /\ Gate!LongAgo = MaxDelay + ResetTimeout
    BY GateDurations DEF Gate!LongAgo
  \* A tick is skipped before MaxDelay is over only.
  <1>2. CASE Gate!Skips
    <2>1. streak # 0 /\ since < MaxDelay
      BY <1>0, <1>1, <1>2 DEF Gate!Skips, Gate!ShouldWait, Gate!Allowed
    <2>2. since + ScanTimeout >= (skipped + 1) * ScanInterval
      BY <1>0, <1>1, <2>1
    <2>3. /\ skipped' = skipped + 1 /\ skipped' \in Nat
          /\ UNCHANGED <<delay, streak, circuit>>
      BY <1>0, <1>2 DEF Gate!Skips
    <2>4. skipped' * ScanInterval < MaxDelay + ScanTimeout
      BY <1>0, <1>1, <2>1, <2>2, <2>3
    <2>5. PICK late \in 0..MaxLateness : since' = Gate!Smaller(since + ScanInterval + late, Gate!LongAgo)
      BY <1>2 DEF Gate!Skips, Gate!Wakes
    <2>6. since' \in Int /\ (since' >= Gate!LongAgo \/ since' >= since + ScanInterval)
      BY <1>0, <1>1, <2>5 DEF Gate!Smaller
    <2>7. (skipped' + 1) * ScanInterval = (skipped + 1) * ScanInterval + ScanInterval
      BY <1>0, <1>1, <2>3
    <2>8. (skipped + 1) * ScanInterval \in Int
      BY <1>0, <1>1
    <2>9. since' >= Gate!LongAgo \/ since' + ScanTimeout >= (skipped' + 1) * ScanInterval
      BY <1>0, <1>1, <2>2, <2>6, <2>7, <2>8
    <2>10. Gate!LongAgo' = Gate!LongAgo
      BY DEF Gate!LongAgo
    <2> QED
      BY <1>0, <2>1, <2>3, <2>4, <2>6, <2>9, <2>10 DEF TimePasses, Gate!ReaperComesBack
  <1>3. CASE Gate!ScanFails
    <2>1. PICK took \in 0..ScanTimeout :
            \E late \in 0..MaxLateness : since' = Gate!Smaller(-took + ScanInterval + late, Gate!LongAgo)
      BY <1>3 DEF Gate!ScanFails, Gate!Wakes
    <2>2. since' \in Int /\ (since' >= Gate!LongAgo \/ since' + ScanTimeout >= ScanInterval)
      BY <1>1, <2>1 DEF Gate!Smaller
    <2>3. skipped' = 0 /\ delay' = Gate!Delay(streak + 1)
      BY <1>3 DEF Gate!ScanFails
    <2>4. streak' \in Nat /\ streak' # 0
      BY <1>0, <1>3, GateDurations DEF Gate!ScanFails, Gate!Smaller, Gate!MaxStreak
    <2>5. delay' \in Int /\ delay' <= MaxDelay
      BY <1>0, <2>3, DelayIsCapped
    <2>6. (0 + 1) * ScanInterval = ScanInterval /\ 0 * ScanInterval = 0 /\ Gate!LongAgo' = Gate!LongAgo
      BY <1>1 DEF Gate!LongAgo
    <2>7. Gate!ReaperComesBack'
      BY <1>1, <2>3, <2>6 DEF Gate!ReaperComesBack
    <2>8. since' >= Gate!LongAgo' \/ since' + ScanTimeout >= (skipped' + 1) * ScanInterval
      BY <2>2, <2>3, <2>6
    <2> QED
      BY <2>2, <2>3, <2>4, <2>5, <2>7, <2>8 DEF TimePasses
  <1>4. CASE Gate!Scans
    <2>1. 0 * ScanInterval = 0
      BY <1>1
    <2> QED
      BY <1>1, <1>4, <2>1 DEF TimePasses, Gate!Scans, Gate!ReaperComesBack, Gate!LongAgo
  <1>5. CASE UNCHANGED Gate!vars
    BY <1>0, <1>5 DEF TimePasses, Gate!ReaperComesBack, Gate!LongAgo, Gate!vars
  <1> QED
    BY <1>2, <1>3, <1>4, <1>5 DEF Gate!Next

-----------------------------------------------------------------------------
\* However long the store has been failing, and whatever the breaker and the backoff
\* have learnt from it: the reaper scans again no later than MaxDelay, and the time of
\* the scan that failed, after the failure (scanOptimized, Backoff, CircuitBreaker).
THEOREM ReaperComesBackHolds == Gate!Spec => []ReaperComesBack
  <1>1. Gate!Init => TimePasses
    BY GateInit
  <1>2. TimePasses /\ [Gate!Next]_(Gate!vars) => TimePasses'
    BY GateStep
  <1>3. TimePasses => ReaperComesBack
    BY DEF TimePasses, ReaperComesBack
  <1> QED
    BY <1>1, <1>2, <1>3, PTL DEF Gate!Spec

-----------------------------------------------------------------------------
(***************************************************************************)
(* Sessions of the MCP server                                                *)
(***************************************************************************)
Record == [state : Mcp!States, sid : Mcp!Remotes \cup {NULL}, task : Mcp!Tasks \cup {NULL}]

\* The types, in three parts: the session, its calls, and the agent's part of them.  What
\* a call has seen is a whole record, which a close that fails writes back.
RecordOK == session \in Record

CallsOK ==
  /\ expired \in BOOLEAN /\ kind \in [Others -> Mcp!Kinds \cup {NULL}]
  /\ place \in [Mcp!Calls -> {"start", "submit", "set", "wait", "done"}]
  /\ try \in [Mcp!Calls -> Mcp!Tries]
  /\ seen \in [Mcp!Calls -> Record]
  /\ troubles \in 0..MaxTroubles

AgentOK ==
  /\ queue \subseteq Mcp!Tasks
  /\ result \in [Mcp!Calls -> {NULL, "success", "more", "not_found", "failed"}]
  /\ remotes \subseteq Mcp!Remotes /\ job \in [Mcp!Remotes -> Mcp!Tasks \cup {NULL}]

McpInv == RecordOK /\ CallsOK /\ AgentOK

USE SessionBounds

\* The task of a call's attempt; that of an open names a remote session.
LEMMA TaskOfCall ==
  ASSUME CallsOK, NEW c \in Mcp!Calls
  PROVE  Mcp!Task(c) \in Mcp!Tasks /\ (c \in Opens => Mcp!Task(c) \in Mcp!Remotes)
  BY DEF CallsOK, Mcp!Task, Mcp!Tasks, Mcp!Remotes, Mcp!Calls

\* What the operations of the session manager make of the record is a record.
LEMMA OperationsKeepRecord ==
  ASSUME RecordOK
  PROVE  Mcp!Idled \in Record /\ Mcp!Closed \in Record /\ Mcp!Failed \in Record
  BY DEF RecordOK, Record, Mcp!States, Mcp!Idled, Mcp!Closed, Mcp!Failed

\* So is what they make of it for the task of a call.
LEMMA OperationsEnterTask ==
  ASSUME RecordOK, NEW t \in Mcp!Tasks
  PROVE  Mcp!Executing(t) \in Record /\ Mcp!Closing(t) \in Record
  BY DEF RecordOK, Record, Mcp!States, Mcp!Executing, Mcp!Closing

\* An open gives it its remote session.
LEMMA ActivatedIsRecord ==
  ASSUME RecordOK, NEW s \in Mcp!Remotes
  PROVE  Mcp!Activated(s) \in Record
  BY DEF RecordOK, Record, Mcp!States, Mcp!Activated

\* No call has begun at first.
LEMMA McpInit ==
  ASSUME Mcp!Init
  PROVE  McpInv
  <1>1. RecordOK
    BY DEF Mcp!Init, RecordOK, Record, Mcp!States
  <1>2. CallsOK
    <2>1. expired \in BOOLEAN
      BY DEF Mcp!Init
    <2> QED
      BY <1>1, <2>1 DEF Mcp!Init, CallsOK, RecordOK, Mcp!Tries
  <1>3. AgentOK
    BY DEF Mcp!Init, AgentOK
  <1> QED
    BY <1>1, <1>2, <1>3 DEF McpInv

\* What a call that fails in the end makes of it: the close that fails restores what it
\* has seen.
LEMMA EndedIsRecord ==
  ASSUME RecordOK, CallsOK, NEW c \in Mcp!Calls
  PROVE  Mcp!Ended(c) \in Record
  <1>1. Mcp!Restored(seen[c]) \in Record
    BY DEF RecordOK, CallsOK, Record, Mcp!States, Mcp!Restored
  <1>2. session \in Record
    BY DEF RecordOK
  <1> QED
    BY <1>1, <1>2, OperationsKeepRecord DEF Mcp!Ended

\* Another attempt leaves the record alone.
LEMMA FailsKeepsRecord ==
  ASSUME RecordOK, NEW c, NEW ended \in Record, Mcp!Fails(c, ended)
  PROVE  RecordOK'
  BY DEF RecordOK, Mcp!Fails

\* Whatever a call or the reaper does, the record stays one.
LEMMA McpRecordStep ==
  ASSUME RecordOK, CallsOK, Mcp!Next
  PROVE  RecordOK'
  <1>0. session \in Record /\ \A x \in Mcp!States : [session EXCEPT !.state = x] \in Record
    BY DEF RecordOK, Record
  <1>1. ASSUME NEW c \in Mcp!Calls, Mcp!OpenSession(c)
        PROVE  RecordOK'
    BY <1>0, <1>1 DEF Mcp!OpenSession, RecordOK, Mcp!States
  <1>2. ASSUME NEW c \in Mcp!Calls,
               Mcp!ExecuteAsync(c) \/ Mcp!PullResults(c) \/ Mcp!Interrupt(c) \/ Mcp!CloseSession(c)
        PROVE  RecordOK'
    BY <1>0, <1>2, OperationsKeepRecord
       DEF Mcp!ExecuteAsync, Mcp!PullResults, Mcp!Interrupt, Mcp!CloseSession, RecordOK
  <1>3. ASSUME NEW c \in Mcp!Calls, Mcp!Set(c)
        PROVE  RecordOK'
    BY <1>3, TaskOfCall, OperationsEnterTask DEF Mcp!Set, RecordOK
  <1>4. ASSUME NEW c \in Mcp!Calls, Mcp!SubmitFails(c) \/ Mcp!WaitFails(c) \/ Mcp!TaskFailed(c)
        PROVE  RecordOK'
    <2>1. PICK ended \in Record : Mcp!Fails(c, ended)
      BY <1>0, <1>4, OperationsKeepRecord, EndedIsRecord
         DEF Mcp!SubmitFails, Mcp!WaitFails, Mcp!TaskFailed
    <2> QED
      BY <2>1, FailsKeepsRecord
  <1>5. ASSUME NEW c \in Mcp!Calls, Mcp!Succeeds(c)
        PROVE  RecordOK'
    <2>1. CASE c \in Opens /\ ~Mcp!Live
      BY <1>5, <2>1, OperationsKeepRecord, FailsKeepsRecord DEF Mcp!Succeeds
    <2>2. CASE c \in Opens /\ Mcp!Live
      BY <1>5, <2>2, TaskOfCall, ActivatedIsRecord DEF Mcp!Succeeds, RecordOK
    <2>3. CASE c \notin Opens
      BY <1>0, <1>5, <2>3, OperationsKeepRecord DEF Mcp!Succeeds, RecordOK
    <2> QED
      BY <2>1, <2>2, <2>3
  <1>6. ASSUME NEW c \in Mcp!Calls, Mcp!RemoteIsGone(c)
        PROVE  RecordOK'
    BY <1>6, OperationsKeepRecord DEF Mcp!RemoteIsGone, RecordOK
  <1>7. ASSUME UNCHANGED session
        PROVE  RecordOK'
    BY <1>0, <1>7 DEF RecordOK
  <1>8. CASE Mcp!Reap
    BY <1>0, <1>8 DEF Mcp!Reap, RecordOK, Mcp!States
  <1>9. ASSUME NEW c \in Mcp!Calls, Mcp!Submit(c) \/ Mcp!Cancelled(c)
        PROVE  RecordOK'
    BY <1>7, <1>9 DEF Mcp!Submit, Mcp!Cancelled
  <1>10. ASSUME NEW t \in Mcp!Tasks, Mcp!Execute(t) \/ Mcp!ExecuteFails(t)
         PROVE  RecordOK'
    BY <1>7, <1>10 DEF Mcp!Execute, Mcp!ExecuteFails
  <1>11. ASSUME NEW s \in Mcp!Remotes, Mcp!JobEnds(s) \/ Mcp!RemoteEnds(s)
         PROVE  RecordOK'
    BY <1>7, <1>11 DEF Mcp!JobEnds, Mcp!RemoteEnds
  <1>12. CASE Mcp!Expires
    BY <1>7, <1>12 DEF Mcp!Expires
  <1> QED
    BY <1>1, <1>2, <1>3, <1>4, <1>5, <1>6, <1>8, <1>9, <1>10, <1>11, <1>12
       DEF Mcp!Next, Mcp!Begins, Mcp!GoesOn

\* The calls, whose attempts are counted to MaxRetries.
LEMMA FailsKeepsCalls ==
  ASSUME NEW c \in Mcp!Calls, NEW ended, Mcp!Fails(c, ended),
         place \in [Mcp!Calls -> {"start", "submit", "set", "wait", "done"}],
         try \in [Mcp!Calls -> Mcp!Tries]
  PROVE  /\ place' \in [Mcp!Calls -> {"start", "submit", "set", "wait", "done"}]
         /\ try' \in [Mcp!Calls -> Mcp!Tries]
  BY DEF Mcp!Fails, Mcp!Goto, Mcp!Tries

\* Whatever happens, a call is at one of its places and has seen a record.
LEMMA McpCallsStep ==
  ASSUME RecordOK, CallsOK, Mcp!Next
  PROVE  CallsOK'
  <1> USE DEF CallsOK, Mcp!Goto
  <1>0. session \in Record
    BY DEF RecordOK
  <1>1. ASSUME NEW c \in Mcp!Calls, NEW ok, Mcp!Validates(c, ok), UNCHANGED kind
        PROVE  CallsOK'
    BY <1>0, <1>1 DEF Mcp!Validates
  <1>2. ASSUME NEW c \in Mcp!Calls, NEW ok, Mcp!Validates(c, ok),
               NEW k \in Mcp!Kinds, Mcp!Uses(c, k)
        PROVE  CallsOK'
    BY <1>0, <1>2 DEF Mcp!Validates, Mcp!Uses
  <1>3. ASSUME NEW c \in Mcp!Calls, Mcp!OpenSession(c)
        PROVE  CallsOK'
    BY <1>1, <1>3 DEF Mcp!OpenSession
  <1>4. ASSUME NEW c \in Mcp!Calls,
               Mcp!ExecuteAsync(c) \/ Mcp!PullResults(c) \/ Mcp!Interrupt(c) \/ Mcp!CloseSession(c)
        PROVE  CallsOK'
    <2>1. PICK k \in Mcp!Kinds : Mcp!Uses(c, k)
      BY <1>4 DEF Mcp!ExecuteAsync, Mcp!PullResults, Mcp!Interrupt, Mcp!CloseSession, Mcp!Kinds
    <2>2. PICK ok : Mcp!Validates(c, ok)
      BY <1>4 DEF Mcp!ExecuteAsync, Mcp!PullResults, Mcp!Interrupt, Mcp!CloseSession
    <2> QED
      BY <1>2, <2>1, <2>2
  <1>5. ASSUME NEW c \in Mcp!Calls,
               Mcp!Submit(c) \/ Mcp!Set(c) \/ Mcp!RemoteIsGone(c) \/ Mcp!Cancelled(c)
        PROVE  CallsOK'
    BY <1>5 DEF Mcp!Submit, Mcp!Set, Mcp!RemoteIsGone, Mcp!Cancelled
  <1>6. ASSUME NEW c \in Mcp!Calls, NEW ended, Mcp!Fails(c, ended),
               UNCHANGED <<expired, kind, seen>>, troubles' \in 0..MaxTroubles
        PROVE  CallsOK'
    BY <1>6, FailsKeepsCalls
  <1>7. ASSUME NEW c \in Mcp!Calls, Mcp!SubmitFails(c) \/ Mcp!WaitFails(c) \/ Mcp!TaskFailed(c)
        PROVE  CallsOK'
    <2>1. /\ UNCHANGED <<expired, kind, seen>> /\ troubles' \in 0..MaxTroubles
          /\ \E ended : Mcp!Fails(c, ended)
      BY <1>7 DEF Mcp!SubmitFails, Mcp!WaitFails, Mcp!TaskFailed, Mcp!Trouble
    <2> QED
      BY <1>6, <2>1
  <1>8. ASSUME NEW c \in Mcp!Calls, Mcp!Succeeds(c)
        PROVE  CallsOK'
    <2>1. CASE c \in Opens /\ ~Mcp!Live
      BY <1>6, <1>8, <2>1 DEF Mcp!Succeeds
    <2>2. CASE ~(c \in Opens /\ ~Mcp!Live)
      BY <1>8, <2>2 DEF Mcp!Succeeds
    <2> QED
      BY <2>1, <2>2
  <1>9. ASSUME NEW t \in Mcp!Tasks, Mcp!Execute(t) \/ Mcp!ExecuteFails(t)
        PROVE  CallsOK'
    BY <1>9 DEF Mcp!Execute, Mcp!ExecuteFails, Mcp!Trouble
  <1>10. ASSUME NEW s \in Mcp!Remotes, Mcp!JobEnds(s) \/ Mcp!RemoteEnds(s)
         PROVE  CallsOK'
    BY <1>10 DEF Mcp!JobEnds, Mcp!RemoteEnds, Mcp!Trouble
  <1>11. CASE Mcp!Expires \/ Mcp!Reap
    <2>1. expired' \in BOOLEAN
      BY <1>11 DEF Mcp!Expires, Mcp!Reap
    <2> QED
      BY <1>11, <2>1 DEF Mcp!Expires, Mcp!Reap
  <1> QED
    BY <1>3, <1>4, <1>5, <1>7, <1>8, <1>9, <1>10, <1>11 DEF Mcp!Next, Mcp!Begins, Mcp!GoesOn

\* The agent's part: what it answers is a result, and its jobs are tasks.
LEMMA McpAgentStep ==
  ASSUME CallsOK, AgentOK, Mcp!Next
  PROVE  AgentOK'
  <1> USE DEF AgentOK
  <1>1. ASSUME UNCHANGED Mcp!agent
        PROVE  AgentOK'
    BY <1>1 DEF Mcp!agent
  <1>2. ASSUME NEW c \in Mcp!Calls, Mcp!Begins(c)
        PROVE  AgentOK'
    BY <1>1, <1>2
       DEF Mcp!Begins, Mcp!OpenSession, Mcp!ExecuteAsync, Mcp!PullResults, Mcp!Interrupt,
           Mcp!CloseSession, Mcp!Validates
  <1>3. ASSUME NEW c \in Mcp!Calls, Mcp!Submit(c)
        PROVE  AgentOK'
    BY <1>3, TaskOfCall DEF Mcp!Submit
  <1>4. ASSUME NEW c \in Mcp!Calls,
               \/ Mcp!Set(c) \/ Mcp!WaitFails(c) \/ Mcp!Succeeds(c) \/ Mcp!RemoteIsGone(c)
               \/ Mcp!TaskFailed(c) \/ Mcp!SubmitFails(c) \/ Mcp!Cancelled(c)
        PROVE  AgentOK'
    BY <1>1, <1>4
       DEF Mcp!Set, Mcp!WaitFails, Mcp!Succeeds, Mcp!RemoteIsGone, Mcp!TaskFailed,
           Mcp!SubmitFails, Mcp!Cancelled
  <1>5. ASSUME NEW t \in Mcp!Tasks, NEW o \in {"success", "more", "not_found", "failed"},
               Mcp!Answers(t, o)
        PROVE  result' \in [Mcp!Calls -> {NULL, "success", "more", "not_found", "failed"}]
    BY <1>5 DEF Mcp!Answers
  <1>6. ASSUME NEW t \in Mcp!Tasks, Mcp!Execute(t)
        PROVE  AgentOK'
    <2> DEFINE s == seen[t.call].sid
               o == Mcp!Outcome(t, s)
    <2>1. o \in {"success", "more", "not_found", "failed"}
      BY DEF Mcp!Outcome
    <2>2. result' \in [Mcp!Calls -> {NULL, "success", "more", "not_found", "failed"}]
      BY <1>5, <1>6, <2>1 DEF Mcp!Execute
    <2>3. t.call \in Opens => t \in Mcp!Remotes
      BY DEF Mcp!Tasks, Mcp!Remotes
    <2>4. remotes' \subseteq Mcp!Remotes /\ queue' \subseteq Mcp!Tasks
      BY <1>6, <2>3 DEF Mcp!Execute
    <2>5. \/ job' = [job EXCEPT ![s] = t] \/ job' = [job EXCEPT ![s] = NULL] \/ job' = job
      BY <1>6 DEF Mcp!Execute
    <2> HIDE DEF s
    <2>6. job' \in [Mcp!Remotes -> Mcp!Tasks \cup {NULL}]
      BY <2>5
    <2> QED
      BY <2>2, <2>4, <2>6
  <1>7. ASSUME NEW t \in Mcp!Tasks, Mcp!ExecuteFails(t)
        PROVE  AgentOK'
    BY <1>5, <1>7 DEF Mcp!ExecuteFails
  <1>8. ASSUME NEW s \in Mcp!Remotes, Mcp!JobEnds(s) \/ Mcp!RemoteEnds(s)
        PROVE  AgentOK'
    BY <1>8 DEF Mcp!JobEnds, Mcp!RemoteEnds
  <1>9. CASE Mcp!Expires \/ Mcp!Reap
    BY <1>1, <1>9 DEF Mcp!Expires, Mcp!Reap
  <1> QED
    BY <1>2, <1>3, <1>4, <1>6, <1>7, <1>8, <1>9 DEF Mcp!Next, Mcp!GoesOn

\* The types hold in every state.
LEMMA McpInvariance == Mcp!Spec => []McpInv
  <1>1. Mcp!Init => McpInv
    BY McpInit
  <1>2. ASSUME McpInv, [Mcp!Next]_(Mcp!vars)
        PROVE  McpInv'
    <2>1. CASE Mcp!Next
      BY <1>2, <2>1, McpRecordStep, McpCallsStep, McpAgentStep DEF McpInv
    <2>2. CASE UNCHANGED Mcp!vars
      BY <1>2, <2>2 DEF McpInv, RecordOK, CallsOK, AgentOK, Mcp!vars, Mcp!agent
    <2> QED
      BY <1>2, <2>1, <2>2
  <1>3. McpInv /\ [Mcp!Next]_(Mcp!vars) => McpInv'
    BY <1>2
  <1> QED
    BY <1>1, <1>3, PTL DEF Mcp!Spec

-----------------------------------------------------------------------------
\* Of an ended session, every operation of the manager but SetError leaves the state.
LEMMA OperationsRespectEnd ==
  ASSUME RecordOK, session.state \in Mcp!Terminal
  PROVE  /\ ~Mcp!Live /\ session.state \notin {"none", "gone"}
         /\ Mcp!Idled = session /\ Mcp!Closed = session
         /\ Mcp!Failed.state = "error"
         /\ \A t : Mcp!Executing(t) = session /\ Mcp!Closing(t) = session
         /\ \A s : Mcp!Activated(s) = session
         /\ \A c : Mcp!Ended(c) \in {session, Mcp!Failed}
  <1>1. ~Mcp!Live /\ session.state \notin {"none", "gone"}
    BY DEF Mcp!Terminal, Mcp!Live
  <1>2. Mcp!Failed.state = "error"
    BY <1>1 DEF Mcp!Failed, RecordOK, Record
  <1>3. Mcp!Idled = session /\ Mcp!Closed = session
    BY <1>1 DEF Mcp!Idled, Mcp!Revivable, Mcp!Closed
  <1>4. \A t : Mcp!Executing(t) = session /\ Mcp!Closing(t) = session
    BY <1>1 DEF Mcp!Executing, Mcp!Closing
  <1>5. \A s : Mcp!Activated(s) = session
    BY <1>1 DEF Mcp!Activated
  <1>6. \A r : Mcp!Restored(r) = session
    BY <1>1 DEF Mcp!Restored
  <1>7. \A c : Mcp!Ended(c) \in {session, Mcp!Failed}
    BY <1>3, <1>6 DEF Mcp!Ended
  <1> QED
    BY <1>1, <1>2, <1>3, <1>4, <1>5, <1>7

\* No step brings an ended session back.
LEMMA ClosedStep ==
  ASSUME RecordOK, Mcp!Next, session.state \in Mcp!Terminal
  PROVE  session'.state \in Mcp!Terminal \cup {"gone"}
  <1> DEFINE Stays == session' \in {session, Mcp!Failed}
  <1>0. ASSUME Stays
        PROVE  session'.state \in Mcp!Terminal \cup {"gone"}
    BY <1>0, OperationsRespectEnd DEF Mcp!Terminal
  <1>1. ASSUME NEW c, NEW ended \in {session, Mcp!Failed}, Mcp!Fails(c, ended)
        PROVE  Stays
    BY <1>1 DEF Mcp!Fails
  <1>2. ASSUME NEW c, Mcp!Begins(c)
        PROVE  Stays
    BY <1>2, OperationsRespectEnd
       DEF Mcp!Begins, Mcp!OpenSession, Mcp!ExecuteAsync, Mcp!PullResults, Mcp!Interrupt,
           Mcp!CloseSession
  <1>3. ASSUME NEW c, Mcp!SubmitFails(c) \/ Mcp!WaitFails(c) \/ Mcp!TaskFailed(c)
        PROVE  Stays
    BY <1>1, <1>3, OperationsRespectEnd DEF Mcp!SubmitFails, Mcp!WaitFails, Mcp!TaskFailed
  <1>4. ASSUME NEW c, Mcp!Succeeds(c)
        PROVE  Stays
    BY <1>1, <1>4, OperationsRespectEnd DEF Mcp!Succeeds
  <1>5. ASSUME NEW c,
               Mcp!Submit(c) \/ Mcp!Set(c) \/ Mcp!RemoteIsGone(c) \/ Mcp!Cancelled(c)
        PROVE  Stays
    BY <1>5, OperationsRespectEnd DEF Mcp!Submit, Mcp!Set, Mcp!RemoteIsGone, Mcp!Cancelled
  <1>6. ASSUME NEW t, \/ Mcp!Execute(t) \/ Mcp!ExecuteFails(t) \/ Mcp!JobEnds(t) \/ Mcp!RemoteEnds(t)
        PROVE  Stays
    BY <1>6 DEF Mcp!Execute, Mcp!ExecuteFails, Mcp!JobEnds, Mcp!RemoteEnds
  <1>7. CASE Mcp!Expires
    BY <1>0, <1>7 DEF Mcp!Expires
  <1>8. CASE Mcp!Reap
    BY <1>8, OperationsRespectEnd DEF Mcp!Reap, RecordOK, Record
  <1> HIDE DEF Stays
  <1> QED
    BY <1>0, <1>2, <1>3, <1>4, <1>5, <1>6, <1>7, <1>8 DEF Mcp!Next, Mcp!GoesOn

\* No answer that comes late, of any call, brings a closed session back
\* (ActivateSession, SetExecuting, SetIdle, SetClosing, RestoreAfterCloseFailure,
\* CloseSession and SetError of arthas_session_manager.go, and the orchestrator's calls).
THEOREM ClosedStaysClosedHolds == Mcp!Spec => ClosedStaysClosed
  <1>1. ASSUME McpInv, [Mcp!Next]_(Mcp!vars)
        PROVE  [session.state \in Mcp!Terminal
                  => session'.state \in Mcp!Terminal \cup {"gone"}]_(Mcp!vars)
    BY <1>1, ClosedStep DEF McpInv
  <1>2. McpInv /\ [Mcp!Next]_(Mcp!vars)
          => [session.state \in Mcp!Terminal
                => session'.state \in Mcp!Terminal \cup {"gone"}]_(Mcp!vars)
    BY <1>1
  <1> QED
    BY <1>2, McpInvariance, PTL DEF Mcp!Spec, ClosedStaysClosed, Mcp!ClosedStaysClosed

==============================================================================
