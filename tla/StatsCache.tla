------------------------------ MODULE StatsCache ------------------------------
(***************************************************************************)
(* The cache of the agent statistics (controlplaneext/agentregistry/          *)
(* caching_registry.go): readers share one refresh at a time and wait for it  *)
(* on a condition variable; a write through it invalidates the cache           *)
(* afterwards, one to the registry beneath it does not.  The statistics are     *)
(* the number of the last write they include.                                  *)
(***************************************************************************)
EXTENDS Naturals, FiniteSets

CONSTANTS
  Readers, Writers,
  MaxWrites, MaxErrors, MaxExpiries,  \* bounds: writes, failed refreshes, elapsed TTLs
  NULL

VARIABLES
  version,     \* writes of the registry so far
  done,        \* history: the last of those that have invalidated the cache
  cached,      \* statsCache
  valid,       \* statsCacheTime is set and statsCacheTTL has not elapsed
  refreshing,  \* statsRefreshing
  pc,          \* where a reader is in GetAgentStats
  got,         \* what its refresh has read; NULL is an error
  wrote,       \* what a writer has written and not yet invalidated, or 0
  overtaken,   \* history: readers that have missed a write, of which the invalidation is over
  suspect,     \* history: such a reader has filled the cache
  errors, expiries

shared == <<version, done, cached, valid, refreshing, wrote, suspect, errors, expiries>>
vars == <<shared, pc, got, overtaken>>

At(r, l) == pc[r] = l
Goto(r, l) == pc' = [pc EXCEPT ![r] = l]
\* The lock-free look at the cache; a valid one is returned at once.
Miss(r) ==
  /\ At(r, "idle") /\ ~valid
  /\ Goto(r, "enter")
  /\ UNCHANGED <<shared, got, overtaken>>

\* Another reader refreshes; the condition is looked at again after every wake-up.
MustWait(r) == refreshing

\* refreshStats up to the unlock, on entry and after a wake-up.
Decide(r) ==
  /\ pc[r] \in {"enter", "woken"}
  /\ Goto(r, IF valid THEN "idle" ELSE IF MustWait(r) THEN "wait" ELSE "fetch")
  /\ refreshing' = (refreshing \/ (~valid /\ ~MustWait(r)))
  /\ UNCHANGED <<version, done, cached, valid, got, wrote, overtaken, suspect, errors, expiries>>

\* GetAgentStats of the registry, outside the lock.
Fetch(r) ==
  /\ At(r, "fetch")
  /\ got' = [got EXCEPT ![r] = version]
  /\ overtaken' = overtaken \ {r}
  /\ Goto(r, "store")
  /\ UNCHANGED shared

FetchFails(r) ==
  /\ At(r, "fetch") /\ errors < MaxErrors
  /\ errors' = errors + 1
  /\ got' = [got EXCEPT ![r] = NULL]
  /\ Goto(r, "store")
  /\ UNCHANGED <<version, done, cached, valid, refreshing, wrote, suspect, overtaken, expiries>>

\* Broadcast.
Woken(r, q) == At(q, "wait")

\* The result is stored under the lock, unless it is an error.
Store(r) ==
  /\ At(r, "store")
  /\ refreshing' = FALSE
  /\ IF got[r] = NULL THEN UNCHANGED <<cached, valid, suspect>>
     ELSE cached' = got[r] /\ valid' = TRUE /\ suspect' = (r \in overtaken)
  /\ pc' = [q \in Readers |-> IF q = r THEN "idle" ELSE IF Woken(r, q) THEN "woken" ELSE pc[q]]
  /\ got' = [got EXCEPT ![r] = NULL]
  /\ overtaken' = overtaken \ {r}
  /\ UNCHANGED <<version, done, wrote, errors, expiries>>

\* A registry operation that changes an agent ...
Write(w) ==
  /\ wrote[w] = 0 /\ version < MaxWrites
  /\ version' = version + 1
  /\ wrote' = [wrote EXCEPT ![w] = version + 1]
  /\ UNCHANGED <<done, cached, valid, refreshing, pc, got, overtaken, suspect, errors, expiries>>

\* Mutant of Invalidated: the write leaves the cache alone.
InvalidatedNever == valid

Invalidated == FALSE

\* ... and InvalidateStatsCache after it.
Invalidate(w) ==
  /\ wrote[w] # 0
  /\ valid' = Invalidated
  /\ wrote' = [wrote EXCEPT ![w] = 0]
  /\ done' = IF done < wrote[w] THEN wrote[w] ELSE done
  /\ overtaken' = overtaken \cup {r \in Readers : got[r] # NULL /\ got[r] < wrote[w]}
  /\ UNCHANGED <<version, cached, refreshing, pc, got, suspect, errors, expiries>>

\* A write of which this cache does not hear: by the offline detector of the registry,
\* by another replica, or by an operation that fails after it has written.
WriteBeneath ==
  /\ version < MaxWrites
  /\ version' = version + 1
  /\ UNCHANGED <<done, cached, valid, refreshing, pc, got, wrote, overtaken, suspect, errors,
                 expiries>>

Elapse ==
  /\ valid /\ expiries < MaxExpiries
  /\ valid' = FALSE
  /\ expiries' = expiries + 1
  /\ UNCHANGED <<version, done, cached, refreshing, pc, got, wrote, overtaken, suspect, errors>>

Init ==
  /\ version = 0 /\ done = 0 /\ cached = 0 /\ valid = FALSE /\ refreshing = FALSE
  /\ pc = [r \in Readers |-> "idle"] /\ got = [r \in Readers |-> NULL]
  /\ wrote = [w \in Writers |-> 0] /\ overtaken = {} /\ suspect = FALSE
  /\ errors = 0 /\ expiries = 0

Step(r) == Decide(r) \/ Fetch(r) \/ Store(r)

Next ==
  \/ \E r \in Readers : Miss(r) \/ Step(r) \/ FetchFails(r)
  \/ \E w \in Writers : Write(w) \/ Invalidate(w)
  \/ WriteBeneath
  \/ Elapse

Spec == Init /\ [][Next]_vars

TypeOK ==
  /\ version \in 0..MaxWrites /\ done \in 0..version /\ cached \in 0..MaxWrites
  /\ valid \in BOOLEAN /\ refreshing \in BOOLEAN
  /\ pc \in [Readers -> {"idle", "enter", "wait", "woken", "fetch", "store"}]
  /\ got \in [Readers -> 0..MaxWrites \cup {NULL}]
  /\ wrote \in [Writers -> 0..version] /\ overtaken \subseteq Readers /\ suspect \in BOOLEAN
  /\ errors \in 0..MaxErrors /\ expiries \in 0..MaxExpiries

\* A valid cache misses a write whose operation has returned only if it was filled by a
\* refresh that had read the registry before that write, or if the write was made beneath
\* the cache.
CacheMissesNoWrite == valid /\ ~suspect => cached >= done

==============================================================================
