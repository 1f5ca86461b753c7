------------------------------ MODULE ReaperGate ------------------------------
(***************************************************************************)
(* When the stale task reaper scans: every tick of its loop                   *)
(* (controlplaneext/taskmanager/reaper_engine.go) passes an exponential        *)
(* backoff and a circuit breaker (taskengine/circuit_breaker.go), which learn  *)
(* from the answers of the store.  Only the time since the last failure        *)
(* matters.  One goroutine ticks, so that the half-open state of the breaker   *)
(* lasts for one scan and is never seen between two.                           *)
(***************************************************************************)
EXTENDS Integers

CONSTANTS
  ScanInterval,
  ScanTimeout,                \* how long a scan that fails may take
  MaxLateness,                \* bound: how late a tick may come
  BaseDelay, MaxDelay,        \* of the backoff
  MaxFailures, ResetTimeout   \* of the breaker

VARIABLES
  since,     \* how long before this tick the last failure was recorded
  delay,     \* nextRetryAt, counted from that failure
  streak,    \* consecutiveFailures of the backoff, and failures of the breaker
  circuit,   \* "closed" or "open"
  outcome,   \* of the last tick
  skipped    \* history: ticks in a row that did not reach the store

vars == <<since, delay, streak, circuit, outcome, skipped>>

Smaller(x, y) == IF x < y THEN x ELSE y
MaxStreak == MaxFailures + 8        \* from here on nothing depends on the streak
LongAgo == MaxDelay + ResetTimeout  \* nor on how long ago the failure was

\* 1 << shift, of a shift that is capped at 6, after n failures in a row.
Shifted(n) == <<1, 2, 4, 8, 16, 32, 64>>[Smaller(n, 7)]

\* Mutant of Delay: the delay is not capped.
DelayUncapped(n) == BaseDelay * Shifted(n)

Delay(n) == Smaller(BaseDelay * Shifted(n), MaxDelay)

ShouldWait == streak # 0 /\ since < delay

\* Allow: an open breaker lets a probe through after ResetTimeout.
Allowed == circuit = "open" => since >= ResetTimeout

\* The next tick comes ScanInterval later, or late; t is how long ago the last
\* failure is now.
Wakes(t) == \E late \in 0..MaxLateness : since' = Smaller(t + ScanInterval + late, LongAgo)

\* The backoff is asked first, then the breaker.
Skips ==
  /\ ShouldWait \/ ~Allowed
  /\ Wakes(since)
  /\ outcome' = IF ShouldWait THEN "waited" ELSE "refused"
  /\ skipped' = skipped + 1
  /\ UNCHANGED <<delay, streak, circuit>>

\* GetOverdueRunningTasks fails, at once or when the time of the scan is over.
ScanFails ==
  /\ ~ShouldWait /\ Allowed
  /\ \E took \in 0..ScanTimeout : Wakes(-took)
  /\ streak' = Smaller(streak + 1, MaxStreak)
  /\ delay' = Delay(streak + 1)
  /\ circuit' = IF circuit = "open" \/ streak + 1 >= MaxFailures THEN "open" ELSE "closed"
  /\ outcome' = "failed" /\ skipped' = 0

\* It answers; what fails after that concerns one task and neither gate.
Scans ==
  /\ ~ShouldWait /\ Allowed
  /\ since' = LongAgo
  /\ streak' = 0 /\ delay' = 0 /\ circuit' = "closed"
  /\ outcome' = "scanned" /\ skipped' = 0

Init ==
  /\ since = LongAgo /\ delay = 0 /\ streak = 0
  /\ circuit = "closed" /\ outcome = "scanned" /\ skipped = 0

Next == Skips \/ ScanFails \/ Scans

Spec == Init /\ [][Next]_vars

TypeOK ==
  /\ since \in Int /\ delay \in 0..MaxDelay /\ streak \in 0..MaxStreak
  /\ circuit \in {"closed", "open"}
  /\ outcome \in {"waited", "refused", "failed", "scanned"} /\ skipped \in Nat

\* However long the store has been failing, the reaper looks at it again after at
\* most MaxDelay and the tick that follows: stale tasks wait no longer for it to
\* come back.
ReaperComesBack == skipped * ScanInterval < MaxDelay + ScanTimeout

==============================================================================
