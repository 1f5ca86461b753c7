------------------------------ MODULE FlatSearch ------------------------------
(***************************************************************************)
(* The reads of metric samples by the Prometheus API of the admin extension.    *)
(* Elasticsearch returns the first Cap samples of a window, so that a query is    *)
(* cut into windows that hold fewer: the PromQL engine (es_queryable.go) plans     *)
(* them by a probe of the density, or halves a window whose answer was cut short;  *)
(* the subset parser (prometheus_concurrent.go) halves, and asks per series when    *)
(* the selector is an alternation of literals.  Every query of Elasticsearch is   *)
(* inclusive at both ends (time_range.go).                                    *)
(***************************************************************************)
EXTENDS Integers, FiniteSets

CONSTANTS
  Series,       \* the series that the selector selects
  Stores,       \* what may be stored when the query begins: sets of samples
  Windows,      \* the windows asked for, <<from, to>>
  Cap,          \* the samples of one answer, adaptiveFlatMaxDocs
  SliceWidth,   \* maxSliceWindow and flatSliceInitial, 2 h
  Floor,        \* the width of a bucket and of a window not halved any more, 1 m
  Late,         \* the samples that may be stored while the query runs
  MaxFailures   \* the queries of Elasticsearch that fail

VARIABLES
  pc,         \* "idle", "reading", "answered" or "refused"
  path,       \* "engine" or "subset", or "split" for a subset query per series
  window,     \* what is asked for
  stored,     \* the samples in Elasticsearch
  atStart,    \* those it had when the query began
  jobs,       \* the goroutines' work: a probe, a planned fetch, ...
  got,        \* what was fetched, with the slice it was fetched for
  truncated,  \* a window was cut short and could not be halved
  gaps,       \* the windows left out after a failure
  failures    \* the queries that failed

vars == <<pc, path, window, stored, atStart, jobs, got, truncated, gaps, failures>>

Sample(s, t) == [series |-> s, time |-> t]
Job(how, slice, from, to) == [how |-> how, slice |-> slice, from |-> from, to |-> to]

Init ==
  /\ pc = "idle" /\ path = "engine" /\ window = <<0, 0>> /\ stored = {}
  /\ atStart = {} /\ jobs = {} /\ got = {} /\ truncated = FALSE /\ gaps = {} /\ failures = 0

Least(a, b) == IF a < b THEN a ELSE b

IsLong(w) == w[2] - w[1] > SliceWidth
\* The slices of a long window.  The engine counts one more where the width divides
\* the window: it has an instant only.
Slices(w, last) ==
  {<<w[1] + i * SliceWidth, Least(w[1] + (i + 1) * SliceWidth, w[2])>> : i \in 0..last}
SlicesOf(p, w) ==
  LET n == (w[2] - w[1]) \div SliceWidth
  IN  IF ~IsLong(w) THEN {w}
      ELSE IF p = "engine" \/ (w[2] - w[1]) % SliceWidth # 0 THEN Slices(w, n)
      ELSE Slices(w, n - 1)

FirstStep(p, w) ==
  IF p = "engine" THEN "probe" ELSE IF IsLong(w) THEN "halve" ELSE "once"

Select ==
  /\ pc = "idle" /\ pc' = "reading"
  /\ \E p \in {"engine", "subset", "split"}, w \in Windows :
       /\ path' = p /\ window' = w
       /\ jobs' = {Job(FirstStep(p, w), s, s[1], s[2]) : s \in SlicesOf(p, w)}
  /\ stored' \in Stores /\ atStart' = stored'
  /\ UNCHANGED <<got, truncated, gaps, failures>>

Hits(from, to) == {s \in stored : from <= s.time /\ s.time <= to}

\* The first Cap hits, sorted by time only.
Returned(hits) ==
  IF Cardinality(hits) <= Cap THEN {hits}
  ELSE {r \in SUBSET hits :
          Cardinality(r) = Cap /\ \A kept \in r, left \in hits \ r : kept.time <= left.time}

OfSeries(hits, s) == {h \in hits : h.series = s}

\* What one or, per series, several concurrent queries of a window may return.
QueryFlat(hits) ==
  IF path # "split" THEN Returned(hits)
  ELSE {UNION {f[s] : s \in Series} : f \in {g \in [Series -> SUBSET hits] :
          \A s \in Series : g[s] \in Returned(OfSeries(hits, s))}}

Truncated(hits) ==
  IF path # "split" THEN Cardinality(hits) > Cap
  ELSE \E s \in Series : Cardinality(OfSeries(hits, s)) > Cap

\* The buckets of a window that are not empty, and the hits that some of them hold.
Density(from, to) == {s.time \div Floor : s \in Hits(from, to)}
InBuckets(from, to, buckets) == {s \in Hits(from, to) : s.time \div Floor \in buckets}

\* A slice is closed before the bucket that would fill it: cuts are the buckets that
\* begin a slice, but for the first.
IsPlan(cuts, from, to) ==
  \A k \in Density(from, to) :
    LET open == {b \in Density(from, to) : b < k /\ \A c \in cuts : c < k => c <= b}
    IN  k \in cuts <=> open # {} /\ Cardinality(InBuckets(from, to, open \cup {k})) > Cap

\* Each slice ends where the next one starts, the last one at the end.
Between(starts, to) ==
  {w \in starts \X (starts \cup {to}) :
     /\ w[1] < w[2] \/ w = <<to, to>>
     /\ \A t \in starts : ~(w[1] < t /\ t < w[2])}

Planned(cuts, from, to) == Between({from} \cup {k * Floor : k \in cuts}, to)

Probe(j) ==
  /\ pc = "reading" /\ j.how = "probe"
  /\ \E cuts \in SUBSET Density(j.from, j.to) :
       /\ IsPlan(cuts, j.from, j.to)
       /\ jobs' = (jobs \ {j}) \cup
                    {Job("planned", j.slice, s[1], s[2]) : s \in Planned(cuts, j.from, j.to)}
  /\ UNCHANGED <<pc, path, window, stored, atStart, got, truncated, gaps, failures>>

\* The engine falls back to halving.
ProbeFails(j) ==
  /\ pc = "reading" /\ j.how = "probe"
  /\ failures < MaxFailures /\ failures' = failures + 1
  /\ jobs' = (jobs \ {j}) \cup {[j EXCEPT !.how = "halve"]}
  /\ UNCHANGED <<pc, path, window, stored, atStart, got, truncated, gaps>>

CanHalve(j) == j.how = "halve" /\ j.to - j.from > Floor

Fetch(j) ==
  LET hits == Hits(j.from, j.to) IN
  /\ pc = "reading" /\ j.how # "probe" /\ ~(CanHalve(j) /\ Truncated(hits))
  /\ \E r \in QueryFlat(hits) : got' = got \cup {[slice |-> j.slice, sample |-> s] : s \in r}
  /\ truncated' = (truncated \/ Truncated(hits))
  /\ jobs' = jobs \ {j}
  /\ UNCHANGED <<pc, path, window, stored, atStart, gaps, failures>>

Halve(j) ==
  LET mid == j.from + (j.to - j.from) \div 2 IN
  /\ pc = "reading" /\ CanHalve(j) /\ Truncated(Hits(j.from, j.to))
  /\ jobs' = (jobs \ {j}) \cup {[j EXCEPT !.to = mid], [j EXCEPT !.from = mid]}
  /\ UNCHANGED <<pc, path, window, stored, atStart, got, truncated, gaps, failures>>

IsHalf(j) == <<j.from, j.to>> # j.slice /\ j.how = "halve"

\* The error of a half is dropped, and so is, in the subset path, the error of a slice.
WindowIsLost(j) ==
  /\ pc = "reading" /\ (IsHalf(j) \/ (path # "engine" /\ j.how = "halve"))
  /\ gaps' = gaps \cup {<<j.from, j.to>>} /\ jobs' = jobs \ {j}
  /\ UNCHANGED <<pc, path, window, stored, atStart, got, truncated>>

\* The engine leaves the slice of a long window out of its answer.
SliceIsLost(j) ==
  /\ pc = "reading" /\ path = "engine" /\ j.how # "probe" /\ ~IsHalf(j) /\ IsLong(window)
  /\ gaps' = gaps \cup {j.slice}
  /\ jobs' = {k \in jobs : k.slice # j.slice}
  /\ got' = {g \in got : g.slice # j.slice}
  /\ UNCHANGED <<pc, path, window, stored, atStart, truncated>>

QueryIsRefused(j) ==
  /\ pc = "reading" /\ j.how # "probe" /\ ~IsHalf(j) /\ ~IsLong(window)
  /\ pc' = "refused" /\ jobs' = {} /\ got' = {}
  /\ UNCHANGED <<path, window, stored, atStart, truncated, gaps>>

QueryFails(j) ==
  /\ failures < MaxFailures /\ failures' = failures + 1
  /\ WindowIsLost(j) \/ SliceIsLost(j) \/ QueryIsRefused(j)

Merge ==
  /\ pc = "reading" /\ jobs = {} /\ pc' = "answered"
  /\ UNCHANGED <<path, window, stored, atStart, jobs, got, truncated, gaps, failures>>

Arrive ==
  /\ pc = "reading" /\ \E s \in Late \ stored : stored' = stored \cup {s}
  /\ UNCHANGED <<pc, path, window, atStart, jobs, got, truncated, gaps, failures>>

Next ==
  \/ Select \/ Merge \/ Arrive
  \/ \E j \in jobs : Probe(j) \/ ProbeFails(j) \/ Fetch(j) \/ Halve(j) \/ QueryFails(j)

Spec == Init /\ [][Next]_vars

-----------------------------------------------------------------------------
(* Properties                                                                *)

Answered == {g.sample : g \in got}

Within(s, w) == w[1] <= s.time /\ s.time <= w[2]

\* More samples than one answer holds, in a window that is not halved: the whole
\* window of a short query of the subset parser.
IsCrowded(s) ==
  IF FirstStep(path, window) = "once" THEN Truncated(Hits(window[1], window[2]))
  ELSE \E from \in window[1]..s.time : Truncated(Hits(from, Least(from + Floor, window[2]))) /\ s.time <= from + Floor

\* An answer has every sample of its window that was stored when the query began,
\* except those of a window that a failure left out and, with the flag that is
\* logged, those cut off among samples too many within the floor or outrun by new
\* ones: no plan, no half and no slice leaves a sample between two windows.
NoSampleIsMissed ==
  pc = "answered" => \A s \in atStart :
    Within(s, window) /\ s \notin Answered =>
      \/ \E g \in gaps : Within(s, g)
      \/ truncated /\ (stored # atStart \/ IsCrowded(s))

==============================================================================
