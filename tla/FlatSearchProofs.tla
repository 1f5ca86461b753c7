--------------------------- MODULE FlatSearchProofs ---------------------------
(***************************************************************************)
(* For any series, samples, windows, limits and failures: an answer to a       *)
(* query of samples misses a sample that was stored when the query began only   *)
(* for a reason that it knows of.                                            *)
(*                                                                         *)
(* The invariant follows each sample of the window until it is answered: it is *)
(* in the window of a job to come, in what was fetched, in a gap, or cut off    *)
(* among too many.  A job of the plan is not halved any more, so that being in  *)
(* its window is not enough: Serves adds that the sample is among the first     *)
(* that one answer holds, unless a whole bucket has more.  That a plan has such *)
(* a slice for each sample (PlanServes) is the heart of the proof: a sample at   *)
(* the end of a slice that has too many by it is the first one of the next.      *)
(***************************************************************************)
EXTENDS FlatSearch, FiniteSetTheorems, WellFoundedInduction, TLAPS

\* Samples and windows have natural numbers for times, and what is stored is finite.
SampleSet == [series : Series, time : Nat]
Setting ==
  /\ \A S \in Stores : S \subseteq SampleSet /\ IsFiniteSet(S)
  /\ Late \subseteq SampleSet
  /\ \A w \in Windows : w \in Nat \X Nat /\ w[1] <= w[2]
  /\ Cap \in Nat /\ SliceWidth \in Nat \ {0} /\ Floor \in Nat \ {0}

JobSet == [how : {"probe", "planned", "halve", "once"}, slice : Nat \X Nat, from : Nat, to : Nat]

\* A job stays in its slice and its slice in the window; only the engine plans.
JobOK(j) ==
  /\ j \in JobSet
  /\ window[1] <= j.slice[1] /\ j.slice[1] <= j.from /\ j.from <= j.to
  /\ j.to <= j.slice[2] /\ j.slice[2] <= window[2]
  /\ j.how = "once" => j.from = window[1] /\ j.to = window[2]
  /\ j.how = "once" <=> FirstStep(path, window) = "once"
  /\ j.how \in {"probe", "planned"} => path = "engine"

Types ==
  /\ stored \subseteq SampleSet /\ IsFiniteSet(stored) /\ atStart \subseteq stored
  /\ window \in Nat \X Nat /\ window[1] <= window[2]
  /\ \A j \in jobs : JobOK(j)
  /\ \A g \in got : Within(g.sample, g.slice)
  /\ pc = "answered" => jobs = {}

\* What a fetch of j returns before the samples later than s.
Before(j, s) == {h \in Hits(j.from, j.to) : h.time <= s.time}

\* s is in the window of j and, where j is not halved any more, s is among the samples
\* that one answer holds unless they are too many for any plan.
Serves(j, s) ==
  /\ Within(s, <<j.from, j.to>>)
  /\ j.how = "planned" /\ stored = atStart /\ ~IsCrowded(s) => Cardinality(Before(j, s)) <= Cap

Excused(s) == truncated /\ (stored # atStart \/ IsCrowded(s))

Covered(s) ==
  \/ s \in Answered
  \/ \E j \in jobs : Serves(j, s)
  \/ \E g \in gaps : Within(s, g)
  \/ Excused(s)

Cover == pc \in {"reading", "answered"} => \A s \in atStart : Within(s, window) => Covered(s)

IInv == Types /\ Cover

-----------------------------------------------------------------------------
\* A set of natural numbers that is not empty has a least element.
LEMMA HasLeast ==
  ASSUME NEW T \in SUBSET Nat, T # {}
  PROVE  \E x \in T : \A y \in T : x <= y
  <1> DEFINE R == OpToRel(<, Nat)
  <1>1. IsWellFoundedOn(R, Nat)
    BY NatLessThanWellFounded
  <1>2. \E x \in T : \A y \in T : ~(<<y, x>> \in R)
    BY <1>1, WFMin
  <1>3. ASSUME NEW x \in T, NEW y \in T, ~(<<y, x>> \in R)
        PROVE  x <= y
    BY <1>3 DEF OpToRel
  <1> HIDE DEF R
  <1> QED
    BY <1>2, <1>3

\* And a greatest one, if it has a bound.
LEMMA HasGreatest ==
  ASSUME NEW T \in SUBSET Nat, T # {}, NEW n \in Nat, \A x \in T : x <= n
  PROVE  \E x \in T : \A y \in T : y <= x
  <1> DEFINE U == {n - x : x \in T}
  <1>1. U \in SUBSET Nat
    OBVIOUS
  <1>5. U # {}
    <2>1. PICK x \in T : TRUE
      OBVIOUS
    <2> QED
      BY <2>1, n - x \in U
  <1>2. PICK u \in U : \A v \in U : u <= v
    BY <1>1, <1>5, HasLeast
  <1>3. PICK x \in T : u = n - x
    OBVIOUS
  <1>4. ASSUME NEW y \in T PROVE y <= x
    BY <1>2, <1>3, n - y \in U
  <1> QED
    BY <1>4

\* What a time has to do with the step that it is in.
LEMMA Division ==
  ASSUME NEW w \in Nat \ {0}, NEW t \in Nat
  PROVE  /\ t \div w \in Nat
         /\ (t \div w) * w <= t /\ t < (t \div w) * w + w
         /\ t % w = 0 => t = (t \div w) * w
  OBVIOUS

\* One step more is one width more.
LEMMA Multiples ==
  ASSUME NEW w \in Nat \ {0}, NEW k \in Nat, NEW l \in Nat, k < l
  PROVE  k * w + w <= l * w
  <1>1. l = (k + 1) + (l - (k + 1)) /\ l - (k + 1) \in Nat
    OBVIOUS
  <1>2. \A d \in Nat : ((k + 1) + d) * w = (k * w + w) + d * w /\ d * w \in Nat
    OBVIOUS
  <1>3. l * w = (k * w + w) + (l - (k + 1)) * w /\ (l - (k + 1)) * w \in Nat
    BY <1>1, <1>2
  <1> QED
    BY <1>3

\* The bucket of a time, at the width a plan may not go below.
LEMMA BucketOf ==
  ASSUME Floor \in Nat \ {0}, NEW t \in Nat
  PROVE  /\ t \div Floor \in Nat
         /\ (t \div Floor) * Floor <= t
         /\ t < (t \div Floor) * Floor + Floor
  BY Division

\* An earlier bucket starts at least one width earlier.
LEMMA SmallerBucket ==
  ASSUME Floor \in Nat \ {0}, NEW k \in Nat, NEW l \in Nat, k < l
  PROVE  k * Floor + Floor <= l * Floor
  BY Multiples

-----------------------------------------------------------------------------
(* What is found in a window.                                                *)

\* The answers are finite sets of samples with times.
LEMMA HitsAreFinite ==
  ASSUME Types, NEW from, NEW to
  PROVE  /\ Hits(from, to) \subseteq stored /\ Hits(from, to) \subseteq SampleSet
         /\ \A hits \in SUBSET Hits(from, to) :
              IsFiniteSet(hits) /\ Cardinality(hits) \in Nat
                /\ Cardinality(hits) <= Cardinality(Hits(from, to))
         /\ Cardinality(Hits(from, to)) \in Nat
  <1>1. Hits(from, to) \subseteq stored /\ Hits(from, to) \subseteq SampleSet
    BY DEF Hits, Types
  <1>2. IsFiniteSet(Hits(from, to))
    BY <1>1, FS_Subset DEF Types
  <1> QED
    BY <1>1, <1>2, FS_Subset, FS_CardinalityType

\* More of a window are too many if a part of them is.
LEMMA TruncatedMore ==
  ASSUME Types, Setting, NEW from, NEW to, NEW hits \in SUBSET Hits(from, to), Truncated(hits)
  PROVE  Truncated(Hits(from, to))
  <1>1. CASE path # "split"
    BY <1>1, HitsAreFinite DEF Truncated, Setting
  <1>2. CASE path = "split"
    <2>1. PICK s \in Series : Cardinality(OfSeries(hits, s)) > Cap
      BY <1>2 DEF Truncated
    <2>2. OfSeries(hits, s) \in SUBSET OfSeries(Hits(from, to), s)
      BY DEF OfSeries
    <2>3. IsFiniteSet(OfSeries(Hits(from, to), s))
      BY HitsAreFinite DEF OfSeries
    <2>4. /\ Cardinality(OfSeries(Hits(from, to), s)) \in Nat
          /\ Cardinality(OfSeries(hits, s)) <= Cardinality(OfSeries(Hits(from, to), s))
          /\ Cardinality(OfSeries(hits, s)) \in Nat
      BY <2>2, <2>3, FS_Subset, FS_CardinalityType
    <2>5. Cardinality(OfSeries(Hits(from, to), s)) > Cap
      BY <2>1, <2>4 DEF Setting
    <2> QED
      BY <1>2, <2>5 DEF Truncated
  <1> QED
    BY <1>1, <1>2

\* A window no wider than the floor in which samples are too many is a crowd to each
\* of them.
LEMMA NarrowIsCrowded ==
  ASSUME Types, Setting, NEW s \in stored, NEW from \in Nat, NEW hits,
         hits \subseteq Hits(from, Least(from + Floor, window[2])), Truncated(hits),
         window[1] <= from, from <= s.time, s.time <= from + Floor,
         FirstStep(path, window) # "once"
  PROVE  IsCrowded(s)
  <1>1. Truncated(Hits(from, Least(from + Floor, window[2])))
    BY TruncatedMore
  <1>2. s.time \in Nat /\ window[1] \in Nat
    BY DEF Types, SampleSet
  <1>3. from \in window[1]..s.time
    BY <1>2
  <1> QED
    BY <1>1, <1>3 DEF IsCrowded

\* What a bucket has on its way to s.
LEMMA BucketIsCrowded ==
  ASSUME Types, Setting, path = "engine", NEW s \in stored, Within(s, window),
         NEW from \in Nat, NEW to \in Nat, window[1] <= from, to <= window[2],
         NEW hits \in SUBSET Hits(from, to), Cardinality(hits) > Cap,
         \A h \in hits : h.time <= s.time /\ h.time \div Floor = s.time \div Floor
  PROVE  IsCrowded(s)
  <1> DEFINE k == (s.time \div Floor) * Floor
             first == IF k < window[1] THEN window[1] ELSE k
  <1>1. s.time \in Nat /\ window[1] \in Nat /\ window[2] \in Nat /\ Floor \in Nat \ {0}
    BY DEF Types, SampleSet, Setting
  <1>2. k \in Nat /\ k <= s.time /\ s.time < k + Floor
    BY <1>1, BucketOf
  <1>3. window[1] <= s.time /\ s.time <= window[2]
    BY DEF Within
  <1>4. first \in Nat /\ window[1] <= first /\ first <= s.time /\ s.time <= first + Floor
    BY <1>1, <1>2, <1>3
  <1>5. ASSUME NEW h \in hits
        PROVE  h \in Hits(first, Least(first + Floor, window[2]))
    <2>1. h \in stored /\ from <= h.time /\ h.time <= to /\ h.time \in Nat
      BY DEF Hits, SampleSet, Types
    <2>2. k <= h.time
      BY <1>1, <2>1, BucketOf
    <2>3. h.time <= s.time
      OBVIOUS
    <2>4. first <= h.time
      BY <1>1, <2>1, <2>2
    <2>5. h.time <= Least(first + Floor, window[2])
      BY <1>1, <1>3, <1>4, <2>1, <2>3 DEF Least
    <2> QED
      BY <2>1, <2>4, <2>5 DEF Hits
  <1>6. Truncated(hits) /\ FirstStep(path, window) # "once"
    BY DEF Truncated, FirstStep
  <1> HIDE DEF first
  <1> QED
    BY <1>4, <1>5, <1>6, NarrowIsCrowded

-----------------------------------------------------------------------------
(* The plan of the engine.                                                   *)

\* The histogram counts samples.
LEMMA DensityIsNat ==
  ASSUME Types, Setting, NEW from, NEW to
  PROVE  Density(from, to) \in SUBSET Nat
  <1>1. ASSUME NEW s \in Hits(from, to) PROVE s.time \div Floor \in Nat
    BY HitsAreFinite, BucketOf DEF Setting, SampleSet
  <1> QED
    BY <1>1 DEF Density

\* A cut is made after the start of the window and not after its end.
LEMMA CutIsInside ==
  ASSUME Types, Setting, NEW from \in Nat, NEW to \in Nat,
         NEW cuts \in SUBSET Density(from, to), IsPlan(cuts, from, to), NEW k \in cuts
  PROVE  k \in Nat /\ k * Floor \in Nat /\ from < k * Floor /\ k * Floor <= to
  <1>1. k \in Nat /\ Floor \in Nat \ {0} /\ k \in Density(from, to)
    BY DensityIsNat DEF Setting
  <1>2. PICK s \in Hits(from, to) : k = s.time \div Floor
    BY <1>1 DEF Density
  <1>3. s.time \in Nat /\ s.time <= to
    BY DEF Hits, Types, SampleSet
  <1>4. k * Floor <= s.time
    BY <1>1, <1>2, <1>3, BucketOf
  <1>5. PICK b \in Density(from, to) : b < k
    BY <1>1 DEF IsPlan
  <1>6. PICK h \in Hits(from, to) : b = h.time \div Floor
    BY DEF Density
  <1>7. h.time \in Nat /\ from <= h.time
    BY DEF Hits, Types, SampleSet
  <1>8. b \in Nat /\ h.time < b * Floor + Floor
    BY <1>1, <1>6, <1>7, BucketOf
  <1>9. b * Floor + Floor <= k * Floor
    BY <1>1, <1>5, <1>8, SmallerBucket
  <1>10. k * Floor \in Nat /\ b * Floor \in Nat
    BY <1>1, <1>8
  <1> QED
    BY <1>1, <1>3, <1>4, <1>7, <1>8, <1>9, <1>10

\* No time of the window is between two slices.
LEMMA BetweenCovers ==
  ASSUME NEW from \in Nat, NEW to \in Nat, NEW starts \in SUBSET Nat, from \in starts,
         \A t \in starts : from <= t /\ t <= to,
         NEW now \in Nat, from <= now, now <= to
  PROVE  \E w \in Between(starts, to) :
           /\ w[1] \in starts /\ w[2] \in Nat /\ w[1] <= now /\ now <= w[2] /\ w[2] <= to
           /\ \A t \in starts : t <= now => t <= w[1]
  <1> DEFINE earlier == {t \in starts : t <= now}
             later == {t \in starts : now < t}
  <1>1. PICK a \in earlier : \A t \in earlier : t <= a
    <2>1. earlier \in SUBSET Nat /\ earlier # {} /\ \A t \in earlier : t <= now
      OBVIOUS
    <2> HIDE DEF earlier
    <2> QED
      BY <2>1, HasGreatest
  <1>2. \E b \in starts \cup {to} :
          /\ now <= b /\ (a < b \/ (a = to /\ b = to))
          /\ \A t \in starts : t <= a \/ b <= t
    <2>1. CASE later = {}
      <3>1. a < to \/ a = to
        OBVIOUS
      <3>2. \A t \in starts : t <= a
        BY <1>1, <2>1
      <3> QED
        BY <3>1, <3>2
    <2>2. CASE later # {}
      <3>1. later \in SUBSET Nat
        OBVIOUS
      <3>2. PICK b \in later : \A t \in later : b <= t
        BY <2>2, <3>1, HasLeast
      <3>3. \A t \in starts : t <= a \/ b <= t
        BY <1>1, <3>2
      <3> QED
        BY <1>1, <3>2, <3>3
    <2> QED
      BY <2>1, <2>2
  <1>3. PICK b \in starts \cup {to} :
          /\ now <= b /\ (a < b \/ (a = to /\ b = to))
          /\ \A t \in starts : t <= a \/ b <= t
    BY <1>2
  <1>4. b \in Nat /\ b <= to /\ a \in starts /\ a \in Nat /\ a <= now
    OBVIOUS
  <1>5. \A t \in starts : t <= now => t <= a
    BY <1>1
  <1> HIDE DEF earlier
  <1>6. <<a, b>> \in Between(starts, to)
    <2>1. \A t \in starts : ~(a < t /\ t < b)
      BY <1>3, <1>4
    <2> QED
      BY <1>3, <1>4, <2>1 DEF Between
  <1>7. <<a, b>>[1] = a /\ <<a, b>>[2] = b
    OBVIOUS
  <1> QED
    BY <1>3, <1>4, <1>5, <1>6, <1>7

\* A plan has a slice for each of its samples, where it is among the first of the
\* slice, as many as one answer holds, if it is not in a crowd.
LEMMA PlanServes ==
  ASSUME Types, Setting, path = "engine",
         NEW from \in Nat, NEW to \in Nat, window[1] <= from, to <= window[2],
         NEW cuts \in SUBSET Density(from, to), IsPlan(cuts, from, to),
         NEW s \in stored, from <= s.time, s.time <= to
  PROVE  \E w \in Planned(cuts, from, to) :
           /\ w[1] <= s.time /\ s.time <= w[2]
           /\ ~IsCrowded(s) => Cardinality({h \in Hits(w[1], w[2]) : h.time <= s.time}) <= Cap
  <1> DEFINE starts == {from} \cup {k * Floor : k \in cuts}
  <1>0. s.time \in Nat /\ Floor \in Nat \ {0} /\ Cap \in Nat /\ Within(s, window)
    BY DEF Types, SampleSet, Setting, Within
  <1>1. starts \in SUBSET Nat /\ from \in starts /\ \A t \in starts : from <= t /\ t <= to
    BY <1>0, CutIsInside
  <1>2. PICK w \in Between(starts, to) :
          /\ w[1] \in starts /\ w[2] \in Nat /\ w[1] <= s.time /\ s.time <= w[2] /\ w[2] <= to
          /\ \A t \in starts : t <= s.time => t <= w[1]
    <2> DEFINE now == s.time
    <2>1. now \in Nat /\ from <= now /\ now <= to
      BY <1>0
    <2> HIDE DEF starts, now
    <2>2. \E w \in Between(starts, to) :
            /\ w[1] \in starts /\ w[2] \in Nat /\ w[1] <= now /\ now <= w[2] /\ w[2] <= to
            /\ \A t \in starts : t <= now => t <= w[1]
      BY <1>1, <2>1, BetweenCovers
    <2> QED
      BY <2>2 DEF now
  <1> DEFINE early == {h \in Hits(w[1], w[2]) : h.time <= s.time}
             bucket == s.time \div Floor
             open == {b \in Density(from, to) : b < bucket /\ \A c \in cuts : c < bucket => c <= b}
  <1>3. w[1] \in Nat /\ from <= w[1]
    BY <1>1, <1>2
  <1>4. early \in SUBSET Hits(w[1], w[2]) /\ early \subseteq Hits(from, to)
    BY <1>2, <1>3 DEF Hits, Types, SampleSet
  <1>5. bucket \in Nat /\ bucket \in Density(from, to)
    BY <1>0, BucketOf DEF Density, Hits
  <1>6. ASSUME NEW h \in early
        PROVE  h.time \in Nat /\ h.time <= s.time /\ w[1] <= h.time /\ h.time \div Floor \in Nat
    <2>1. h.time \in Nat /\ w[1] <= h.time
      BY <1>4 DEF Hits, Types, SampleSet
    <2> QED
      BY <1>0, <2>1, BucketOf
  \* The slice has begun before the buckets of its samples.
  <1>7. ASSUME NEW c \in cuts, NEW h \in early, c <= bucket
        PROVE  c <= h.time \div Floor
    <2>1. c \in Nat /\ c * Floor \in Nat
      BY CutIsInside
    <2>2. c * Floor <= s.time
      <3>1. CASE c = bucket
        BY <1>0, <3>1, BucketOf
      <3>2. CASE c < bucket
        BY <1>0, <1>5, <2>1, <3>2, BucketOf, SmallerBucket
      <3> QED
        BY <1>5, <1>7, <2>1, <3>1, <3>2
    <2>3. c * Floor <= h.time
      BY <1>2, <1>3, <1>6, <2>1, <2>2
    <2>4. CASE c <= h.time \div Floor
      BY <2>4
    <2>5. CASE h.time \div Floor < c
      <3>1. (h.time \div Floor) * Floor + Floor <= c * Floor
        BY <1>0, <1>6, <2>1, <2>5, SmallerBucket
      <3>2. h.time < (h.time \div Floor) * Floor + Floor
        BY <1>0, <1>6, BucketOf
      <3>3. (h.time \div Floor) * Floor \in Nat
        BY <1>0, <1>6
      <3> HIDE DEF early, bucket, starts
      <3> QED
        BY <1>0, <1>6, <2>1, <2>3, <3>1, <3>2, <3>3
    <2> QED
      BY <1>6, <2>1, <2>4, <2>5
  <1>8. ASSUME NEW h \in early
        PROVE  h.time \div Floor <= bucket /\ h.time \div Floor \in Density(from, to)
    <2>1. h.time \div Floor \in Density(from, to)
      BY <1>4 DEF Density
    <2>2. CASE bucket < h.time \div Floor
      <3>1. bucket * Floor + Floor <= (h.time \div Floor) * Floor
        BY <1>0, <1>5, <1>6, <2>2, SmallerBucket
      <3>2. (h.time \div Floor) * Floor <= h.time
        BY <1>0, <1>6, BucketOf
      <3>3. s.time < bucket * Floor + Floor
        BY <1>0, BucketOf
      <3>4. bucket * Floor \in Nat /\ (h.time \div Floor) * Floor \in Nat
        BY <1>0, <1>5, <1>6
      <3>5. h.time \in Nat /\ h.time <= s.time
        BY <1>6
      <3> HIDE DEF early, bucket, starts
      <3> QED
        BY <1>0, <3>1, <3>2, <3>3, <3>4, <3>5
    <2> QED
      BY <1>5, <1>6, <2>1, <2>2
  <1>9. ASSUME Cardinality(early) > Cap, NEW h \in early, h.time \div Floor < bucket
        PROVE  FALSE
    <2>1. h.time \div Floor \in open
      BY <1>5, <1>7, <1>8, <1>9 , CutIsInside
    <2>2. bucket \notin cuts
      BY <1>5, <1>6, <1>7, <1>9
    <2>3. Cardinality(InBuckets(from, to, open \cup {bucket})) <= Cap
      <3>1. InBuckets(from, to, open \cup {bucket}) \in SUBSET Hits(from, to)
        BY DEF InBuckets
      <3>2. Cardinality(InBuckets(from, to, open \cup {bucket})) \in Nat
        BY <3>1, HitsAreFinite
      <3>3. ~(Cardinality(InBuckets(from, to, open \cup {bucket})) > Cap)
        BY <1>5, <2>1, <2>2 DEF IsPlan
      <3> HIDE DEF open, bucket
      <3> QED
        BY <1>0, <3>2, <3>3
    <2>4. ASSUME NEW g \in early
          PROVE  g.time \div Floor \in open \cup {bucket}
      <3>1. CASE g.time \div Floor = bucket
        BY <3>1
      <3>2. CASE g.time \div Floor # bucket
        <4>1. g.time \div Floor < bucket
          BY <1>5, <1>6, <1>8, <3>2
        <4> QED
          BY <1>5, <1>7, <1>8, <4>1, CutIsInside
      <3> QED
        BY <3>1, <3>2
    <2>5. early \subseteq InBuckets(from, to, open \cup {bucket})
      BY <1>4, <2>4 DEF InBuckets
    <2>6. InBuckets(from, to, open \cup {bucket}) \subseteq Hits(from, to)
      BY DEF InBuckets
    <2> HIDE DEF early, open, bucket
    <2>7. IsFiniteSet(InBuckets(from, to, open \cup {bucket}))
      BY <2>6, HitsAreFinite
    <2>8. Cardinality(early) <= Cardinality(InBuckets(from, to, open \cup {bucket}))
      BY <2>5, <2>7, FS_Subset
    <2>9. Cardinality(early) \in Nat /\ Cardinality(InBuckets(from, to, open \cup {bucket})) \in Nat
      BY <1>4, <2>6, HitsAreFinite
    <2> QED
      BY <1>0, <1>9, <2>3, <2>8, <2>9
  <1>10. ASSUME Cardinality(early) > Cap
         PROVE  IsCrowded(s)
    <2>1. \A h \in early : h.time <= s.time /\ h.time \div Floor = bucket
      BY <1>5, <1>6, <1>8, <1>9, <1>10
    <2>2. w[2] <= window[2] /\ window[1] <= w[1]
      BY <1>0, <1>2, <1>3 DEF Types
    <2> HIDE DEF early
    <2> QED
      BY <1>0, <1>2, <1>3, <1>4, <1>10, <2>1, <2>2, BucketIsCrowded
  <1>11. Cardinality(early) \in Nat
    <2> HIDE DEF early
    <2> QED
      BY <1>4, HitsAreFinite
  <1>12. ~IsCrowded(s) => Cardinality(early) <= Cap
    <2> HIDE DEF early
    <2> QED
      BY <1>0, <1>10, <1>11
  <1> QED
    BY <1>2, <1>12 DEF Planned

-----------------------------------------------------------------------------
(* A fetch, and the slices of a long window.                                 *)

\* A sample that a query leaves out is one too many, and no earlier one is left out.
LEMMA LeftOut ==
  ASSUME Types, Setting, NEW from, NEW to, NEW r \in QueryFlat(Hits(from, to)),
         NEW s \in Hits(from, to), s \notin r
  PROVE  /\ Truncated(Hits(from, to))
         /\ path = "engine" => Cardinality({h \in Hits(from, to) : h.time <= s.time}) > Cap
  <1> DEFINE hits == Hits(from, to)
             early == {h \in hits : h.time <= s.time}
  <1>0. Cap \in Nat
    BY DEF Setting
  <1>1. CASE path = "split"
    <2>1. PICK f \in [Series -> SUBSET hits] :
            r = UNION {f[t] : t \in Series} /\ \A t \in Series : f[t] \in Returned(OfSeries(hits, t))
      BY <1>1 DEF QueryFlat
    <2>2. s.series \in Series
      BY HitsAreFinite DEF SampleSet
    <2>3. s \in OfSeries(hits, s.series) /\ s \notin f[s.series]
      BY <2>1, <2>2 DEF OfSeries
    <2>4. ~(Cardinality(OfSeries(hits, s.series)) <= Cap)
      BY <2>1, <2>2, <2>3 DEF Returned
    <2>5. Cardinality(OfSeries(hits, s.series)) \in Nat
      <3>1. OfSeries(hits, s.series) \in SUBSET hits
        BY DEF OfSeries
      <3> QED
        BY <3>1, HitsAreFinite
    <2>6. Cardinality(OfSeries(hits, s.series)) > Cap
      BY <1>0, <2>4, <2>5
    <2> QED
      BY <1>1, <2>2, <2>6 DEF Truncated
  <1>2. CASE path # "split"
    <2>1. r \in Returned(hits)
      BY <1>2 DEF QueryFlat
    <2>2. /\ ~(Cardinality(hits) <= Cap)
          /\ r \in SUBSET hits /\ Cardinality(r) = Cap /\ \A kept \in r : kept.time <= s.time
      BY <2>1 DEF Returned
    <2>3. Cardinality(hits) > Cap
      BY <1>0, <2>2, HitsAreFinite
    <2>4. s.time <= s.time
      BY HitsAreFinite DEF SampleSet
    <2>5. r \cup {s} \in SUBSET early /\ early \in SUBSET hits
      BY <2>2, <2>4
    <2> HIDE DEF early, hits
    <2>6. IsFiniteSet(r) /\ IsFiniteSet(early) /\ Cardinality(early) \in Nat
      BY <2>2, <2>5, HitsAreFinite DEF hits
    <2>7. Cardinality(r \cup {s}) = Cap + 1 /\ Cardinality(r \cup {s}) <= Cardinality(early)
      BY <2>2, <2>5, <2>6, FS_AddElement, FS_Subset
    <2>8. Cardinality(early) > Cap
      BY <1>0, <2>6, <2>7
    <2> QED
      BY <1>2, <2>3, <2>8 DEF Truncated, early, hits
  <1> QED
    BY <1>1, <1>2

\* The slices cover the window, however its length divides.
LEMMA SlicesCover ==
  ASSUME Setting, NEW p, NEW w \in Windows, NEW t \in Nat, w[1] <= t, t <= w[2]
  PROVE  \E s \in SlicesOf(p, w) : s[1] <= t /\ t <= s[2]
  <1> DEFINE n == (w[2] - w[1]) \div SliceWidth
             i == (t - w[1]) \div SliceWidth
  <1>1. /\ w[1] \in Nat /\ w[2] \in Nat /\ SliceWidth \in Nat \ {0}
        /\ t - w[1] \in Nat /\ w[2] - w[1] \in Nat /\ t - w[1] <= w[2] - w[1]
    BY DEF Setting
  <1>2. /\ n \in Nat /\ n * SliceWidth <= w[2] - w[1]
        /\ w[2] - w[1] < n * SliceWidth + SliceWidth
        /\ (w[2] - w[1]) % SliceWidth = 0 => w[2] - w[1] = n * SliceWidth
    BY <1>1, Division
  <1>3. i \in Nat /\ i * SliceWidth <= t - w[1] /\ t - w[1] < i * SliceWidth + SliceWidth
    BY <1>1, Division
  <1>4. ASSUME NEW k \in Nat, NEW l \in Nat, k < l
        PROVE  k * SliceWidth + SliceWidth <= l * SliceWidth
    BY <1>1, <1>4, Multiples
  <1>5. \A k \in Nat : k * SliceWidth \in Nat /\ (k + 1) * SliceWidth = k * SliceWidth + SliceWidth
    BY <1>1
  <1> HIDE DEF n, i
  <1>6. i <= n
    <2>1. CASE n < i
      <3>1. n * SliceWidth + SliceWidth <= i * SliceWidth
        BY <1>2, <1>3, <1>4, <2>1
      <3> QED
        BY <1>1, <1>2, <1>3, <1>5, <3>1
    <2> QED
      BY <1>2, <1>3, <2>1
  <1>7. ASSUME NEW last \in Nat, NEW k \in 0..last, w[1] + k * SliceWidth <= t,
               t <= w[1] + (k + 1) * SliceWidth
        PROVE  \E s \in Slices(w, last) : s[1] <= t /\ t <= s[2]
    <2> DEFINE s == <<w[1] + k * SliceWidth, Least(w[1] + (k + 1) * SliceWidth, w[2])>>
    <2>1. s \in Slices(w, last)
      BY DEF Slices
    <2>2. s[1] <= t /\ t <= s[2]
      BY <1>7 DEF Least
    <2> QED
      BY <2>1, <2>2
  <1>8. w[1] + i * SliceWidth <= t /\ t <= w[1] + (i + 1) * SliceWidth
    BY <1>1, <1>3, <1>5
  <1>9. CASE ~IsLong(w)
    BY <1>9 DEF SlicesOf
  <1>10. CASE IsLong(w) /\ (p = "engine" \/ (w[2] - w[1]) % SliceWidth # 0)
    <2>1. SlicesOf(p, w) = Slices(w, n)
      BY <1>10 DEF SlicesOf, n
    <2> QED
      BY <1>2, <1>3, <1>6, <1>7, <1>8, <2>1
  <1>11. CASE IsLong(w) /\ p # "engine" /\ (w[2] - w[1]) % SliceWidth = 0
    <2>1. SlicesOf(p, w) = Slices(w, n - 1)
      BY <1>11 DEF SlicesOf, n
    <2>2. n * SliceWidth = w[2] - w[1]
      BY <1>1, <1>2, <1>5, <1>11
    <2>3. n \in Nat \ {0}
      <3>1. CASE n = 0
        BY <1>1, <1>5, <1>11, <2>2, <3>1 DEF IsLong
      <3> QED
        BY <1>2, <3>1
    <2>4. CASE i < n
      BY <1>3, <1>7, <1>8, <2>1, <2>3, <2>4
    <2>5. CASE i = n
      <3>1. n - 1 \in Nat /\ n - 1 + 1 = n
        BY <2>3
      <3>2. (n - 1 + 1) * SliceWidth = (n - 1) * SliceWidth + SliceWidth /\ (n - 1) * SliceWidth \in Nat
        BY <1>5, <3>1
      <3>3. t = w[1] + n * SliceWidth
        BY <1>1, <1>3, <1>5, <2>2, <2>5
      <3>4. w[1] + (n - 1) * SliceWidth <= t /\ t <= w[1] + (n - 1 + 1) * SliceWidth
        BY <1>1, <3>1, <3>2, <3>3
      <3> QED
        BY <1>7, <2>1, <3>1, <3>4
    <2> QED
      BY <1>2, <1>3, <1>6, <2>4, <2>5
  <1> QED
    BY <1>9, <1>10, <1>11

\* And stay in it.
LEMMA SlicesInside ==
  ASSUME Setting, NEW p, NEW w \in Windows, NEW s \in SlicesOf(p, w)
  PROVE  s \in Nat \X Nat /\ w[1] <= s[1] /\ s[1] <= s[2] /\ s[2] <= w[2]
  <1> DEFINE n == (w[2] - w[1]) \div SliceWidth
  <1>1. w \in Nat \X Nat /\ w[1] <= w[2] /\ SliceWidth \in Nat \ {0} /\ w[2] - w[1] \in Nat
    BY DEF Setting
  <1>2. n \in Nat /\ n * SliceWidth <= w[2] - w[1]
    BY <1>1
  <1>3. ASSUME NEW i \in 0..n
        PROVE  i * SliceWidth \in Nat /\ i * SliceWidth <= w[2] - w[1]
               /\ (i + 1) * SliceWidth = i * SliceWidth + SliceWidth
    <2>1. n = i + (n - i) /\ n - i \in Nat /\ i \in Nat
      BY <1>2
    <2>2. \A d \in Nat : (i + d) * SliceWidth = i * SliceWidth + d * SliceWidth /\ d * SliceWidth \in Nat
      BY <1>1, <2>1
    <2>3. n * SliceWidth = i * SliceWidth + (n - i) * SliceWidth /\ (n - i) * SliceWidth \in Nat
      BY <2>1, <2>2
    <2> HIDE DEF n
    <2> QED
      BY <1>1, <1>2, <2>1, <2>2, <2>3
  <1> HIDE DEF n
  <1>4. s = w \/ \E i \in 0..n :
          s = <<w[1] + i * SliceWidth, Least(w[1] + (i + 1) * SliceWidth, w[2])>>
    BY <1>2 DEF SlicesOf, Slices, n
  <1>5. ASSUME NEW i \in 0..n,
               s = <<w[1] + i * SliceWidth, Least(w[1] + (i + 1) * SliceWidth, w[2])>>
        PROVE  s \in Nat \X Nat /\ w[1] <= s[1] /\ s[1] <= s[2] /\ s[2] <= w[2]
    BY <1>1, <1>3, <1>5 DEF Least
  <1> QED
    BY <1>1, <1>4, <1>5

-----------------------------------------------------------------------------
(* Every step keeps the invariant.                                           *)

\* What crowds a sample does not change while nothing is stored.
LEMMA CrowdsStay ==
  ASSUME UNCHANGED <<path, window, stored>>, NEW s
  PROVE  /\ IsCrowded(s)' = IsCrowded(s)
         /\ \A j : Before(j, s)' = Before(j, s)
         /\ \A j : JobOK(j)' = JobOK(j)
  BY DEF IsCrowded, Before, JobOK, Truncated, Hits, OfSeries, FirstStep, IsLong

\* Nor is a sample served otherwise.
LEMMA ServesStays ==
  ASSUME UNCHANGED <<path, window, stored, atStart>>, NEW s, NEW j
  PROVE  Serves(j, s)' = Serves(j, s)
  BY CrowdsStay DEF Serves

\* What is covered stays covered when nothing is taken away.
LEMMA CoveredStays ==
  ASSUME UNCHANGED <<path, window, stored, atStart>>, NEW s, Covered(s),
         got \subseteq got', gaps \subseteq gaps', truncated => truncated',
         NEW j \in jobs, jobs \ {j} \subseteq jobs'
  PROVE  Covered(s)' \/ Serves(j, s)
  <1>1. CASE s \in Answered
    <2>1. s \in Answered'
      BY <1>1 DEF Answered
    <2> QED
      BY <2>1 DEF Covered
  <1>2. ASSUME NEW k \in jobs, Serves(k, s)
        PROVE  Covered(s)' \/ Serves(j, s)
    <2>1. CASE k = j
      BY <1>2, <2>1
    <2>2. CASE k # j
      <3>1. k \in jobs' /\ Serves(k, s)'
        BY <1>2, <2>2, ServesStays
      <3> QED
        BY <3>1 DEF Covered
    <2> QED
      BY <2>1, <2>2
  <1>3. CASE \E g \in gaps : Within(s, g)
    <2>1. (\E g \in gaps : Within(s, g))'
      BY <1>3 DEF Within
    <2> QED
      BY <2>1 DEF Covered
  <1>4. CASE Excused(s)
    <2>1. Excused(s)'
      BY <1>4, CrowdsStay DEF Excused
    <2> QED
      BY <2>1 DEF Covered
  <1> QED
    BY <1>1, <1>2, <1>3, <1>4 DEF Covered

\* No query runs at first.
LEMMA InitInv ==
  ASSUME Setting, Init
  PROVE  IInv
  <1>1. IsFiniteSet({})
    BY FS_EmptySet
  <1>2. Types
    BY <1>1 DEF Init, Types
  <1>3. Cover
    BY DEF Init, Cover
  <1> QED
    BY <1>2, <1>3 DEF IInv

\* A query starts with a job for each slice.
LEMMA SelectInv ==
  ASSUME Setting, IInv, Select
  PROVE  IInv'
  <1>1. PICK p \in {"engine", "subset", "split"}, w \in Windows :
          /\ path' = p /\ window' = w
          /\ jobs' = {Job(FirstStep(p, w), s, s[1], s[2]) : s \in SlicesOf(p, w)}
    BY DEF Select
  <1>2. /\ stored' \in Stores /\ atStart' = stored' /\ pc' = "reading" /\ UNCHANGED got
    BY DEF Select
  <1>3. w \in Nat \X Nat /\ w[1] <= w[2]
    BY DEF Setting
  <1>4. FirstStep(p, w) \in {"probe", "halve", "once"} /\ (FirstStep(p, w) = "probe" => p = "engine")
    BY DEF FirstStep
  <1>5. ASSUME NEW s \in SlicesOf(p, w)
        PROVE  JobOK(Job(FirstStep(p, w), s, s[1], s[2]))'
    <2>1. s \in Nat \X Nat /\ w[1] <= s[1] /\ s[1] <= s[2] /\ s[2] <= w[2]
      BY SlicesInside
    <2>2. FirstStep(p, w) = "once" => s = w
      <3>1. FirstStep(p, w) = "once" => ~IsLong(w)
        BY DEF FirstStep
      <3> QED
        BY <3>1 DEF SlicesOf
    <2>3. FirstStep(path, window)' = FirstStep(p, w)
      BY <1>1 DEF FirstStep, IsLong
    <2> QED
      BY <1>1, <1>4, <2>1, <2>2, <2>3 DEF JobOK, JobSet, Job
  <1>6. Types'
    <2>1. \A j \in jobs' : JobOK(j)'
      BY <1>1, <1>5
    <2>2. (\A g \in got : Within(g.sample, g.slice))'
      BY <1>2 DEF IInv, Types, Within
    <2>3. stored' \subseteq SampleSet /\ IsFiniteSet(stored')
      BY <1>2 DEF Setting
    <2> QED
      BY <1>1, <1>2, <1>3, <2>1, <2>2, <2>3 DEF Types
  <1>7. ASSUME NEW s \in atStart', Within(s, window)'
        PROVE  Covered(s)'
    <2>1. s.time \in Nat /\ w[1] <= s.time /\ s.time <= w[2]
      BY <1>1, <1>2, <1>6, <1>7 DEF Types, Within, SampleSet
    <2>2. PICK c \in SlicesOf(p, w) : c[1] <= s.time /\ s.time <= c[2]
      BY <2>1, SlicesCover
    <2> DEFINE j == Job(FirstStep(p, w), c, c[1], c[2])
    <2>3. j \in jobs' /\ j.from = c[1] /\ j.to = c[2] /\ j.how # "planned"
      BY <1>1, <1>4 DEF Job
    <2> HIDE DEF j
    <2>4. Serves(j, s)'
      BY <2>2, <2>3 DEF Serves, Within
    <2> QED
      BY <2>3, <2>4 DEF Covered
  <1> QED
    BY <1>6, <1>7 DEF IInv, Cover

\* A job is replaced by jobs of the same slice, as long as each sample it serves is
\* served by one of them.
LEMMA Replaced ==
  ASSUME IInv, NEW j \in jobs, NEW new, jobs' = (jobs \ {j}) \cup new, pc = "reading",
         UNCHANGED <<pc, path, window, stored, atStart, got, truncated, gaps>>,
         \A k \in new : JobOK(k),
         \A s \in atStart : Serves(j, s) => \E k \in new : Serves(k, s)
  PROVE  IInv'
  <1>1. \A k \in jobs' : JobOK(k)'
    BY CrowdsStay DEF IInv, Types
  <1>2. Types'
    <2>1. (\A g \in got : Within(g.sample, g.slice))'
      BY DEF IInv, Types, Within
    <2> QED
      BY <1>1, <2>1 DEF IInv, Types
  <1>3. ASSUME NEW s \in atStart, Within(s, window)
        PROVE  Covered(s)'
    <2>1. Covered(s)
      BY <1>3 DEF IInv, Cover
    <2>2. Covered(s)' \/ Serves(j, s)
      BY <2>1, CoveredStays
    <2>3. ASSUME Serves(j, s) PROVE Covered(s)'
      <3>1. PICK k \in new : Serves(k, s)
        BY <2>3
      <3>2. k \in jobs' /\ Serves(k, s)'
        BY <3>1, ServesStays
      <3> QED
        BY <3>2 DEF Covered
    <2> QED
      BY <2>2, <2>3
  <1>4. Cover'
    BY <1>3 DEF Cover, Within
  <1> QED
    BY <1>2, <1>4 DEF IInv

\* A probed slice is fetched as it is, or planned: by PlanServes each sample has its slice.
LEMMA ProbeInv ==
  ASSUME Setting, IInv, NEW j \in jobs, Probe(j)
  PROVE  IInv'
  <1>1. PICK cuts \in SUBSET Density(j.from, j.to) :
          /\ IsPlan(cuts, j.from, j.to)
          /\ jobs' = (jobs \ {j}) \cup
               {Job("planned", j.slice, s[1], s[2]) : s \in Planned(cuts, j.from, j.to)}
    BY DEF Probe
  <1> DEFINE new == {Job("planned", j.slice, s[1], s[2]) : s \in Planned(cuts, j.from, j.to)}
  <1>2. Types /\ JobOK(j) /\ j.how = "probe" /\ pc = "reading"
    BY DEF IInv, Types, Probe
  <1>3. /\ path = "engine" /\ j.slice \in Nat \X Nat /\ j.from \in Nat /\ j.to \in Nat
        /\ window[1] <= j.slice[1] /\ j.slice[1] <= j.from /\ j.from <= j.to
        /\ j.to <= j.slice[2] /\ j.slice[2] <= window[2]
        /\ window[1] \in Nat /\ window[2] \in Nat
    BY <1>2 DEF JobOK, JobSet, Types
  <1>4. ASSUME NEW w \in Planned(cuts, j.from, j.to)
        PROVE  w[1] \in Nat /\ w[2] \in Nat /\ j.from <= w[1] /\ w[1] <= w[2] /\ w[2] <= j.to
    <2> DEFINE starts == {j.from} \cup {k * Floor : k \in cuts}
    <2>1. \A t \in starts : t \in Nat /\ j.from <= t /\ t <= j.to
      BY <1>1, <1>2, <1>3, CutIsInside
    <2>2. w \in Between(starts, j.to)
      BY DEF Planned
    <2> HIDE DEF starts
    <2> QED
      BY <1>3, <2>1, <2>2 DEF Between
  <1>5. ASSUME NEW k \in new
        PROVE  JobOK(k)
    <2>1. PICK w \in Planned(cuts, j.from, j.to) : k = Job("planned", j.slice, w[1], w[2])
      OBVIOUS
    <2>2. w[1] \in Nat /\ w[2] \in Nat /\ j.from <= w[1] /\ w[1] <= w[2] /\ w[2] <= j.to
      BY <1>4
    <2>3. FirstStep(path, window) # "once"
      BY <1>3 DEF FirstStep
    <2> QED
      BY <1>3, <2>1, <2>2, <2>3 DEF JobOK, JobSet, Job
  <1>6. ASSUME NEW s \in atStart, Serves(j, s)
        PROVE  \E k \in new : Serves(k, s)
    <2>1. s \in stored /\ j.from <= s.time /\ s.time <= j.to
      BY <1>2, <1>6 DEF Types, Serves, Within
    <2>2. window[1] <= j.from /\ j.to <= window[2]
      BY <1>3
    <2>3. PICK w \in Planned(cuts, j.from, j.to) :
            /\ w[1] <= s.time /\ s.time <= w[2]
            /\ ~IsCrowded(s) => Cardinality({h \in Hits(w[1], w[2]) : h.time <= s.time}) <= Cap
      BY <1>1, <1>2, <1>3, <2>1, <2>2, PlanServes
    <2> DEFINE k == Job("planned", j.slice, w[1], w[2])
    <2>4. k \in new /\ k.from = w[1] /\ k.to = w[2]
      BY DEF Job
    <2> HIDE DEF k
    <2>5. Serves(k, s)
      BY <2>3, <2>4 DEF Serves, Within, Before
    <2> QED
      BY <2>4, <2>5
  <1> HIDE DEF new
  <1>7. /\ jobs' = (jobs \ {j}) \cup new
        /\ UNCHANGED <<pc, path, window, stored, atStart, got, truncated, gaps>>
    BY <1>1 DEF Probe, new
  <1> QED
    BY <1>2, <1>5, <1>6, <1>7, Replaced

\* Without a histogram the slice is halved on demand.
LEMMA ProbeFailsInv ==
  ASSUME IInv, NEW j \in jobs, ProbeFails(j)
  PROVE  IInv'
  <1> DEFINE k == [j EXCEPT !.how = "halve"]
  <1>1. JobOK(j) /\ j.how = "probe"
    BY DEF IInv, Types, ProbeFails
  <1>2. k.from = j.from /\ k.to = j.to /\ k.how = "halve" /\ JobOK(k)
    BY <1>1 DEF JobOK, JobSet
  <1> HIDE DEF k
  <1> DEFINE new == {k}
  <1>3. \A l \in new : JobOK(l)
    BY <1>2
  <1>4. \A s \in atStart : Serves(j, s) => \E l \in new : Serves(l, s)
    BY <1>2 DEF Serves, Within
  <1>5. jobs' = (jobs \ {j}) \cup new /\ pc = "reading"
        /\ UNCHANGED <<pc, path, window, stored, atStart, got, truncated, gaps>>
    BY DEF ProbeFails, k
  <1> HIDE DEF new
  <1> QED
    BY <1>3, <1>4, <1>5, Replaced

\* A slice with too many samples is cut in two that meet.
LEMMA HalveInv ==
  ASSUME IInv, NEW j \in jobs, Halve(j)
  PROVE  IInv'
  <1> DEFINE mid == j.from + (j.to - j.from) \div 2
             left == [j EXCEPT !.to = mid]
             right == [j EXCEPT !.from = mid]
             new == {left, right}
  <1>1. JobOK(j) /\ j.how = "halve"
    BY DEF IInv, Types, Halve, CanHalve
  <1>2. j.from \in Nat /\ j.to \in Nat /\ j.from <= j.to
    BY <1>1 DEF JobOK, JobSet
  <1>3. mid \in Nat /\ j.from <= mid /\ mid <= j.to
    BY <1>2
  <1>4. /\ left.from = j.from /\ left.to = mid /\ left.how = "halve"
        /\ right.from = mid /\ right.to = j.to /\ right.how = "halve"
    BY <1>1 DEF JobOK, JobSet
  <1> HIDE DEF mid
  <1>5. \A k \in new : JobOK(k)
    BY <1>1, <1>2, <1>3 DEF JobOK, JobSet, IInv, Types
  <1>6. jobs' = (jobs \ {j}) \cup new /\ pc = "reading"
        /\ UNCHANGED <<pc, path, window, stored, atStart, got, truncated, gaps>>
    BY DEF Halve, mid
  <1> HIDE DEF left, right
  <1>7. ASSUME NEW s \in atStart, Serves(j, s)
        PROVE  \E k \in new : Serves(k, s)
    <2>1. s.time \in Nat /\ j.from <= s.time /\ s.time <= j.to
      BY <1>7 DEF Serves, Within, IInv, Types, SampleSet
    <2>2. CASE s.time <= mid
      BY <1>3, <1>4, <2>1, <2>2 DEF Serves, Within
    <2>3. CASE mid <= s.time
      BY <1>3, <1>4, <2>1, <2>3 DEF Serves, Within
    <2> QED
      BY <1>3, <2>1, <2>2, <2>3
  <1> HIDE DEF new
  <1> QED
    BY <1>5, <1>6, <1>7, Replaced

\* What an answer leaves out of the window is cut off, and the query knows.
LEMMA FetchInv ==
  ASSUME Setting, IInv, NEW j \in jobs, Fetch(j)
  PROVE  IInv'
  <1> DEFINE hits == Hits(j.from, j.to)
  <1>1. PICK r \in QueryFlat(hits) : got' = got \cup {[slice |-> j.slice, sample |-> s] : s \in r}
    BY DEF Fetch
  <1>2. /\ pc = "reading" /\ j.how # "probe" /\ ~(CanHalve(j) /\ Truncated(hits))
        /\ truncated' = (truncated \/ Truncated(hits)) /\ jobs' = jobs \ {j}
        /\ UNCHANGED <<pc, path, window, stored, atStart, gaps>>
    BY DEF Fetch
  <1>3. Types /\ JobOK(j)
    BY DEF IInv, Types
  <1>4. /\ j.slice \in Nat \X Nat /\ j.from \in Nat /\ j.to \in Nat /\ j.from <= j.to
        /\ window[1] <= j.slice[1] /\ j.slice[1] <= j.from /\ j.to <= j.slice[2]
        /\ j.slice[2] <= window[2] /\ window[1] \in Nat /\ window[2] \in Nat
        /\ j.how \in {"probe", "planned", "halve", "once"}
    BY <1>3 DEF JobOK, JobSet, Types
  <1>5. r \subseteq hits
    BY DEF QueryFlat, Returned, OfSeries
  <1>6. ASSUME NEW g \in got'
        PROVE  Within(g.sample, g.slice)'
    <2>1. CASE g \in got
      BY <1>3, <2>1 DEF Types, Within
    <2>2. ASSUME NEW s \in r, g = [slice |-> j.slice, sample |-> s]
          PROVE  Within(g.sample, g.slice)'
      <3>1. s.time \in Nat /\ j.from <= s.time /\ s.time <= j.to
        BY <1>3, <1>5 DEF Hits, Types, SampleSet
      <3>2. g.sample = s /\ g.slice = j.slice
        BY <2>2
      <3> QED
        BY <1>4, <3>1, <3>2 DEF Within
    <2> QED
      BY <1>1, <2>1, <2>2
  <1>7. Types'
    <2>1. \A k \in jobs' : JobOK(k)'
      BY <1>2, <1>3, CrowdsStay DEF Types
    <2> QED
      BY <1>2, <1>3, <1>6, <2>1 DEF Types
  \* What j served was fetched, or is one of too many.
  <1>8. ASSUME NEW s \in atStart, Within(s, window), Serves(j, s)
        PROVE  Covered(s)'
    <2>1. s \in hits /\ s \in stored /\ s.time \in Nat /\ j.from <= s.time /\ s.time <= j.to
      BY <1>3, <1>8 DEF Types, SampleSet, Serves, Within, Hits
    <2>2. CASE s \in r
      <3>1. [slice |-> j.slice, sample |-> s] \in got'
        BY <1>1, <2>2
      <3>2. s \in Answered'
        BY <3>1 DEF Answered
      <3> QED
        BY <3>2 DEF Covered
    <2>3. CASE s \notin r
      <3>1. Truncated(hits) /\ (path = "engine" => Cardinality(Before(j, s)) > Cap)
        BY <1>3, <2>1, <2>3, LeftOut DEF Before
      <3>2. CASE j.how = "planned"
        <4>1. path = "engine" /\ Cap \in Nat
          BY <1>3, <3>2 DEF JobOK, Setting
        <4>2. Cardinality(Before(j, s)) \in Nat
          <5>1. Before(j, s) \in SUBSET hits
            BY DEF Before
          <5> QED
            BY <1>3, <5>1, HitsAreFinite
        <4>3. stored = atStart => IsCrowded(s)
          BY <1>8, <3>1, <3>2, <4>1, <4>2 DEF Serves
        <4> QED
          BY <1>2, <3>1, <4>3, CrowdsStay DEF Covered, Excused
      <3>3. CASE j.how = "halve"
        <4>1. j.to <= j.from + Floor /\ Floor \in Nat
          BY <1>2, <1>4, <3>1, <3>3 DEF CanHalve, Setting
        <4>2. hits \subseteq Hits(j.from, Least(j.from + Floor, window[2]))
          BY <1>3, <1>4, <4>1 DEF Hits, Least, Types, SampleSet
        <4>3. FirstStep(path, window) # "once"
          BY <1>3, <3>3 DEF JobOK
        <4> HIDE DEF hits
        <4>4. IsCrowded(s)
          BY <1>3, <1>4, <2>1, <3>1, <4>1, <4>2, <4>3, NarrowIsCrowded
        <4> QED
          BY <1>2, <3>1, <4>4, CrowdsStay DEF Covered, Excused
      <3>4. CASE j.how = "once"
        <4>1. FirstStep(path, window) = "once" /\ j.from = window[1] /\ j.to = window[2]
          BY <1>3, <3>4 DEF JobOK
        <4>2. IsCrowded(s)
          BY <3>1, <4>1 DEF IsCrowded
        <4> QED
          BY <1>2, <3>1, <4>2, CrowdsStay DEF Covered, Excused
      <3> QED
        BY <1>2, <1>4, <3>2, <3>3, <3>4
    <2> QED
      BY <2>2, <2>3
  <1>9. ASSUME NEW s \in atStart, Within(s, window)
        PROVE  Covered(s)'
    <2>1. Covered(s)
      BY <1>2, <1>9 DEF IInv, Cover
    <2>2. got \subseteq got' /\ gaps \subseteq gaps' /\ (truncated => truncated')
          /\ jobs \ {j} \subseteq jobs'
      BY <1>1, <1>2
    <2>3. Covered(s)' \/ Serves(j, s)
      BY <1>2, <2>1, <2>2, CoveredStays
    <2> QED
      BY <1>8, <1>9, <2>3
  <1>10. Cover'
    BY <1>2, <1>9 DEF Cover, Within
  <1> QED
    BY <1>7, <1>10 DEF IInv

\* What a failed window had is in a gap.
LEMMA WindowIsLostInv ==
  ASSUME IInv, NEW j \in jobs, WindowIsLost(j)
  PROVE  IInv'
  <1>1. /\ pc = "reading" /\ gaps' = gaps \cup {<<j.from, j.to>>} /\ jobs' = jobs \ {j}
        /\ UNCHANGED <<pc, path, window, stored, atStart, got, truncated>>
    BY DEF WindowIsLost
  <1>2. Types'
    <2>1. \A k \in jobs' : JobOK(k)'
      BY <1>1, CrowdsStay DEF IInv, Types
    <2>2. (\A g \in got : Within(g.sample, g.slice))'
      BY <1>1 DEF IInv, Types, Within
    <2> QED
      BY <1>1, <2>1, <2>2 DEF IInv, Types
  <1>3. ASSUME NEW s \in atStart, Within(s, window)
        PROVE  Covered(s)'
    <2>1. Covered(s)
      BY <1>1, <1>3 DEF IInv, Cover
    <2>2. Covered(s)' \/ Serves(j, s)
      BY <1>1, <2>1, CoveredStays
    <2>3. ASSUME Serves(j, s) PROVE Covered(s)'
      BY <1>1, <2>3 DEF Covered, Serves, Within
    <2> QED
      BY <2>2, <2>3
  <1>4. Cover'
    BY <1>1, <1>3 DEF Cover, Within
  <1> QED
    BY <1>2, <1>4 DEF IInv

\* And what a failed slice had, with its jobs.
LEMMA SliceIsLostInv ==
  ASSUME IInv, NEW j \in jobs, SliceIsLost(j)
  PROVE  IInv'
  <1>1. /\ pc = "reading" /\ gaps' = gaps \cup {j.slice}
        /\ jobs' = {k \in jobs : k.slice # j.slice} /\ got' = {g \in got : g.slice # j.slice}
        /\ UNCHANGED <<pc, path, window, stored, atStart, truncated>>
    BY DEF SliceIsLost
  <1>2. Types'
    <2>1. \A k \in jobs' : JobOK(k)'
      BY <1>1, CrowdsStay DEF IInv, Types
    <2>2. (\A g \in got : Within(g.sample, g.slice))'
      BY <1>1 DEF IInv, Types, Within
    <2> QED
      BY <1>1, <2>1, <2>2 DEF IInv, Types
  <1>3. ASSUME NEW s \in atStart, Within(s, j.slice)
        PROVE  Covered(s)'
    <2>1. (\E g \in gaps : Within(s, g))'
      BY <1>1, <1>3 DEF Within
    <2> QED
      BY <2>1 DEF Covered
  <1>4. ASSUME NEW s \in atStart, Within(s, window)
        PROVE  Covered(s)'
    <2>1. CASE s \in Answered
      <3>1. PICK g \in got : s = g.sample
        BY <2>1 DEF Answered
      <3>2. CASE g.slice = j.slice
        BY <1>3, <3>1, <3>2 DEF IInv, Types
      <3>3. CASE g.slice # j.slice
        <4>1. s \in Answered'
          BY <1>1, <3>1, <3>3 DEF Answered
        <4> QED
          BY <4>1 DEF Covered
      <3> QED
        BY <3>2, <3>3
    <2>2. ASSUME NEW k \in jobs, Serves(k, s)
          PROVE  Covered(s)'
      <3>1. CASE k.slice = j.slice
        <4>1. JobOK(k) /\ s.time \in Nat
          BY DEF IInv, Types, SampleSet
        <4>2. Within(s, k.slice)
          BY <2>2, <4>1 DEF JobOK, JobSet, Serves, Within
        <4> QED
          BY <1>3, <3>1, <4>2
      <3>2. CASE k.slice # j.slice
        <4>1. k \in jobs' /\ Serves(k, s)'
          BY <1>1, <2>2, <3>2, ServesStays
        <4> QED
          BY <4>1 DEF Covered
      <3> QED
        BY <3>1, <3>2
    <2>3. CASE \E g \in gaps : Within(s, g)
      <3>1. (\E g \in gaps : Within(s, g))'
        BY <1>1, <2>3 DEF Within
      <3> QED
        BY <3>1 DEF Covered
    <2>4. CASE Excused(s)
      <3>1. Excused(s)'
        BY <1>1, <2>4, CrowdsStay DEF Excused
      <3> QED
        BY <3>1 DEF Covered
    <2>5. Covered(s)
      BY <1>1, <1>4 DEF IInv, Cover
    <2> QED
      BY <2>1, <2>2, <2>3, <2>4, <2>5 DEF Covered
  <1>5. Cover'
    BY <1>1, <1>4 DEF Cover, Within
  <1> QED
    BY <1>2, <1>5 DEF IInv

\* Samples that arrive later are not among those the query owes.
LEMMA ArriveInv ==
  ASSUME Setting, IInv, Arrive
  PROVE  IInv'
  <1>1. PICK x \in Late \ stored : stored' = stored \cup {x}
    BY DEF Arrive
  <1>2. pc = "reading" /\ UNCHANGED <<pc, path, window, atStart, jobs, got, truncated, gaps>>
    BY DEF Arrive
  <1>3. Types'
    <2>1. stored' \subseteq SampleSet /\ IsFiniteSet(stored')
      BY <1>1, FS_AddElement DEF IInv, Types, Setting
    <2>2. (\A j \in jobs : JobOK(j))'
      BY <1>2 DEF IInv, Types, JobOK, FirstStep, IsLong
    <2>3. (\A g \in got : Within(g.sample, g.slice))'
      BY <1>2 DEF IInv, Types, Within
    <2> QED
      BY <1>1, <1>2, <2>1, <2>2, <2>3 DEF IInv, Types
  <1>4. stored' # atStart'
    BY <1>1, <1>2 DEF IInv, Types
  <1>5. ASSUME NEW s \in atStart, Within(s, window)
        PROVE  Covered(s)'
    <2>1. Covered(s)
      BY <1>2, <1>5 DEF IInv, Cover
    <2>2. CASE s \in Answered
      BY <1>2, <2>2 DEF Covered, Answered
    <2>3. ASSUME NEW j \in jobs, Serves(j, s)
          PROVE  Covered(s)'
      <3>1. j \in jobs' /\ Serves(j, s)'
        BY <1>2, <1>4, <2>3 DEF Serves, Within
      <3> QED
        BY <3>1 DEF Covered
    <2>4. CASE \E g \in gaps : Within(s, g)
      BY <1>2, <2>4 DEF Covered, Within
    <2>5. CASE Excused(s)
      BY <1>2, <1>4, <2>5 DEF Covered, Excused
    <2> QED
      BY <2>1, <2>2, <2>3, <2>4, <2>5 DEF Covered
  <1>6. Cover'
    BY <1>2, <1>5 DEF Cover, Within
  <1> QED
    BY <1>3, <1>6 DEF IInv

\* The steps that change what they are about only: the end of a query, in one way or
\* the other, and none.
LEMMA EndsInv ==
  ASSUME IInv, Merge \/ UNCHANGED vars \/ \E j \in jobs : QueryIsRefused(j)
  PROVE  IInv'
  <1>1. UNCHANGED <<path, window, stored, atStart>>
    BY DEF Merge, vars, QueryIsRefused
  <1>2. jobs' \subseteq jobs /\ got' \subseteq got /\ (pc' = "answered" => jobs' = {})
    BY DEF Merge, vars, QueryIsRefused, IInv, Types
  <1>3. Types'
    <2>1. \A k \in jobs' : JobOK(k)'
      BY <1>1, <1>2, CrowdsStay DEF IInv, Types
    <2>2. (\A g \in got : Within(g.sample, g.slice))'
      BY <1>2 DEF IInv, Types, Within
    <2> QED
      BY <1>1, <1>2, <2>1, <2>2 DEF IInv, Types
  <1>4. CASE \E j \in jobs : QueryIsRefused(j)
    <2>1. Cover'
      BY <1>4 DEF QueryIsRefused, Cover
    <2> QED
      BY <1>3, <2>1 DEF IInv
  <1>5. CASE Merge \/ UNCHANGED vars
    <2>1. UNCHANGED <<jobs, got, truncated, gaps>> /\ (pc' = pc \/ (pc = "reading" /\ pc' = "answered"))
      BY <1>5 DEF Merge, vars
    <2>2. ASSUME NEW s \in atStart, Covered(s)
          PROVE  Covered(s)'
      <3>1. \A j \in jobs : Serves(j, s)' = Serves(j, s)
        BY <1>1, ServesStays
      <3>2. IsCrowded(s)' = IsCrowded(s)
        BY <1>1, CrowdsStay
      <3> QED
        BY <1>1, <2>1, <2>2, <3>1, <3>2 DEF Covered, Answered, Excused, Within
    <2>3. Cover'
      BY <1>1, <2>1, <2>2 DEF Cover, Within, IInv
    <2> QED
      BY <1>3, <2>3 DEF IInv
  <1> QED
    BY <1>4, <1>5

\* IInv is inductive.
LEMMA NextInv ==
  ASSUME Setting, IInv, [Next]_vars
  PROVE  IInv'
  <1>1. CASE Select
    BY <1>1, SelectInv
  <1>2. CASE Merge \/ UNCHANGED vars
    BY <1>2, EndsInv
  <1>3. CASE Arrive
    BY <1>3, ArriveInv
  <1>4. ASSUME NEW j \in jobs, Probe(j) \/ ProbeFails(j) \/ Fetch(j) \/ Halve(j)
        PROVE  IInv'
    BY <1>4, ProbeInv, ProbeFailsInv, FetchInv, HalveInv
  <1>5. ASSUME NEW j \in jobs, QueryFails(j)
        PROVE  IInv'
    BY <1>5, WindowIsLostInv, SliceIsLostInv, EndsInv DEF QueryFails
  <1> QED
    BY <1>1, <1>2, <1>3, <1>4, <1>5 DEF Next

\* An answer misses a sample of its window only for a reason it knows of.
THEOREM NoSampleIsMissedHolds ==
  ASSUME Setting
  PROVE  Spec => []NoSampleIsMissed
  <1>1. IInv => NoSampleIsMissed
    BY DEF IInv, Types, Cover, Covered, Excused, NoSampleIsMissed
  <1>2. Init => IInv
    BY InitInv
  <1>3. IInv /\ [Next]_vars => IInv'
    BY NextInv
  <1> QED
    BY <1>1, <1>2, <1>3, PTL DEF Spec

==============================================================================
