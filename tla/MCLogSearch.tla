----------------------------- MODULE MCLogSearch -----------------------------
(***************************************************************************)
(* Small logs and queries, for TLC: every combination of labels and words, of     *)
(* which one is a part of another, and queries of up to three filters.           *)
(***************************************************************************)
EXTENDS LogQL, FiniteSetsExt

CONSTANTS Levels, TraceIDs, Pods, Words

\* "error" contains "err".
MCPartsOf == [w \in Words |-> IF w = "error" THEN {"error", "err"} ELSE {w}]

ALevel == CHOOSE v \in Levels : TRUE

Whole == {w \in Words : IsWhole(w)}
Bodies == SUBSET Whole \cup {{w} : w \in Words}

\* One record of every kind.  Those that differ only in body and pod have one time.
TimeOf(level, trace) == (IF level = ALevel THEN 1 ELSE 3) + (IF trace = None THEN 0 ELSE 1)
RecordsAt(time) ==
  {r \in [time : {time}, level : Levels, trace : TraceIDs \cup {None}, pod : Pods \cup {None},
           body : Bodies] : TimeOf(r.level, r.trace) = time}
MCLogs ==
  FoldLeft(LAMBDA s, time : FoldSet(LAMBDA r, l : Append(l, r), s, RecordsAt(time)),
           <<>>, <<1, 2, 3, 4>>)

Matchers ==
  {Matcher("level", "=", {v}) : v \in Levels}
    \cup {Matcher("level", o, {ALevel}) : o \in {"!=", "=~"}}
    \cup {Matcher("level", "!~", Levels)}
    \cup {Matcher("trace", "=", {v}) : v \in TraceIDs}
    \cup {Matcher("pod", o, {v}) : o \in {"=", "!="}, v \in Pods}

LineFilters ==
  {LineFilter("|=", {w}) : w \in Words}
    \cup {LineFilter("|~", Whole), LineFilter("!~", Words)}

\* A label that says whether the body has the word, and what is asked about it.
Template == {LabelFormat("found", w) : w \in Words}
IsTrue == LabelFilter(Matcher("found", "=", {"true"}))

Items == {LabelFilter(m) : m \in Matchers} \cup LineFilters
Basic == {LabelFilter(Matcher("trace", "=", {v})) : v \in TraceIDs}
         \cup {LabelFilter(Matcher("level", "=", {ALevel}))}
         \cup {LineFilter("|=", {w}) : w \in Whole}

MCAsked ==
  {LogQuery(<<m, n>>, <<>>, <<>>, <<>>) : m, n \in Matchers}
    \cup {LogQuery(<<m>>, <<LabelFilter(n)>>, <<>>, <<>>) : m, n \in Matchers}
    \cup {LogQuery(<<>>, <<i>>, <<j>>, <<>>) : i, j \in Items}
    \cup {LogQuery(<<>>, <<ParserStage(n)>>, <<j>>, <<>>) : n \in Matchers, j \in Items}
    \cup {LogQuery(<<>>, <<i, j>>, <<k>>, <<l>>) : i, j, k, l \in Basic}
    \cup {IsContained(f) : f \in Template}
    \cup {LogQuery(<<>>, <<f, IsTrue>>, <<>>, <<j>>) : f \in Template, j \in Items}
    \cup {LogQuery(<<>>, <<f, IsTrue>>, <<j, k>>, <<>>) : f \in Template, j, k \in Basic}
    \cup {LogQuery(<<>>, <<f, i>>, <<IsTrue>>, <<>>) : f \in Template, i \in Items}

==============================================================================
