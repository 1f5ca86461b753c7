-------------------------------- MODULE LogQL --------------------------------
(***************************************************************************)
(* LogQL (extension/adminext/logql): the parser, which splits a query with     *)
(* "or" into branches, the evaluator, which translates a branch into a query    *)
(* of the log reader, what that finds in Elasticsearch, and the filter of the    *)
(* Loki handler over its hits.                                                *)
(*                                                                           *)
(* A record has a time, a level, a trace or None, one resource attribute (pod)   *)
(* or None, and a body, which is a set of words: what the analyzer makes of it.   *)
(* A word may be a part of another one, and a filter asks for a word or a part.  *)
(* A pattern is the set of what it matches: one element for a plain string, more *)
(* for an alternation.                                                        *)
(***************************************************************************)
EXTENDS Naturals, Sequences, SequencesExt, FiniteSets

CONSTANT PartsOf   \* [word -> the words that are part of it, itself included]

None == "none"             \* a label that a record does not have
Known == {"level", "trace"}    \* the labels that filterLogsByPipeline knows
Stored == Known \cup {"pod"}   \* the labels of a record

-----------------------------------------------------------------------------
(* Queries: a stream selector, the items before the first "or", one filter after *)
(* each "or", and the items after the last of them (after the selector when      *)
(* there is no "or").  An item is a line filter or a stage of the pipeline.      *)

Matcher(n, o, v) == [name |-> n, op |-> o, vals |-> v]
NoMatcher == Matcher("", "", {})

LineFilter(o, w) == [kind |-> "line", op |-> o, words |-> w]
LabelFilter(m) == [kind |-> "filter", match |-> m]
ParserStage(m) == [kind |-> "parser", match |-> m]    \* | json, | json | m
LabelFormat(n, w) == [kind |-> "format", name |-> n, word |-> w]

LogQuery(selector, prefix, others, tail) ==
  [selector |-> selector, prefix |-> prefix, others |-> others, tail |-> tail]

\* Whether a templated label is true.
IsContained(f) ==
  LogQuery(<<>>, <<f, LabelFilter(Matcher(f.name, "=", {"true"}))>>, <<>>, <<>>)

IsLine(i) == i.kind = "line"
IsStage(i) == i.kind # "line"

-----------------------------------------------------------------------------
(* The parser                                                                 *)

Shared(q) == [selector |-> q.selector, lines |-> SelectSeq(q.prefix, IsLine),
              pipe |-> SelectSeq(q.prefix, IsStage)]

\* Mutant of Stripped: the label filter of the first branch stays in the others.
StrippedNothing(stage) == stage

\* The label filter of the last stage belongs to the first branch.
Stripped(stage) ==
  IF stage.kind = "format" THEN stage ELSE [stage EXCEPT !.match = NoMatcher]

CloneQueryPrefix(b) ==
  [b EXCEPT !.lines = <<>>,
            !.pipe = IF @ = <<>> THEN @ ELSE Append(Front(@), Stripped(Last(@)))]

WithItems(b, items) ==
  [b EXCEPT !.lines = @ \o SelectSeq(items, IsLine), !.pipe = @ \o SelectSeq(items, IsStage)]

\* The last branch takes every item up to the end of the query: nothing is left for
\* parseTailAfterOR.
Branches(q) ==
  LET n == Len(q.others)
      first == Shared(q)
  IN  IF n = 0 THEN <<WithItems(first, q.tail)>>
      ELSE <<first>> \o
           [i \in 1 .. n |-> WithItems(CloneQueryPrefix(first),
                               <<q.others[i]>> \o (IF i = n THEN q.tail ELSE <<>>))]

-----------------------------------------------------------------------------
(* The evaluator                                                              *)

Filters(b) == {s \in ToSet(b.pipe) : s.kind = "filter" /\ s.match # NoMatcher}
Formats(b) == {s \in ToSet(b.pipe) : s.kind = "format"}

\* The labels whose template the evaluator turns into a search of the body.
Templated(b) == {f.name : f \in Formats(b)} \cap {s.match.name : s \in Filters(b)}

\* What goes into the maps of the query: the selector, then the label filters.
Pushed(b) ==
  b.selector \o FoldLeft(LAMBDA ms, s : IF s \in Filters(b) /\ s.match.name \notin Templated(b)
                                        THEN Append(ms, s.match) ELSE ms, <<>>, b.pipe)

\* A later matcher on the same label with the same operator takes the place of an
\* earlier one.
LastMatchers(ms) == {ms[i] : i \in {j \in DOMAIN ms :
  \A k \in j + 1 .. Len(ms) : ms[k].name # ms[j].name \/ ms[k].op # ms[j].op}}

\* A regular expression without metacharacters.
IsPlain(line) == line.op = "|~" /\ Cardinality(line.words) = 1

Evaluate(b) ==
  LET lines == ToSet(b.lines)
  IN  [labels |-> LastMatchers(Pushed(b)),
       words |-> UNION {l.words : l \in {k \in lines : k.op \in {"|=", "!="} \/ IsPlain(k)}}
                   \cup {f.word : f \in {g \in Formats(b) : g.name \in Templated(b)}},
       regexes |-> {l.words : l \in {k \in lines : k.op = "|~" /\ ~IsPlain(k)}},
       notRegexes |-> {l.words : l \in {k \in lines : k.op = "!~"}}]

-----------------------------------------------------------------------------
(* The search and the filter over its hits                                     *)

LabelOf(r, n) == IF n \in Stored THEN r[n] ELSE None

\* buildLogSearchQuery reads neither LabelNot nor LabelNotMatch; the match query on
\* the body demands every word, whatever stands before it.  Both it and the regular
\* expressions are compared with whole words.
IsHit(s, r) ==
  /\ \A m \in s.labels : m.op \in {"=", "=~"} => LabelOf(r, m.name) \in m.vals
  /\ s.words \subseteq r.body
  /\ \A w \in s.regexes : w \cap r.body # {}
  /\ \A w \in s.notRegexes : w \cap r.body = {}

\* A pattern is looked for as it is written.
MatchLabelFilter(m, r) ==
  LET value == IF m.name \in Known THEN r[m.name] ELSE None
  IN  CASE m.op = "="  -> value \in m.vals
        [] m.op = "!=" -> value \notin m.vals
        [] m.op = "=~" -> {value} = m.vals
        [] m.op = "!~" -> {value} # m.vals

FilterLogsByPipeline(b, r) ==
  \A s \in Filters(b) :
    s.match.name \in {f.name : f \in Formats(b)} \/ MatchLabelFilter(s.match, r)

-----------------------------------------------------------------------------
(* What a query means: an item holds of a record, a stage with a label filter if  *)
(* the record's label matches; a templated label says whether the body contains   *)
(* the word, be it as a part of another.  The filters that "or" connects are      *)
(* alternatives, the rest holds of all.                                        *)

HasPart(r, w) == \E word \in r.body : w \in PartsOf[word]

ValueOf(q, n, r) ==
  IF \E f \in ToSet(q.prefix) : f.kind = "format" /\ f.name = n
  THEN IF \E f \in ToSet(q.prefix) : f.kind = "format" /\ f.name = n /\ HasPart(r, f.word)
       THEN "true" ELSE "false"
  ELSE LabelOf(r, n)

MatcherHolds(q, m, r) == (m.op \in {"=", "=~"}) = (ValueOf(q, m.name, r) \in m.vals)

ItemHolds(q, i, r) ==
  CASE i.kind = "line" -> (i.op \in {"|=", "|~"}) = (\E w \in i.words : HasPart(r, w))
    [] i.kind = "format" -> TRUE
    [] OTHER -> i.match = NoMatcher \/ MatcherHolds(q, i.match, r)

LogMatches(q, r) ==
  LET Holds(i) == ItemHolds(q, i, r)
  IN  /\ \A m \in ToSet(q.selector) : MatcherHolds(q, m, r)
      /\ \A i \in ToSet(q.tail) : Holds(i)
      /\ IF q.others = <<>> THEN \A i \in ToSet(q.prefix) : Holds(i)
         ELSE /\ \A i \in ToSet(Front(q.prefix)) : Holds(i)
              /\ \E i \in {Last(q.prefix)} \cup ToSet(q.others) : Holds(i)

\* No word contains w but w itself, so that looking for words finds all of it.
IsWhole(w) == \A word \in DOMAIN PartsOf : w \in PartsOf[word] => word = w

\* The items that the translation does not turn into something narrower: no line
\* filter "!=", none that asks for a part of a word, no label filter that
\* filterLogsByPipeline cannot decide, and no question about a templated label but
\* whether it is true.
Expressible(q) ==
  \A i \in ToSet(q.prefix \o q.others \o q.tail) :
    CASE i.kind = "line" -> i.op = "!~" \/ (i.op # "!=" /\ \A w \in i.words : IsWhole(w))
      [] i.kind = "format" -> IsWhole(i.word)
      [] i.kind = "filter" ->
           \/ i.match.name \in Stored /\ i.match.op \in {"!=", "!~"}
           \/ i.match.name \in Known /\ Cardinality(i.match.vals) = 1
           \/ \E f \in ToSet(q.prefix) :
                f.kind = "format" /\ i.match = Matcher(f.name, "=", {"true"})
      [] OTHER -> TRUE

==============================================================================
