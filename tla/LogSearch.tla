------------------------------ MODULE LogSearch ------------------------------
(***************************************************************************)
(* The Loki handler (extension/adminext/loki_handler.go, loki_metric.go): every  *)
(* branch of a query is searched for, or counted, by itself, and what the        *)
(* branches found is merged (result_merger.go).                                *)
(***************************************************************************)
EXTENDS LogQL

CONSTANTS
  Logs,    \* the stored records, oldest first
  Asked,   \* the queries
  Limits,  \* the limits that clients set
  Kinds    \* what they ask for: the logs, "backward" or "forward", or their "count"

VARIABLES
  pc,        \* "idle", "search" or "done"
  request,   \* the query, its limit and its kind
  branches,  \* the branches not searched yet
  found,     \* per branch that succeeded, the positions in Logs, newest first
  failed,    \* a branch was left out
  answer     \* the records answered, or the number of records

vars == <<pc, request, branches, found, failed, answer>>

NoRequest == [query |-> LogQuery(<<>>, <<>>, <<>>, <<>>), limit |-> 0, kind |-> "count"]

Init ==
  /\ pc = "idle" /\ request = NoRequest /\ branches = <<>> /\ found = <<>>
  /\ failed = FALSE /\ answer = <<>>

Ask ==
  /\ pc = "idle" /\ pc' = "search"
  /\ \E q \in Asked, l \in Limits, k \in Kinds :
       request' = [query |-> q, limit |-> l, kind |-> k]
  /\ branches' = Branches(request'.query)
  /\ UNCHANGED <<found, failed, answer>>

OldestFirst(positions) ==
  SelectSeq([i \in DOMAIN Logs |-> i], LAMBDA i : i \in positions)
NewestFirst(positions) ==
  SelectSeq([i \in DOMAIN Logs |-> Len(Logs) + 1 - i], LAMBDA i : i \in positions)

FirstOf(s) == SubSeq(s, 1, IF Len(s) < request.limit THEN Len(s) ELSE request.limit)

\* The newest hits in either direction, and of those what passes the filter; an
\* aggregation counts every hit.
SearchLogs(b) ==
  LET query == Evaluate(b)
      hits == NewestFirst({i \in DOMAIN Logs : IsHit(query, Logs[i])})
  IN  IF request.kind = "count" THEN hits
      ELSE SelectSeq(FirstOf(hits), LAMBDA i : FilterLogsByPipeline(b, Logs[i]))

SearchBranch ==
  /\ pc = "search" /\ branches # <<>>
  /\ found' = Append(found, SearchLogs(Head(branches)))
  /\ branches' = Tail(branches)
  /\ UNCHANGED <<pc, request, failed, answer>>

\* The branch is left out, and nothing in the answer says so.
BranchFails ==
  /\ pc = "search" /\ branches # <<>>
  /\ branches' = Tail(branches) /\ failed' = TRUE
  /\ UNCHANGED <<pc, request, found, answer>>

\* Two records of one time and body are taken for one.
SameEntry(i, j) == Logs[i].time = Logs[j].time /\ Logs[i].body = Logs[j].body

\* Of the same entries the first is kept.
Distinct(records) ==
  {records[n] : n \in {m \in DOMAIN records :
    \A k \in 1..(m - 1) : ~SameEntry(records[k], records[m])}}

\* The records of one branch stay as they are; those of several are put together and
\* sorted by time.
MergeLogResults ==
  LET kept == Distinct(FlattenSeq(found))
  IN  IF Len(found) = 1 THEN Head(found)
      ELSE FirstOf(IF request.kind = "forward" THEN OldestFirst(kept) ELSE NewestFirst(kept))

\* writeLokiStreamsResponse turns the values of a stream round.
Written(records) == IF request.kind = "forward" THEN Reverse(records) ELSE records

\* The numbers of the branches are added up.
MergeMetricResults == FoldLeft(LAMBDA n, f : n + Len(f), 0, found)

Merge ==
  /\ pc = "search" /\ branches = <<>> /\ found # <<>>
  /\ pc' = "done" /\ found' = <<>>
  /\ answer' = IF request.kind = "count" THEN <<MergeMetricResults>> ELSE Written(MergeLogResults)
  /\ UNCHANGED <<request, branches, failed>>

Return ==
  /\ pc' = "idle" /\ request' = NoRequest /\ branches' = <<>> /\ found' = <<>>
  /\ failed' = FALSE /\ answer' = <<>>

\* Every branch failed.
Refuse == pc = "search" /\ branches = <<>> /\ found = <<>> /\ Return

Respond == pc = "done" /\ Return

Next == Ask \/ SearchBranch \/ BranchFails \/ Merge \/ Refuse \/ Respond

Spec == Init /\ [][Next]_vars

-----------------------------------------------------------------------------
(* Properties                                                                *)

Matching == {i \in DOMAIN Logs : LogMatches(request.query, Logs[i])}

AnsweredLogs == pc = "done" /\ request.kind # "count"

IsAnswered(i) == i \in ToSet(answer)

\* A search for logs of an expressible query misses no matching record, but that one of
\* its time and body may stand for it where branches are merged, and a count is not too
\* small, when every branch succeeded and the limit is never reached: neither the split
\* at "or", nor the last-wins maps, nor the templates turned into words, nor the filter
\* over the hits may exclude one.
NoLogIsMissed ==
  pc = "done" /\ ~failed /\ Expressible(request.query) =>
    IF request.kind = "count" THEN Cardinality(Matching) <= Head(answer)
    ELSE request.limit >= Len(Logs) =>
      \A i \in Matching :
        \/ IsAnswered(i)
        \/ request.query.others # <<>> /\ \E j \in ToSet(answer) : SameEntry(i, j)

\* "De-duplicates by (timestamp, body)" (result_merger.go), which is not to take away a
\* record that differs in its labels.
NoRecordIsDropped ==
  AnsweredLogs /\ ~failed /\ Expressible(request.query) /\ request.limit >= Len(Logs) =>
    \A i \in Matching : IsAnswered(i)

\* "We translate this to |= "ID" (ES match_phrase), which is semantically equivalent"
\* (evaluator.go): a query that asks whether the body contains something, and nothing
\* else, finds every record of which that is true.
TemplateIsEquivalent ==
  AnsweredLogs /\ ~failed /\ request.limit >= Len(Logs) =>
    \A f \in ToSet(request.query.prefix) :
      f.kind = "format" /\ request.query = IsContained(f) => \A i \in Matching : IsAnswered(i)

\* "Step 3: Parse tail (remaining pipeline stages after all OR branches). These are
\* appended to ALL branches equally." (parser.go): every record of an answer passes
\* the label filters behind the last alternative.
TailIsShared ==
  AnsweredLogs /\ Expressible(request.query) /\ request.query.others # <<>> =>
    \A n \in DOMAIN answer, i \in ToSet(request.query.tail) :
      i.kind = "filter" => ItemHolds(request.query, i, Logs[answer[n]])

\* "both log and metric paths apply the filter consistently at the ES level"
\* (evaluator.go): a count of an expressible query is the number of matching records.
CountIsExact ==
  pc = "done" /\ request.kind = "count" /\ ~failed /\ Expressible(request.query) =>
    Head(answer) = Cardinality(Matching)

\* "sorts by timestamp according to direction" (result_merger.go), as it is answered.
AnswerIsOrdered ==
  AnsweredLogs =>
    \A m, n \in DOMAIN answer :
      m < n => LET first == Logs[answer[m]].time
                   second == Logs[answer[n]].time
               IN  IF request.kind = "forward" THEN first <= second ELSE first >= second

==============================================================================
