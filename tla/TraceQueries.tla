----------------------------- MODULE TraceQueries -----------------------------
(***************************************************************************)
(* The search for traces (extension/adminext/tempo_handler.go): a query is       *)
(* planned and its filters are searched for; the candidates of a query with      *)
(* structural operators are then read and decided one by one.  The evaluator is  *)
(* the meaning of a query: the search must find every trace that it matches.     *)
(* The limits of the search, of 20 traces, and of the candidates that are read,   *)
(* of 50, are not reached.                                                    *)
(***************************************************************************)
EXTENDS TraceQL

CONSTANTS Traces, Queries

VARIABLES
  pc,      \* "idle", "search", "verify" or "done"
  query,   \* what was asked
  plan,    \* and its translation
  answer,  \* the traces found so far
  unread   \* candidates whose spans could not be read

vars == <<pc, query, plan, answer, unread>>

All == Filter(<<>>, <<>>)

Init == pc = "idle" /\ query = All /\ plan = Plan(All) /\ answer = {} /\ unread = {}

Ask ==
  /\ pc = "idle"
  /\ pc' = "search"
  /\ \E q \in Queries : query' = q /\ plan' = Plan(q)
  /\ UNCHANGED <<answer, unread>>

Search ==
  /\ pc = "search"
  /\ answer' = {t \in Traces : Candidate(plan, t)}
  /\ pc' = IF plan.structural THEN "verify" ELSE "done"
  /\ UNCHANGED <<query, plan, unread>>

\* Every candidate is read and decided; one that cannot be read is left out.
StructuralPostFilter ==
  /\ pc = "verify"
  /\ \E failed \in {{}, answer} :
       /\ unread' = failed
       /\ answer' = {t \in answer \ failed : EvaluateTrace(query, t)}
  /\ pc' = "done"
  /\ UNCHANGED <<query, plan>>

Return ==
  /\ pc' = "idle" /\ query' = All /\ plan' = Plan(All)
  /\ answer' = {} /\ unread' = {}

\* The search failed: the request is answered with the error.
SearchFails == pc = "search" /\ Return

Respond == pc = "done" /\ Return

Next == Ask \/ Search \/ SearchFails \/ StructuralPostFilter \/ Respond

Spec == Init /\ [][Next]_vars

-----------------------------------------------------------------------------
\* A search of a query that the planner can translate misses no trace of which a
\* span, or two related spans, match it, except those that could not be read:
\* neither the last-wins maps of the plan, nor the conditions it leaves out or
\* relaxes, nor the search by single spans may exclude one.
NoMatchIsMissed ==
  pc = "done" /\ Translated(query) =>
    {t \in Traces : EvaluateTrace(query, t)} \subseteq answer \cup unread

==============================================================================
