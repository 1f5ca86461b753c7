------------------------------- MODULE TraceQL -------------------------------
(***************************************************************************)
(* TraceQL (extension/adminext/traceql): the planner, which translates a query   *)
(* into filters of one Elasticsearch search over spans, what that search finds,  *)
(* and the evaluator, which decides a query on the spans of a whole trace.       *)
(*                                                                             *)
(* A span has a status, which is never missing, and one attribute, which may    *)
(* be.  A condition is on either, or on the span having no parent.             *)
(***************************************************************************)
EXTENDS Integers, Sequences, SequencesExt

Nil == "nil"         \* the literal nil of a query, and a missing attribute
Lost == 0 - 1        \* a parent that is not in the trace; 0 is no parent

-----------------------------------------------------------------------------
(* Queries, as the parser builds them                                         *)

Cond(k, o, v) == [key |-> k, op |-> o, val |-> v]
IsRoot == Cond("root", "<", "0")

\* conds are AND-ed; every group is a disjunction of branches, each AND-ed.
Filter(conds, groups) == [type |-> "filter", conds |-> conds, groups |-> groups]
Or(l, r) == [type |-> "or", left |-> l, right |-> r]
Struct(l, o, r) == [type |-> "struct", left |-> l, op |-> o, right |-> r]

Relations == {"&>>", ">>", ">", "~", "!>", "!>>"}

-----------------------------------------------------------------------------
(* The planner.  extract reaches the conditions of a filter, of both sides of a *)
(* disjunction and of the left side of a structural expression, in this order.  *)

RECURSIVE Flat(_), Leaves(_), Reached(_), OrGroups(_), HasStructural(_), RootFilters(_)

Flat(e) == e.type = "filter" \/ (e.type = "or" /\ Flat(e.left) /\ Flat(e.right))

Leaves(e) == IF e.type = "or" THEN Leaves(e.left) \cup Leaves(e.right) ELSE {e}

Reached(e) ==
  CASE e.type = "filter" -> e.conds
    [] e.type = "struct" -> Reached(e.left)
    [] Flat(e) -> <<>>
    [] OTHER -> Reached(e.left) \o Reached(e.right)

HasStructural(e) ==
  \/ e.type = "struct"
  \/ e.type = "or" /\ (HasStructural(e.left) \/ HasStructural(e.right))

\* A later condition on the same key with the same operator takes the place of an
\* earlier one in the plan's map.
LastOf(conds) == {conds[i] : i \in {j \in 1 .. Len(conds) :
  \A k \in j + 1 .. Len(conds) : conds[k].key # conds[j].key \/ conds[k].op # conds[j].op}}

\* What a branch of a disjunction contributes to the group of operator o.
PushedBranch(conds, o) == {c \in LastOf(conds) : c.op = o /\ c.val # Nil}

\* A branch that contributes nothing is left out, and with all of them the group.
OrGroup(branches, o) ==
  LET pushed == {PushedBranch(b, o) : b \in branches} \ {{}}
  IN  IF pushed = {} THEN {} ELSE {[op |-> o, branches |-> pushed]}

\* TagsOr, TagsNotOr and TagsRegexOr of the plan.
OrGroups(e) ==
  CASE e.type = "filter" -> UNION {OrGroup(ToSet(g), "=") : g \in ToSet(e.groups)}
    [] e.type = "struct" -> OrGroups(e.left)
    [] Flat(e) -> UNION {OrGroup({f.conds : f \in Leaves(e)}, o) : o \in {"=", "!="}}
    [] OTHER -> OrGroups(e.left) \cup OrGroups(e.right)

\* The filter of each branch of a disjunction that its root spans must pass; none
\* when one branch has no such filter.
RootFilters(e) ==
  CASE e.type = "filter" -> {e}
    [] e.type = "struct" -> RootFilters(e.left)
    [] OTHER -> IF RootFilters(e.left) = {} \/ RootFilters(e.right) = {} THEN {}
                ELSE RootFilters(e.left) \cup RootFilters(e.right)

\* SafeConditions without the intersection: what some branch requires is kept.
SafeConditionsOfAny(e) ==
  {c \in UNION {LastOf(f.conds) : f \in RootFilters(e)} :
     (c.op = "=" /\ c.val # Nil) \/ c = IsRoot}

\* The conditions that all of those filters have.
SafeConditions(e) ==
  {c \in UNION {LastOf(f.conds) : f \in RootFilters(e)} :
     /\ (c.op = "=" /\ c.val # Nil) \/ c = IsRoot
     /\ \A f \in RootFilters(e) : c \in LastOf(f.conds)}

\* relaxStructuralConditions looks at equalities, at IsRoot and at TagsOr only.
RelaxedConditions(e) ==
  {c \in LastOf(Reached(e)) :
     c.op \in {"=", "<"} /\ c.val # Nil => \E s \in SafeConditions(e) : s.key = c.key}

Plan(e) ==
  [structural |-> HasStructural(e),
   must |-> IF HasStructural(e) THEN RelaxedConditions(e) ELSE LastOf(Reached(e)),
   should |-> {g \in OrGroups(e) : HasStructural(e) => g.op # "="}]

-----------------------------------------------------------------------------
(* The search.  A document is a span, without the rest of its trace.            *)

Field(c, s) == IF c.key = "status" THEN s.status ELSE s.tag

Fits(c, s) ==
  CASE c.key = "root" -> s.parent = 0
    [] c.op = "=" -> Field(c, s) = c.val
    [] c.op = "!=" -> Field(c, s) # c.val
    [] OTHER -> TRUE              \* an operator the plan does not translate

Candidate(plan, t) ==
  \E i \in DOMAIN t :
    /\ \A c \in plan.must : Fits(c, t[i])
    /\ \A g \in plan.should : \E b \in g.branches : \A c \in b : Fits(c, t[i])

-----------------------------------------------------------------------------
(* The evaluator, on the spans of a whole trace                                *)

\* A condition on a missing attribute never matches, nor does a comparison with nil.
MatchCondition(c, s) ==
  IF c.key = "root" THEN s.parent = 0
  ELSE /\ c.val # Nil
       /\ Field(c, s) # Nil
       /\ IF c.op = "=" THEN Field(c, s) = c.val ELSE Field(c, s) # c.val

MatchAll(conds, s) == \A c \in ToSet(conds) : MatchCondition(c, s)

MatchSpanFilter(f, s) ==
  /\ MatchAll(f.conds, s)
  /\ \A g \in ToSet(f.groups) : \E b \in ToSet(g) : MatchAll(b, s)

IsChild(t, p, c) == t[c].parent = p

\* The parents of a span come before it in t.
IsDescendant(t, a, d) ==
  LET above[i \in DOMAIN t] ==
        IF t[i].parent \in DOMAIN t THEN {t[i].parent} \cup above[t[i].parent] ELSE {}
  IN  a \in above[d]

Related(o, t, l, r) ==
  CASE o \in {"&>>", ">>"} -> IsDescendant(t, l, r)
    [] o = ">" -> IsChild(t, l, r)
    [] o = "~" -> t[l].parent = t[r].parent
    [] o = "!>" -> ~IsChild(t, l, r)
    [] o = "!>>" -> ~IsDescendant(t, l, r)

\* An operand of a structural expression that is not a filter matches no span.
RECURSIVE EvaluateTrace(_, _)
EvaluateTrace(e, t) ==
  CASE e.type = "filter" -> \E i \in DOMAIN t : MatchSpanFilter(e, t[i])
    [] e.type = "or" -> EvaluateTrace(e.left, t) \/ EvaluateTrace(e.right, t)
    [] OTHER -> /\ e.left.type = "filter" /\ e.right.type = "filter"
                /\ \E l, r \in DOMAIN t : /\ MatchSpanFilter(e.left, t[l])
                                          /\ MatchSpanFilter(e.right, t[r])
                                          /\ Related(e.op, t, l, r)

-----------------------------------------------------------------------------
(* Every branch contributes to the group of operator o, or none does.          *)
Uniform(branches, o) ==
  (\E b \in branches : PushedBranch(b, o) # {}) => \A b \in branches : PushedBranch(b, o) # {}

\* The queries whose disjunctions the planner can translate: their branches
\* contribute to the same groups, and beside a structural branch there are only
\* the conditions that relaxStructuralConditions looks at.
Translated(e) ==
  CASE e.type = "filter" -> \A g \in ToSet(e.groups) : Uniform(ToSet(g), "=")
    [] e.type = "struct" -> TRUE
    [] Flat(e) -> \A o \in {"=", "!="} : Uniform({f.conds : f \in Leaves(e)}, o)
    [] OTHER -> /\ \A c \in ToSet(Reached(e)) : c.op \in {"=", "<", "!~"} /\ c.val # Nil
                /\ \A g \in OrGroups(e) : g.op = "="

==============================================================================
