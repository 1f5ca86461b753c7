------------------------------ MODULE McpSessions ------------------------------
(***************************************************************************)
(* An Arthas session of the MCP server (mcpext): the SessionManager's record   *)
(* of it, and the SessionOrchestrator's calls, each of which looks at the      *)
(* record, submits a task for the agent, polls for its result and then         *)
(* changes the record, with nothing locked in between.                         *)
(*                                                                         *)
(* One session is modelled: sessions share the limit on their number only,     *)
(* which is a refusal that may happen.  A remote session is named by the task  *)
(* that opened it.                                                           *)
(***************************************************************************)
EXTENDS Naturals

CONSTANTS
  Opens,        \* the calls that open it, with one RequestID
  Others,       \* the calls that use it, each of any kind
  MaxRetries,   \* maxOpenRetries and maxPullRetries
  MaxTroubles,  \* bound: failed submissions and tasks, remote sessions that end
  NULL

Calls == Opens \cup Others
Kinds == {"exec", "pull", "interrupt", "close", "force_close"}
Tries == 0..MaxRetries
Tasks == [call : Calls, try : Tries]
Remotes == [call : Opens, try : Tries]
States == {"none", "opening", "idle", "executing", "closing", "closed", "error", "gone"}

VARIABLES
  session,   \* the record: its state, agent session and current task
  expired,   \* its TTL is over
  kind,      \* [Others -> kind of the call, or NULL before it begins]
  pc,        \* [Calls -> place of the call]
  try,       \* [Calls -> its attempt]
  seen,      \* [Calls -> the record it has validated]
  queue,     \* tasks the agent has not executed
  result,    \* [Calls -> result of its attempt's task, or NULL]
  remotes,   \* remote sessions that are open
  job,       \* [Remotes -> the task of its foreground job, or NULL]
  troubles

agent == <<queue, result, remotes, job>>
vars == <<session, expired, kind, pc, try, seen, agent, troubles>>

At(c, l) == pc[c] = l
Goto(c, l) == pc' = [pc EXCEPT ![c] = l]
Task(c) == [call |-> c, try |-> try[c]]
Execs == {c \in Others : kind[c] = "exec"}
Pulls == {c \in Others : kind[c] = "pull"}
Closes == {c \in Others : kind[c] \in {"close", "force_close"}}
Trouble == troubles < MaxTroubles /\ troubles' = troubles + 1

(***************************************************************************)
(* SessionManager: what each operation makes of the record                   *)
(***************************************************************************)
Terminal == {"closed", "error"}
\* What the operations test first: the session exists and is not terminal.
Live == session.state \notin Terminal \cup {"none", "gone"}

\* Mutant of Revivable: an answer that comes late finds any session.
RevivableAlways == session.state \notin {"none", "gone"}

Revivable == Live

Activated(s) == IF Live THEN [state |-> "idle", sid |-> s, task |-> session.task] ELSE session

\* A session that is closing may be executing again.
Executing(t) ==
  IF Live /\ session.state \notin {"executing", "opening"}
  THEN [session EXCEPT !.state = "executing", !.task = t] ELSE session

Idled == IF Revivable THEN [session EXCEPT !.state = "idle", !.task = NULL] ELSE session

Closing(t) == IF Live THEN [session EXCEPT !.state = "closing", !.task = t] ELSE session

Closed == IF Live THEN [session EXCEPT !.state = "closed", !.task = NULL] ELSE session

\* RestoreAfterCloseFailure, with what the close has seen.
Restored(r) ==
  IF Live
  THEN [session EXCEPT !.state = IF r.state = "closing" THEN "idle" ELSE r.state, !.task = r.task]
  ELSE session

\* SetError asks nothing.
Failed == IF session.state \in {"none", "gone"} THEN session ELSE [session EXCEPT !.state = "error"]

(***************************************************************************)
(* The beginning of each call                                                *)
(***************************************************************************)
Validates(c, ok) ==
  /\ At(c, "start")
  /\ seen' = [seen EXCEPT ![c] = session]
  /\ Goto(c, IF ok THEN "submit" ELSE "done")
  /\ UNCHANGED <<expired, try, agent, troubles>>

\* CreateSession: a repeated request finds the session, whatever has become of it, and
\* opens it again unless it is idle.
OpenSession(c) ==
  /\ c \in Opens /\ UNCHANGED kind
  /\ IF session.state = "none"
     THEN \/ session' = [session EXCEPT !.state = "opening"] /\ Validates(c, TRUE)
          \/ Validates(c, FALSE) /\ UNCHANGED session
     ELSE Validates(c, session.state \notin {"idle", "gone"}) /\ UNCHANGED session

Uses(c, k) ==
  /\ c \in Others /\ kind[c] = NULL
  /\ kind' = [kind EXCEPT ![c] = k]

ExecuteAsync(c) ==
  Uses(c, "exec") /\ Validates(c, session.state = "idle" /\ ~expired) /\ UNCHANGED session

PullResults(c) ==
  Uses(c, "pull") /\ Validates(c, session.state \in {"idle", "executing"}) /\ UNCHANGED session

\* An idle session counts as interrupted.
Interrupt(c) ==
  Uses(c, "interrupt") /\ Validates(c, session.state = "executing") /\ UNCHANGED session

\* A session without a remote one is closed at once.
CloseSession(c) ==
  /\ \E k \in {"close", "force_close"} : Uses(c, k)
  /\ Validates(c, Live /\ session.sid # NULL)
  /\ session' = IF session.sid = NULL THEN Closed ELSE session

(***************************************************************************)
(* The task and its result                                                   *)
(***************************************************************************)
\* SubmitTaskForAgent.  ExecuteAsync and CloseSession go on to change the record.
Submit(c) ==
  /\ At(c, "submit")
  /\ queue' = queue \cup {Task(c)}
  /\ Goto(c, IF c \in Execs \cup Closes THEN "set" ELSE "wait")
  /\ result' = [result EXCEPT ![c] = NULL]
  /\ UNCHANGED <<session, expired, kind, try, seen, remotes, job, troubles>>

Set(c) ==
  /\ At(c, "set")
  /\ session' = IF c \in Execs THEN Executing(Task(c)) ELSE Closing(Task(c))
  /\ Goto(c, IF c \in Execs THEN "done" ELSE "wait")
  /\ UNCHANGED <<expired, kind, try, seen, agent, troubles>>

MayRetry(c) == c \in Opens \cup Pulls /\ try[c] < MaxRetries

\* The attempt has failed: the next one, or the end of the call.
Fails(c, ended) ==
  IF MayRetry(c)
  THEN /\ try' = [try EXCEPT ![c] = IF try[c] < MaxRetries THEN @ + 1 ELSE @]
       /\ Goto(c, "submit") /\ UNCHANGED session
  ELSE Goto(c, "done") /\ session' = ended /\ UNCHANGED try

Ended(c) ==
  CASE c \in Opens -> Failed
    [] c \in Closes -> IF kind[c] = "force_close" THEN Closed ELSE Restored(seen[c])
    [] OTHER -> session

SubmitFails(c) ==
  /\ At(c, "submit") /\ Trouble
  /\ Fails(c, IF c \in Opens THEN Failed ELSE session)
  /\ UNCHANGED <<expired, kind, seen, agent>>

\* waitForTaskResult gives up, by its deadline or an error of the task engine.
WaitFails(c) ==
  /\ At(c, "wait")
  /\ Fails(c, Ended(c))
  /\ UNCHANGED <<expired, kind, seen, agent, troubles>>

\* The context of an open or a pull ends before its next attempt: it says nothing.
Cancelled(c) ==
  /\ At(c, "submit") /\ try[c] > 0
  /\ Goto(c, "done")
  /\ UNCHANGED <<session, expired, kind, try, seen, agent, troubles>>

\* A success: the session is activated, idle again, or closed.
Succeeds(c) ==
  LET r == result[c] IN
  /\ At(c, "wait") /\ r \in {"success", "more"}
  /\ IF c \in Opens /\ ~Live THEN Fails(c, Failed)
     ELSE /\ session' = IF c \in Opens THEN Activated(Task(c))
                        ELSE IF c \in Closes THEN Closed
                        ELSE IF r = "success" THEN Idled ELSE session
          /\ Goto(c, "done") /\ UNCHANGED try
  /\ UNCHANGED <<expired, kind, seen, agent, troubles>>

\* closeSessionOnRemoteTerminal: the agent does not know the remote session.
RemoteIsGone(c) ==
  /\ At(c, "wait") /\ result[c] = "not_found"
  /\ session' = Closed /\ Goto(c, "done")
  /\ UNCHANGED <<expired, kind, try, seen, agent, troubles>>

TaskFailed(c) ==
  /\ At(c, "wait") /\ result[c] = "failed"
  /\ Fails(c, Ended(c))
  /\ UNCHANGED <<expired, kind, seen, agent, troubles>>

(***************************************************************************)
(* The agent (external), in any order and as late as it likes                *)
(***************************************************************************)
\* A result is kept for the attempt that may still poll for it.
Answers(t, o) ==
  result' = IF t = Task(t.call) /\ t.call \notin Execs /\ ~At(t.call, "done")
            THEN [result EXCEPT ![t.call] = o] ELSE result

\* What a task makes of the remote session s it names.
Outcome(t, s) ==
  CASE t.call \in Opens -> "success"
    [] s \notin remotes -> "not_found"
    [] t.call \in Execs -> IF job[s] = NULL THEN "success" ELSE "failed"
    [] t.call \in Pulls -> IF job[s] = NULL THEN "success" ELSE "more"
    [] OTHER -> "success"

Execute(t) ==
  LET s == seen[t.call].sid
      o == Outcome(t, s)
  IN
  /\ t \in queue /\ queue' = queue \ {t}
  /\ Answers(t, o)
  /\ remotes' = IF t.call \in Opens THEN remotes \cup {t}
                ELSE IF t.call \in Closes THEN remotes \ {s} ELSE remotes
  /\ job' = IF t.call \in Execs /\ o = "success" THEN [job EXCEPT ![s] = t]
            ELSE IF t.call \notin Opens \cup Execs \cup Pulls /\ s # NULL THEN [job EXCEPT ![s] = NULL] ELSE job
  /\ UNCHANGED <<session, expired, kind, pc, try, seen, troubles>>

ExecuteFails(t) ==
  /\ t \in queue /\ Trouble
  /\ queue' = queue \ {t} /\ Answers(t, "failed")
  /\ UNCHANGED <<session, expired, kind, pc, try, seen, remotes, job>>

JobEnds(s) ==
  /\ job[s] # NULL
  /\ job' = [job EXCEPT ![s] = NULL]
  /\ UNCHANGED <<session, expired, kind, pc, try, seen, queue, result, remotes, troubles>>

RemoteEnds(s) ==
  /\ s \in remotes /\ Trouble
  /\ remotes' = remotes \ {s} /\ job' = [job EXCEPT ![s] = NULL]
  /\ UNCHANGED <<session, expired, kind, pc, try, seen, queue, result>>

(***************************************************************************)
(* reapExpiredSessions                                                       *)
(***************************************************************************)
Expires ==
  /\ Live /\ ~expired
  /\ expired' = TRUE
  /\ UNCHANGED <<session, kind, pc, try, seen, agent, troubles>>

\* Mutant of Due: a command that runs keeps its session.
DueIdle == session.state = "idle"

Due == expired \/ session.state = "idle"

\* The TTL closes a session in any state, the idle timeout an idle one; neither says
\* anything to the agent.  A terminal one is removed in the end.
Reap ==
  /\ \/ Live /\ Due /\ session' = [session EXCEPT !.state = "closed"]
     \/ session.state \in Terminal /\ session' = [session EXCEPT !.state = "gone"]
  /\ UNCHANGED <<expired, kind, pc, try, seen, agent, troubles>>

(***************************************************************************)
(* Specification                                                             *)
(***************************************************************************)
Init ==
  /\ session = [state |-> "none", sid |-> NULL, task |-> NULL] /\ expired = FALSE
  /\ kind = [c \in Others |-> NULL] /\ pc = [c \in Calls |-> "start"] /\ try = [c \in Calls |-> 0]
  /\ seen = [c \in Calls |-> session]
  /\ queue = {} /\ result = [c \in Calls |-> NULL]
  /\ remotes = {} /\ job = [s \in Remotes |-> NULL]
  /\ troubles = 0

Begins(c) == OpenSession(c) \/ ExecuteAsync(c) \/ PullResults(c) \/ Interrupt(c) \/ CloseSession(c)
GoesOn(c) == Submit(c) \/ Set(c) \/ WaitFails(c) \/ Succeeds(c) \/ RemoteIsGone(c) \/ TaskFailed(c)

Next ==
  \/ \E c \in Calls : Begins(c) \/ GoesOn(c) \/ SubmitFails(c) \/ Cancelled(c)
  \/ \E t \in Tasks : Execute(t) \/ ExecuteFails(t)
  \/ \E s \in Remotes : JobEnds(s) \/ RemoteEnds(s)
  \/ Expires \/ Reap

Spec == Init /\ [][Next]_vars

\* Calls go on, with or without the agent; the clock and the reaper go on.
Fairness ==
  /\ \A c \in Calls : WF_vars(GoesOn(c))
  /\ WF_vars(Expires) /\ WF_vars(Reap)

(***************************************************************************)
(* Properties                                                                *)
(***************************************************************************)
TypeOK ==
  /\ session \in [state : States, sid : Remotes \cup {NULL}, task : Tasks \cup {NULL}]
  /\ expired \in BOOLEAN /\ kind \in [Others -> Kinds \cup {NULL}]
  /\ pc \in [Calls -> {"start", "submit", "set", "wait", "done"}] /\ try \in [Calls -> Tries]
  /\ DOMAIN seen = Calls /\ \A c \in Calls : seen[c].sid \in Remotes \cup {NULL}
  /\ queue \subseteq Tasks /\ result \in [Calls -> {NULL, "success", "more", "not_found", "failed"}]
  /\ remotes \subseteq Remotes /\ job \in [Remotes -> Tasks \cup {NULL}]
  /\ troubles \in 0..MaxTroubles

\* No answer that comes late, of any call, brings a closed session back.
ClosedStaysClosed == [][session.state \in Terminal => session'.state \in Terminal \cup {"gone"}]_vars

\* Every session is closed by its TTL and forgotten, whatever call is in progress, so
\* that it does not count against the limit for ever.
SessionsAreForgotten == Live ~> session.state = "gone"

\* "the session cannot execute several commands at the same time" (SetExecuting's error,
\* arthas_session_manager.go:318): the commands of one session whose tasks wait for the
\* agent, or run there, are one at most.
OneCommandAtATime ==
  \A t, u \in queue : t.call \in Execs /\ u.call \in Execs => t = u

==============================================================================
