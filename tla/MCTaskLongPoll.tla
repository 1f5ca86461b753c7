---------------------------- MODULE MCTaskLongPoll ----------------------------
(***************************************************************************)
(* Small instances of TaskLongPoll for TLC.                                 *)
(***************************************************************************)
EXTENDS TaskLongPoll, TLC

CONSTANTS a1, a2, p1, p2, t1, t2

\* Every poll belongs to a1.
OneAgent == [p \in Polls |-> a1]

\* Every task is broadcast.
Broadcast == [t \in Tasks |-> NULL]

\* The steps of a receiver that serves, for agents that stay connected: its shutdown and
\* lost connections are in MCConfigLongPoll.
ServingNext ==
  \/ \E t \in Tasks : Submit(t) \/ NotifyTaskSubmitted(t)
  \/ \E p \in Polls : Start(p) \/ PollStep(p) \/ RequestStep(p) \/ Deadline(p)
  \/ Dispatch

ServingSpec == Init /\ [][ServingNext]_vars

=============================================================================
