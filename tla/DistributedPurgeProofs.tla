------------------------- MODULE DistributedPurgeProofs -------------------------
(***************************************************************************)
(* For any number of replicas and indices: as long as nothing fails, the        *)
(* replicas never have two tasks for one index.                              *)
(*                                                                         *)
(* The lock alone does not give it, since it is released by time while the      *)
(* epoch still runs.  The argument passes from the lock to the marker: a leader *)
(* holds the lock until its marker is set; the lock is given up only when no    *)
(* replica stands between its look at the marker and its attempt at the lock;   *)
(* and the marker stays until the leader has seen its tasks done, so that one   *)
(* epoch at most has tasks, and only for the indices it planned.               *)
(***************************************************************************)
EXTENDS Storage, FiniteSetTheorems, TLAPS

Pcs == {"idle", "elect", "wait", "work", "drain", "verify", "clear", "unlock",
        "unlock_single", "single", "delete"} \cup Planning

\* TypeOK without the bound on the number of tasks, which no step looks at.
Types ==
  /\ index \in [Indices -> {"live", "expired", "gone"}]
  /\ leader \in Nodes \cup {NULL} /\ marker \in BOOLEAN
  /\ queue \in [Indices -> Nat]
  /\ pc \in [Nodes -> Pcs]
  /\ leads \in [Nodes -> BOOLEAN] /\ plan \in [Nodes -> SUBSET Indices]
  /\ work \in [Nodes -> [Indices -> Nat]]
  /\ faults \in Nat

LeaderPcs == Planning \cup {"work", "drain", "verify", "clear", "unlock", "unlock_single"}

\* Where a leader can be, and that it has the lock until its epoch is submitted.
LeadersOK ==
  \A n \in Nodes :
    /\ leads[n] => pc[n] \in LeaderPcs
    /\ pc[n] \in LeaderPcs \ {"work", "drain"} => leads[n]
    /\ pc[n] \in Planning => leader = n

\* n runs an epoch: it has set the marker and not cleared it.
Epoch(n) == leads[n] /\ pc[n] \in {"submit", "work", "drain", "verify", "clear"}

\* While an epoch runs, the marker is set, nobody else gets the lock, and nobody is
\* about to try once the lock has expired.
OneEpoch ==
  /\ \A m, n \in Nodes : Epoch(m) /\ Epoch(n) => m = n
  /\ \A n \in Nodes : Epoch(n) =>
       /\ marker /\ leader \in {n, NULL}
       /\ \A m \in Nodes : At(m, "elect") => leader = n

\* At most one task for i is queued or executed.
Single(i) ==
  /\ queue[i] <= 1 /\ \A n \in Nodes : work[n][i] <= 1
  /\ queue[i] = 1 => \A n \in Nodes : work[n][i] = 0
  /\ \A m, n \in Nodes : work[m][i] = 1 /\ work[n][i] = 1 => m = n

HasTask(i) == queue[i] > 0 \/ \E n \in Nodes : work[n][i] > 0

\* The tasks are those of the epoch that runs, between its submission and the end of
\* its verification; they are queued only while its leader works on them.
TasksOK ==
  \A i \in Indices :
    /\ Single(i)
    /\ HasTask(i) => \E n \in Nodes : /\ Epoch(n) /\ pc[n] \in {"work", "drain", "verify"}
                                      /\ i \in plan[n]
    /\ queue[i] > 0 => \E n \in Nodes : Epoch(n) /\ pc[n] = "work"

IInv == Types /\ (faults = 0 => LeadersOK /\ OneEpoch /\ TasksOK)

USE NobodyIsNoReplica
DEF Pcs, Planning, At, Goto, Fault

-----------------------------------------------------------------------------
\* Every step keeps the types.
LEMMA TypesStep ==
  ASSUME Types, [Next]_vars
  PROVE  Types'
  <1>1. ASSUME NEW n \in Nodes, Look(n)
        PROVE  Types'
    <2>1. pc' \in [Nodes -> Pcs]
      BY <1>1 DEF Types, Look
    <2>2. leads' \in [Nodes -> BOOLEAN]
      BY <1>1 DEF Types, Look
    <2>3. plan' \in [Nodes -> SUBSET Indices]
      BY <1>1 DEF Types, Look
    <2>4. UNCHANGED <<index, leader, marker, queue, work, faults>>
      BY <1>1 DEF Look
    <2> QED BY <2>1, <2>2, <2>3, <2>4 DEF Types
  <1>2. ASSUME NEW n \in Nodes, Elect(n)
        PROVE  Types'
    <2>1. pc' \in [Nodes -> Pcs]
      BY <1>2 DEF Types, Elect
    <2>2. leader' \in Nodes \cup {NULL}
      BY <1>2 DEF Types, Elect
    <2>3. leads' = [leads EXCEPT ![n] = leader = NULL] /\ (leader = NULL) \in BOOLEAN
      BY <1>2 DEF Elect
    <2>4. leads' \in [Nodes -> BOOLEAN]
      BY <2>3 DEF Types
    <2>5. UNCHANGED <<index, marker, queue, plan, work, faults>>
      BY <1>2 DEF Elect
    <2> QED BY <2>1, <2>2, <2>3, <2>4, <2>5 DEF Types
  <1>3. ASSUME NEW n \in Nodes, Wait(n)
        PROVE  Types'
    <2>1. pc' \in [Nodes -> Pcs]
      BY <1>3 DEF Types, Wait
    <2>2. UNCHANGED <<index, leader, marker, queue, leads, plan, work, faults>>
      BY <1>3 DEF Wait
    <2> QED BY <2>1, <2>2 DEF Types
  <1>4. ASSUME NEW n \in Nodes, PlanTasks(n)
        PROVE  Types'
    <2>1. pc' \in [Nodes -> Pcs]
      BY <1>4 DEF Types, PlanTasks, Expired
    <2>2. plan' \in [Nodes -> SUBSET Indices]
      BY <1>4 DEF Types, PlanTasks, Expired
    <2>3. UNCHANGED <<index, leader, marker, queue, leads, work, faults>>
      BY <1>4 DEF PlanTasks, Expired
    <2> QED BY <2>1, <2>2, <2>3 DEF Types
  <1>5. ASSUME NEW n \in Nodes, Mark(n)
        PROVE  Types'
    <2>1. pc' \in [Nodes -> Pcs]
      BY <1>5 DEF Types, Mark
    <2>2. marker' \in BOOLEAN
      BY <1>5 DEF Types, Mark
    <2>3. UNCHANGED <<index, leader, queue, leads, plan, work, faults>>
      BY <1>5 DEF Mark
    <2> QED BY <2>1, <2>2, <2>3 DEF Types
  <1>6. ASSUME NEW n \in Nodes, Submit(n)
        PROVE  Types'
    <2>1. pc' \in [Nodes -> Pcs]
      BY <1>6 DEF Types, Submit, Submitted
    <2>2. queue' \in [Indices -> Nat]
      BY <1>6 DEF Types, Submit, Submitted
    <2>3. UNCHANGED <<index, leader, marker, leads, plan, work, faults>>
      BY <1>6 DEF Submit, Submitted
    <2> QED BY <2>1, <2>2, <2>3 DEF Types
  <1>7. ASSUME NEW n \in Nodes, SubmitFails(n)
        PROVE  Types'
    <2>1. pc' \in [Nodes -> Pcs]
      BY <1>7 DEF Types, SubmitFails, Submitted
    <2>2. queue' \in [Indices -> Nat]
      BY <1>7 DEF Types, SubmitFails, Submitted
    <2>3. faults' \in Nat
      BY <1>7 DEF Types, SubmitFails, Submitted
    <2>4. UNCHANGED <<index, leader, marker, leads, plan, work>>
      BY <1>7 DEF SubmitFails, Submitted
    <2> QED BY <2>1, <2>2, <2>3, <2>4 DEF Types
  <1>8. ASSUME NEW n \in Nodes, Verify(n)
        PROVE  Types'
    <2>1. pc' \in [Nodes -> Pcs]
      BY <1>8 DEF Types, Verify
    <2>2. UNCHANGED <<index, leader, marker, queue, leads, plan, work, faults>>
      BY <1>8 DEF Verify
    <2> QED BY <2>1, <2>2 DEF Types
  <1>9. ASSUME NEW n \in Nodes, Clear(n)
        PROVE  Types'
    <2>1. pc' \in [Nodes -> Pcs]
      BY <1>9 DEF Types, Clear
    <2>2. marker' \in BOOLEAN
      BY <1>9 DEF Types, Clear
    <2>3. UNCHANGED <<index, leader, queue, leads, plan, work, faults>>
      BY <1>9 DEF Clear
    <2> QED BY <2>1, <2>2, <2>3 DEF Types
  <1>10. ASSUME NEW n \in Nodes, Unlock(n)
        PROVE  Types'
    <2>1. pc' \in [Nodes -> Pcs]
      BY <1>10 DEF Types, Unlock
    <2>2. leader' \in Nodes \cup {NULL}
      BY <1>10 DEF Types, Unlock
    <2>3. leads' \in [Nodes -> BOOLEAN]
      BY <1>10 DEF Types, Unlock
    <2>4. UNCHANGED <<index, marker, queue, plan, work, faults>>
      BY <1>10 DEF Unlock
    <2> QED BY <2>1, <2>2, <2>3, <2>4 DEF Types
  <1>11. ASSUME NEW n \in Nodes, NEW i \in Indices, ClaimTask(n, i)
        PROVE  Types'
    <2>1. queue' \in [Indices -> Nat]
      BY <1>11 DEF Types, ClaimTask
    <2>2. work' \in [Nodes -> [Indices -> Nat]]
      BY <1>11 DEF Types, ClaimTask
    <2>3. UNCHANGED <<index, leader, marker, pc, leads, plan, faults>>
      BY <1>11 DEF ClaimTask
    <2> QED BY <2>1, <2>2, <2>3 DEF Types
  <1>12. ASSUME NEW n \in Nodes, NEW i \in Indices, Delete(n, i)
        PROVE  Types'
    <2>1. index' \in [Indices -> {"live", "expired", "gone"}]
      BY <1>12 DEF Types, Delete, Deleted
    <2>2. work' \in [Nodes -> [Indices -> Nat]]
      BY <1>12 DEF Types, Delete, Deleted
    <2>3. UNCHANGED <<leader, marker, queue, pc, leads, plan, faults>>
      BY <1>12 DEF Delete, Deleted
    <2> QED BY <2>1, <2>2, <2>3 DEF Types
  <1>13. ASSUME NEW n \in Nodes, NEW i \in Indices, DeleteFails(n, i)
        PROVE  Types'
    <2>1. queue' \in [Indices -> Nat]
      BY <1>13 DEF Types, DeleteFails
    <2>2. work' \in [Nodes -> [Indices -> Nat]]
      BY <1>13 DEF Types, DeleteFails
    <2>3. faults' \in Nat
      BY <1>13 DEF Types, DeleteFails
    <2>4. UNCHANGED <<index, leader, marker, pc, leads, plan>>
      BY <1>13 DEF DeleteFails
    <2> QED BY <2>1, <2>2, <2>3, <2>4 DEF Types
  <1>14. ASSUME NEW n \in Nodes, Drained(n) \/ PhaseEnds(n)
        PROVE  Types'
    <2>1. pc' \in [Nodes -> Pcs]
      BY <1>14 DEF Types, Drained, PhaseEnds
    <2>2. UNCHANGED <<index, leader, marker, queue, leads, plan, work, faults>>
      BY <1>14 DEF Drained, PhaseEnds
    <2> QED BY <2>1, <2>2 DEF Types
  <1>15. ASSUME NEW n \in Nodes, ClaimFails(n) \/ FallsBack(n)
        PROVE  Types'
    <2>1. pc' \in [Nodes -> Pcs]
      BY <1>15 DEF Types, ClaimFails, FallsBack
    <2>2. faults' \in Nat
      BY <1>15 DEF Types, ClaimFails, FallsBack
    <2>3. UNCHANGED <<index, leader, marker, queue, leads, plan, work>>
      BY <1>15 DEF ClaimFails, FallsBack
    <2> QED BY <2>1, <2>2, <2>3 DEF Types
  <1>16. ASSUME NEW n \in Nodes, SingleList(n)
        PROVE  Types'
    <2>1. pc' \in [Nodes -> Pcs]
      BY <1>16 DEF Types, SingleList, Expired
    <2>2. plan' \in [Nodes -> SUBSET Indices]
      BY <1>16 DEF Types, SingleList, Expired
    <2>3. UNCHANGED <<index, leader, marker, queue, leads, work, faults>>
      BY <1>16 DEF SingleList, Expired
    <2> QED BY <2>1, <2>2, <2>3 DEF Types
  <1>17. ASSUME NEW n \in Nodes, NEW i \in Indices, SingleDelete(n, i)
        PROVE  Types'
    <2>1. index' \in [Indices -> {"live", "expired", "gone"}]
      BY <1>17 DEF Types, SingleDelete, Deleted
    <2>2. plan' \in [Nodes -> SUBSET Indices]
      BY <1>17 DEF Types, SingleDelete, Deleted
    <2>3. UNCHANGED <<leader, marker, queue, pc, leads, work, faults>>
      BY <1>17 DEF SingleDelete, Deleted
    <2> QED BY <2>1, <2>2, <2>3 DEF Types
  <1>18. ASSUME NEW n \in Nodes, NEW i \in Indices, SingleDeleteFails(n, i)
        PROVE  Types'
    <2>1. plan' \in [Nodes -> SUBSET Indices]
      BY <1>18 DEF Types, SingleDeleteFails
    <2>2. faults' \in Nat
      BY <1>18 DEF Types, SingleDeleteFails
    <2>3. UNCHANGED <<index, leader, marker, queue, pc, leads, work>>
      BY <1>18 DEF SingleDeleteFails
    <2> QED BY <2>1, <2>2, <2>3 DEF Types
  <1>19. ASSUME NEW n \in Nodes, SingleEnds(n)
        PROVE  Types'
    <2>1. pc' \in [Nodes -> Pcs]
      BY <1>19 DEF Types, SingleEnds
    <2>2. UNCHANGED <<index, leader, marker, queue, leads, plan, work, faults>>
      BY <1>19 DEF SingleEnds
    <2> QED BY <2>1, <2>2 DEF Types
  <1>20. ASSUME NEW n \in Nodes, Crash(n)
        PROVE  Types'
    <2>1. pc' \in [Nodes -> Pcs]
      BY <1>20 DEF Types, Crash
    <2>2. leads' \in [Nodes -> BOOLEAN]
      BY <1>20 DEF Types, Crash
    <2>3. work' \in [Nodes -> [Indices -> Nat]]
      BY <1>20 DEF Types, Crash
    <2>4. faults' \in Nat
      BY <1>20 DEF Types, Crash
    <2>5. UNCHANGED <<index, leader, marker, queue, plan>>
      BY <1>20 DEF Crash
    <2> QED BY <2>1, <2>2, <2>3, <2>4, <2>5 DEF Types
  <1>21. CASE LockExpires \/ LockLapses
    <2>1. leader' \in Nodes \cup {NULL}
      BY <1>21 DEF Types, LockExpires, LockLapses
    <2>2. faults' \in Nat
      BY <1>21 DEF Types, LockExpires, LockLapses
    <2>3. UNCHANGED <<index, marker, queue, pc, leads, plan, work>>
      BY <1>21 DEF LockExpires, LockLapses
    <2> QED BY <2>1, <2>2, <2>3 DEF Types
  <1>22. CASE MarkerExpires
    <2>1. marker' \in BOOLEAN
      BY <1>22 DEF Types, MarkerExpires
    <2>2. UNCHANGED <<index, leader, queue, pc, leads, plan, work, faults>>
      BY <1>22 DEF MarkerExpires
    <2> QED BY <2>1, <2>2 DEF Types
  <1>23. ASSUME NEW i \in Indices, Expires(i)
        PROVE  Types'
    <2>1. index' \in [Indices -> {"live", "expired", "gone"}]
      BY <1>23 DEF Types, Expires
    <2>2. UNCHANGED <<leader, marker, queue, pc, leads, plan, work, faults>>
      BY <1>23 DEF Expires
    <2> QED BY <2>1, <2>2 DEF Types
  <1>24. CASE UNCHANGED vars
    BY <1>24 DEF Types, vars
  <1> QED
    BY <1>1, <1>2, <1>3, <1>4, <1>5, <1>6, <1>7, <1>8, <1>9, <1>10, <1>11, <1>12, <1>13,
       <1>14, <1>15, <1>16, <1>17, <1>18, <1>19, <1>20, <1>21, <1>22, <1>23, <1>24
       DEF Next, Step, FaultStep

\* A step after which nothing has failed is none of the failures.
Faultless ==
  \/ \E n \in Nodes : Step(n)
  \/ LockExpires \/ MarkerExpires
  \/ \E i \in Indices : Expires(i)

\* A state without faults has a past without faults, and was reached without one.
LEMMA NothingFailed ==
  ASSUME Types, Next, faults' = 0
  PROVE  faults = 0 /\ Faultless
  <1>0. faults \in Nat
    BY DEF Types
  <1>1. CASE Faultless
    BY <1>1
       DEF Faultless, Step, Look, Elect, Wait, PlanTasks, Mark, Submit, Verify, Clear, Unlock,
                Drained, PhaseEnds, SingleList, SingleEnds, ClaimTask, Delete, SingleDelete,
                LockExpires, MarkerExpires, Expires
  <1>2. ASSUME NEW n \in Nodes, FaultStep(n)
        PROVE  faults' = faults + 1
    BY <1>2
       DEF FaultStep, SubmitFails, ClaimFails, FallsBack, Crash, DeleteFails, SingleDeleteFails
  <1>3. CASE LockLapses
    BY <1>0, <1>3 DEF LockLapses
  <1> QED
    BY <1>0, <1>1, <1>2, <1>3 DEF Next, Faultless

\* The lock is taken only when it is free, and lost only by a leader that no longer plans.
LEMMA LeadersStep ==
  ASSUME Types, LeadersOK, Faultless
  PROVE  LeadersOK'
  <1>0. /\ pc \in [Nodes -> Pcs] /\ leads \in [Nodes -> BOOLEAN] /\ leader \in Nodes \cup {NULL}
    BY DEF Types
  <1> USE DEF LeadersOK, LeaderPcs
  <1>1. ASSUME NEW n \in Nodes, Look(n)
        PROVE  LeadersOK'
    BY <1>0, <1>1 DEF Look
  <1>2. ASSUME NEW n \in Nodes, Elect(n)
        PROVE  LeadersOK'
    <2>1. CASE leader = NULL
      BY <1>0, <1>2, <2>1 DEF Elect
    <2>2. CASE leader # NULL
      BY <1>0, <1>2, <2>2 DEF Elect
    <2> QED
      BY <2>1, <2>2
  <1>3. ASSUME NEW n \in Nodes, Wait(n) \/ PlanTasks(n) \/ Mark(n) \/ Submit(n) \/ Verify(n) \/ Clear(n)
        PROVE  LeadersOK'
    BY <1>0, <1>3 DEF Wait, PlanTasks, Mark, Submit, Verify, Clear
  <1>4. ASSUME NEW n \in Nodes, Unlock(n)
        PROVE  LeadersOK'
    BY <1>0, <1>4 DEF Unlock
  <1>5. ASSUME NEW n \in Nodes, Drained(n) \/ PhaseEnds(n) \/ SingleList(n) \/ SingleEnds(n)
        PROVE  LeadersOK'
    BY <1>0, <1>5 DEF Drained, PhaseEnds, SingleList, SingleEnds
  <1>6. CASE LockExpires
    BY <1>0, <1>6 DEF LockExpires
  <1>7. ASSUME UNCHANGED <<pc, leads, leader>>
        PROVE  LeadersOK'
    BY <1>7
  <1> QED
    BY <1>1, <1>2, <1>3, <1>4, <1>5, <1>6, <1>7
       DEF Faultless, Step, ClaimTask, Delete, SingleDelete, MarkerExpires, Expires

\* Who runs an epoch changes only with Mark and Clear.
LEMMA EpochsChange ==
  ASSUME Types, LeadersOK, Faultless
  PROVE  \A n \in Nodes : Epoch(n)' <=> \/ Epoch(n) /\ ~Clear(n)
                                        \/ Mark(n)
  <1>0. /\ pc \in [Nodes -> Pcs] /\ leads \in [Nodes -> BOOLEAN]
    BY DEF Types
  <1> SUFFICES ASSUME NEW n \in Nodes
               PROVE  Epoch(n)' <=> (Epoch(n) /\ ~Clear(n)) \/ Mark(n)
    OBVIOUS
  <1> USE DEF Epoch
  <1>1. ASSUME UNCHANGED <<pc, leads>>
        PROVE  Epoch(n)' <=> (Epoch(n) /\ ~Clear(n)) \/ Mark(n)
    BY <1>0, <1>1 DEF Clear, Mark
  <1>2. ASSUME NEW m \in Nodes, Look(m) \/ Elect(m) \/ Unlock(m)
        PROVE  Epoch(n)' <=> (Epoch(n) /\ ~Clear(n)) \/ Mark(n)
    BY <1>0, <1>2 DEF Clear, Mark, Look, Elect, Unlock, LeadersOK, LeaderPcs
  <1>3. ASSUME NEW m \in Nodes, Wait(m) \/ PlanTasks(m) \/ Submit(m) \/ Verify(m) \/ SingleList(m) \/ SingleEnds(m)
        PROVE  Epoch(n)' <=> (Epoch(n) /\ ~Clear(n)) \/ Mark(n)
    BY <1>0, <1>3
       DEF Clear, Mark, Wait, PlanTasks, Submit, Verify, SingleList, SingleEnds, LeadersOK,
           LeaderPcs
  <1>4. ASSUME NEW m \in Nodes, Drained(m) \/ PhaseEnds(m)
        PROVE  Epoch(n)' <=> (Epoch(n) /\ ~Clear(n)) \/ Mark(n)
    BY <1>0, <1>4 DEF Clear, Mark, Drained, PhaseEnds
  <1>5. ASSUME NEW m \in Nodes, Mark(m)
        PROVE  Epoch(n)' <=> (Epoch(n) /\ ~Clear(n)) \/ Mark(n)
    BY <1>0, <1>5 DEF Clear, Mark, LeadersOK, LeaderPcs
  <1>6. ASSUME NEW m \in Nodes, Clear(m)
        PROVE  Epoch(n)' <=> (Epoch(n) /\ ~Clear(n)) \/ Mark(n)
    BY <1>0, <1>6 DEF Clear, Mark
  <1> QED
    BY <1>1, <1>2, <1>3, <1>4, <1>5, <1>6
       DEF Faultless, Step, ClaimTask, Delete, SingleDelete, LockExpires, MarkerExpires, Expires

\* An epoch begins with the lock, and so while no other one runs; until its end nobody
\* passes from a look at the marker to the lock.
LEMMA OneEpochStep ==
  ASSUME Types, LeadersOK, OneEpoch, Faultless
  PROVE  OneEpoch'
  <1>0. /\ pc \in [Nodes -> Pcs] /\ leads \in [Nodes -> BOOLEAN] /\ leader \in Nodes \cup {NULL}
    BY DEF Types
  \* A step with which no epoch begins, which leaves the marker and the lock alone.
  <1>1. ASSUME \A n \in Nodes : Epoch(n)' => Epoch(n),
               \A m \in Nodes : At(m, "elect")' => At(m, "elect") \/ ~marker,
               UNCHANGED <<leader, marker>>
        PROVE  OneEpoch'
    BY <1>1 DEF OneEpoch
  <1>2. ASSUME NEW n \in Nodes, ~Clear(n), ~Mark(n), Step(n), ~Elect(n), ~Unlock(n)
        PROVE  OneEpoch'
    <2>1. \A m \in Nodes : Epoch(m)' => Epoch(m)
      <3>1. \A m \in Nodes : ~Mark(m)
        BY <1>0, <1>2 DEF Step, Mark, Look, Wait, PlanTasks, Submit, Verify, Drained, PhaseEnds,
                          SingleList, SingleEnds, ClaimTask, Delete, SingleDelete
      <3> QED
        BY <3>1, EpochsChange
    <2>2. \A m \in Nodes : At(m, "elect")' => At(m, "elect") \/ ~marker
      BY <1>0, <1>2 DEF Step, Look, Wait, PlanTasks, Submit, Verify, Drained, PhaseEnds,
                        SingleList, SingleEnds, ClaimTask, Delete, SingleDelete
    <2>3. UNCHANGED <<leader, marker>>
      BY <1>2 DEF Step, Look, Wait, PlanTasks, Submit, Verify, Drained, PhaseEnds,
                  SingleList, SingleEnds, ClaimTask, Delete, SingleDelete
    <2> QED
      BY <1>1, <2>1, <2>2, <2>3
  <1>3. ASSUME NEW n \in Nodes, Elect(n)
        PROVE  OneEpoch'
    <2>1. \A m \in Nodes : Epoch(m)' <=> Epoch(m)
      BY <1>0, <1>3 DEF Epoch, Elect, LeadersOK, LeaderPcs
    <2>2. \A m \in Nodes : Epoch(m) => leader # NULL
      BY <1>3 DEF OneEpoch, Elect
    <2>3. CASE \E m \in Nodes : Epoch(m)
      <3>1. UNCHANGED <<leader, marker>> /\ \A m \in Nodes : At(m, "elect")' => At(m, "elect")
        BY <1>0, <1>3, <2>2, <2>3 DEF Elect
      <3> QED
        BY <1>1, <2>1, <3>1
    <2>4. CASE ~\E m \in Nodes : Epoch(m)
      BY <2>1, <2>4 DEF OneEpoch
    <2> QED
      BY <2>3, <2>4
  <1>4. ASSUME NEW n \in Nodes, Mark(n)
        PROVE  OneEpoch'
    <2>1. leader = n
      BY <1>4 DEF Mark, LeadersOK
    <2>2. \A m \in Nodes : ~Epoch(m)
      <3> SUFFICES ASSUME NEW m \in Nodes, Epoch(m)
                   PROVE  FALSE
        OBVIOUS
      <3>1. m = n
        BY <2>1 DEF OneEpoch
      <3> QED
        BY <1>4, <3>1 DEF Epoch, Mark
    <2>3. \A m \in Nodes : Epoch(m)' => m = n
      BY <1>0, <1>4, <2>2 DEF Epoch, Mark
    <2> QED
      BY <1>4, <2>1, <2>3 DEF OneEpoch, Mark
  <1>5. ASSUME NEW n \in Nodes, Clear(n)
        PROVE  OneEpoch'
    <2>1. Epoch(n)
      BY <1>5 DEF Epoch, Clear, LeadersOK, LeaderPcs
    <2>2. \A m \in Nodes : ~Epoch(m)'
      <3>1. \A m \in Nodes : ~Mark(m)
        BY <1>0, <1>5 DEF Clear, Mark
      <3> QED
        BY <1>5, <2>1, <3>1, EpochsChange DEF OneEpoch
    <2> QED
      BY <2>2 DEF OneEpoch
  <1>6. ASSUME NEW n \in Nodes, Unlock(n)
        PROVE  OneEpoch'
    <2>1. \A m \in Nodes : Epoch(m)' => Epoch(m) /\ m # n
      BY <1>0, <1>6 DEF Epoch, Unlock
    <2>2. \A m \in Nodes : At(m, "elect")' => At(m, "elect")
      BY <1>0, <1>6 DEF Unlock
    <2>3. \A m \in Nodes : Epoch(m)' => leader' = leader
      BY <1>0, <1>6, <2>1 DEF OneEpoch, Unlock
    <2> QED
      BY <1>6, <2>1, <2>2, <2>3 DEF OneEpoch, Unlock
  <1>7. CASE LockExpires
    <2>1. \A m \in Nodes : Epoch(m)' <=> Epoch(m)
      BY <1>7 DEF Epoch, LockExpires
    <2>2. \A m \in Nodes : Epoch(m) => leads[leader] /\ \A k \in Nodes : ~At(k, "elect")
      BY <1>7 DEF OneEpoch, LockExpires, Epoch
    <2> QED
      BY <1>7, <2>1, <2>2 DEF OneEpoch, LockExpires
  <1>8. CASE MarkerExpires
    <2>1. \A m \in Nodes : ~Epoch(m)'
      BY <1>8 DEF Epoch, MarkerExpires
    <2> QED
      BY <2>1 DEF OneEpoch
  <1>9. ASSUME NEW i \in Indices, Expires(i)
        PROVE  OneEpoch'
    BY <1>9 DEF OneEpoch, Epoch, Expires
  <1> QED
    BY <1>2, <1>3, <1>4, <1>5, <1>6, <1>7, <1>8, <1>9 DEF Faultless

-----------------------------------------------------------------------------
(***************************************************************************)
(* The tasks.                                                              *)
(***************************************************************************)

\* Whoever has the tasks keeps them, and no task appears.
LEMMA TasksRemain ==
  ASSUME TasksOK,
         \A i \in Indices : Single(i) => Single(i)',
         \A i \in Indices : HasTask(i)' => HasTask(i),
         \A i \in Indices : queue'[i] > 0 => queue[i] > 0,
         \A n \in Nodes : Epoch(n) /\ pc[n] \in {"work", "drain", "verify"} =>
           /\ Epoch(n)' /\ pc'[n] \in {"work", "drain", "verify"} /\ plan'[n] = plan[n]
           /\ pc[n] = "work" /\ (\E i \in Indices : queue[i] > 0) => pc'[n] = "work"
  PROVE  TasksOK'
  BY DEF TasksOK

\* A step without faults keeps one task for each planned index.
LEMMA TasksStep ==
  ASSUME Types, LeadersOK, OneEpoch, TasksOK, Faultless
  PROVE  TasksOK'
  <1>0. /\ pc \in [Nodes -> Pcs] /\ leads \in [Nodes -> BOOLEAN]
        /\ plan \in [Nodes -> SUBSET Indices]
        /\ queue \in [Indices -> Nat] /\ work \in [Nodes -> [Indices -> Nat]]
    BY DEF Types
  <1>1. ASSUME UNCHANGED <<queue, work>>
        PROVE  \A i \in Indices : /\ Single(i) <=> Single(i)'
                                  /\ HasTask(i)' <=> HasTask(i)
                                  /\ queue'[i] > 0 <=> queue[i] > 0
    BY <1>1 DEF Single, HasTask
  \* An epoch with tasks goes on with every step but those of its leader.
  <1>2. ASSUME UNCHANGED <<queue, work>>,
               \A n \in Nodes : Epoch(n) /\ pc[n] \in {"work", "drain", "verify"} =>
                 UNCHANGED <<pc[n], leads[n], plan[n]>>
        PROVE  TasksOK'
    <2>1. \A n \in Nodes : Epoch(n) /\ pc[n] \in {"work", "drain", "verify"} =>
            /\ Epoch(n)' /\ pc'[n] \in {"work", "drain", "verify"} /\ plan'[n] = plan[n]
            /\ pc[n] = "work" /\ (\E i \in Indices : queue[i] > 0) => pc'[n] = "work"
      BY <1>2 DEF Epoch
    <2> QED
      BY <1>1, <1>2, <2>1, TasksRemain
  <1>3. ASSUME NEW n \in Nodes, Look(n) \/ Elect(n) \/ Wait(n) \/ PlanTasks(n) \/ Mark(n) \/ Unlock(n)
                                \/ SingleList(n) \/ SingleEnds(n)
        PROVE  TasksOK'
    BY <1>0, <1>2, <1>3 DEF Look, Elect, Wait, PlanTasks, Mark, Unlock, SingleList, SingleEnds
  <1>4. ASSUME NEW n \in Nodes, NEW i \in Indices, SingleDelete(n, i)
        PROVE  TasksOK'
    BY <1>0, <1>2, <1>4 DEF SingleDelete, Epoch
  <1>5. CASE LockExpires \/ MarkerExpires \/ \E i \in Indices : Expires(i)
    BY <1>2, <1>5 DEF LockExpires, MarkerExpires, Expires
  <1>6. ASSUME NEW n \in Nodes, Drained(n) \/ PhaseEnds(n)
        PROVE  TasksOK'
    <2>1. UNCHANGED <<queue, work>>
      BY <1>6 DEF Drained, PhaseEnds
    <2>2. \A m \in Nodes : Epoch(m) /\ pc[m] \in {"work", "drain", "verify"} =>
            /\ Epoch(m)' /\ pc'[m] \in {"work", "drain", "verify"} /\ plan'[m] = plan[m]
            /\ pc[m] = "work" /\ (\E i \in Indices : queue[i] > 0) => pc'[m] = "work"
      BY <1>0, <1>6 DEF Epoch, Drained, PhaseEnds
    <2> QED
      BY <1>1, <2>1, <2>2, TasksRemain
  \* There were no tasks, and now there is one for each index of the plan.
  <1>7. ASSUME NEW n \in Nodes, Submit(n)
        PROVE  TasksOK'
    <2>1. Epoch(n)
      BY <1>7 DEF Epoch, Submit, LeadersOK, LeaderPcs
    <2>2. \A i \in Indices : queue[i] = 0 /\ \A m \in Nodes : work[m][i] = 0
      <3> SUFFICES ASSUME NEW i \in Indices, HasTask(i)
                   PROVE  FALSE
        BY <1>0 DEF HasTask
      <3> QED
        BY <1>7, <2>1 DEF TasksOK, OneEpoch, Submit
    <2>3. Epoch(n)' /\ pc'[n] = "work" /\ plan'[n] = plan[n] /\ work' = work
      BY <1>0, <1>7, <2>1 DEF Epoch, Submit
    <2>4. \A i \in Indices : queue'[i] = IF i \in plan[n] THEN 1 ELSE 0
      BY <1>7, <2>2 DEF Submit, Submitted
    <2>5. \A i \in Indices : Single(i)'
      BY <2>2, <2>3, <2>4 DEF Single
    <2>6. \A i \in Indices : HasTask(i)' => i \in plan'[n]
      BY <2>2, <2>3, <2>4 DEF HasTask
    <2> QED
      BY <2>3, <2>5, <2>6 DEF TasksOK
  \* The leader has waited for the tasks of its plan, and there are no others.
  <1>8. ASSUME NEW n \in Nodes, Verify(n)
        PROVE  TasksOK'
    <2>1. Epoch(n)
      BY <1>8 DEF Epoch, Verify, LeadersOK, LeaderPcs
    <2>2. \A i \in Indices : ~HasTask(i)
      <3> SUFFICES ASSUME NEW i \in Indices, HasTask(i)
                   PROVE  FALSE
        OBVIOUS
      <3>1. i \in plan[n] /\ queue[i] = 0
        BY <1>0, <1>8, <2>1 DEF TasksOK, OneEpoch, Verify
      <3> QED
        BY <1>8, <3>1 DEF Verify, HasTask
    <2>3. UNCHANGED <<queue, work>>
      BY <1>8 DEF Verify
    <2> QED
      BY <1>1, <2>2, <2>3 DEF TasksOK, HasTask
  <1>9. ASSUME NEW n \in Nodes, Clear(n)
        PROVE  TasksOK'
    <2>1. Epoch(n) /\ pc[n] = "clear"
      BY <1>9 DEF Epoch, Clear, LeadersOK, LeaderPcs
    <2>2. \A i \in Indices : ~HasTask(i)
      BY <2>1 DEF TasksOK, OneEpoch
    <2>3. UNCHANGED <<queue, work>>
      BY <1>9 DEF Clear
    <2> QED
      BY <1>1, <2>2, <2>3 DEF TasksOK, HasTask
  <1>10. ASSUME NEW n \in Nodes, NEW i \in Indices, ClaimTask(n, i)
         PROVE  TasksOK'
    <2>1. queue[i] = 1 /\ \A m \in Nodes : work[m][i] = 0
      BY <1>0, <1>10 DEF ClaimTask, TasksOK, Single
    <2>2. /\ queue'[i] = 0 /\ work'[n][i] = 1
          /\ \A m \in Nodes : m # n => work'[m][i] = 0
          /\ \A j \in Indices : j # i => queue'[j] = queue[j] /\ \A m \in Nodes : work'[m][j] = work[m][j]
      BY <1>0, <1>10, <2>1 DEF ClaimTask
    <2>3. \A j \in Indices : Single(j) => Single(j)'
      BY <2>2 DEF Single
    <2>4. \A j \in Indices : HasTask(j)' => HasTask(j)
      BY <2>1, <2>2 DEF HasTask
    <2>5. \A j \in Indices : queue'[j] > 0 => queue[j] > 0
      BY <2>2
    <2>6. \A m \in Nodes : Epoch(m) => /\ Epoch(m)' /\ pc'[m] = pc[m] /\ plan'[m] = plan[m]
      BY <1>10 DEF Epoch, ClaimTask
    <2> QED
      BY <2>3, <2>4, <2>5, <2>6, TasksRemain
  <1>11. ASSUME NEW n \in Nodes, NEW i \in Indices, Delete(n, i)
         PROVE  TasksOK'
    <2>1. /\ queue' = queue /\ work'[n][i] = work[n][i] - 1 /\ work[n][i] > 0
          /\ \A m \in Nodes : m # n => work'[m][i] = work[m][i]
          /\ \A j \in Indices : j # i => \A m \in Nodes : work'[m][j] = work[m][j]
      BY <1>0, <1>11 DEF Delete
    <2>2. \A j \in Indices : Single(j) => Single(j)'
      <3> SUFFICES ASSUME NEW j \in Indices, Single(j)
                   PROVE  Single(j)'
        OBVIOUS
      <3>1. CASE j = i
        <4>1. work[n][i] \in Nat /\ work[n][i] = 1 /\ work'[n][i] = 0
          BY <1>0, <2>1, <3>1 DEF Single
        <4>2. \A m \in Nodes : m # n => work[m][i] = 0
          <5> SUFFICES ASSUME NEW m \in Nodes, m # n
                       PROVE  work[m][i] = 0
            OBVIOUS
          <5>1. work[m] \in [Indices -> Nat]
            BY <1>0
          <5>2. work[m][i] \in Nat /\ work[m][i] <= 1 /\ work[m][i] # 1
            BY <3>1, <4>1, <5>1 DEF Single
          <5> QED
            BY <5>2
        <4>3. \A m \in Nodes : work'[m][i] = 0
          BY <2>1, <4>1, <4>2
        <4> QED
          BY <2>1, <3>1, <4>3 DEF Single
      <3>2. CASE j # i
        BY <2>1, <3>2 DEF Single
      <3> QED
        BY <3>1, <3>2
    <2>3. \A j \in Indices : HasTask(j)' => HasTask(j)
      BY <1>0, <2>1 DEF HasTask
    <2>4. \A m \in Nodes : Epoch(m) => /\ Epoch(m)' /\ pc'[m] = pc[m] /\ plan'[m] = plan[m]
      BY <1>11 DEF Epoch, Delete
    <2> QED
      BY <2>1, <2>2, <2>3, <2>4, TasksRemain
  <1> QED
    BY <1>3, <1>4, <1>5, <1>6, <1>7, <1>8, <1>9, <1>10, <1>11 DEF Faultless, Step

-----------------------------------------------------------------------------
\* Nobody leads and nothing is planned at first.
LEMMA InitInv ==
  ASSUME Init
  PROVE  IInv
  <1>1. Types
    <2>1. index \in [Indices -> {"live", "expired", "gone"}] /\ queue \in [Indices -> Nat]
      BY DEF Init
    <2>2. leader \in Nodes \cup {NULL} /\ marker \in BOOLEAN /\ leads \in [Nodes -> BOOLEAN]
      BY DEF Init
    <2>3. pc \in [Nodes -> Pcs] /\ plan \in [Nodes -> SUBSET Indices]
      BY DEF Init
    <2>4. work \in [Nodes -> [Indices -> Nat]] /\ faults \in Nat
      BY DEF Init
    <2> QED
      BY <2>1, <2>2, <2>3, <2>4 DEF Types
  <1>2. LeadersOK /\ OneEpoch
    BY DEF Init, LeadersOK, LeaderPcs, OneEpoch, Epoch
  <1>3. TasksOK
    BY DEF Init, TasksOK, Single, HasTask
  <1> QED
    BY <1>1, <1>2, <1>3 DEF IInv

\* The invariant holds in every state.
LEMMA Invariance == Spec => []IInv
  <1>1. Init => IInv
    BY InitInv
  <1>2. ASSUME IInv, [Next]_vars
        PROVE  IInv'
    <2>1. Types'
      BY <1>2, TypesStep DEF IInv
    <2>2. CASE Next /\ faults' = 0
      BY <1>2, <2>1, <2>2, NothingFailed, LeadersStep, OneEpochStep, TasksStep DEF IInv
    <2>3. CASE UNCHANGED vars
      BY <1>2, <2>1, <2>3
         DEF IInv, LeadersOK, OneEpoch, TasksOK, Single, HasTask, Epoch, vars
    <2> QED
      BY <1>2, <2>1, <2>2, <2>3 DEF IInv
  <1>3. IInv /\ [Next]_vars => IInv'
    BY <1>2
  <1> QED
    BY <1>1, <1>3, PTL DEF Spec

-----------------------------------------------------------------------------
\* A single task is counted as one at most.
LEMMA SingleIsOne ==
  ASSUME Types, NEW i \in Indices, Single(i)
  PROVE  Live(i) <= 1
  <1> DEFINE Tasks == {s \in Nodes \X TaskCounts : s[2] < work[s[1]][i]}
  <1>0. queue[i] \in Nat /\ \A n \in Nodes : work[n][i] \in Nat
    BY DEF Types
  <1>1. \A s \in Tasks : s = <<s[1], 0>> /\ s[1] \in Nodes /\ work[s[1]][i] = 1
    BY <1>0 DEF Single, TaskCounts
  <1>2. Live(i) = queue[i] + Cardinality(Tasks)
    BY DEF Live
  <1>3. CASE Tasks = {}
    <2>1. Cardinality(Tasks) = 0
      BY <1>3, FS_EmptySet
    <2>2. queue[i] <= 1
      BY DEF Single
    <2> HIDE DEF Tasks
    <2> QED
      BY <1>0, <1>2, <2>1, <2>2
  <1>4. CASE Tasks # {}
    <2>1. PICK s : s \in Tasks
      BY <1>4
    <2>2. Tasks = {s}
      BY <1>1, <2>1 DEF Single
    <2>3. Cardinality(Tasks) = 1
      BY <2>2, FS_Singleton
    <2>4. queue[i] = 0
      BY <1>0, <1>1, <2>1 DEF Single
    <2> HIDE DEF Tasks
    <2> QED
      BY <1>2, <2>3, <2>4
  <1> QED
    BY <1>3, <1>4

\* As long as nothing has failed, at most one task for an index is queued or executed by
\* all replicas together (TryBecomeLeader, SetActiveEpoch, verifyAndComplete), although
\* the lock expires while the epoch runs.
THEOREM OneTaskPerIndexHolds == Spec => []OneTaskPerIndex
  <1>1. IInv => OneTaskPerIndex
    BY SingleIsOne DEF IInv, TasksOK, OneTaskPerIndex
  <1> QED
    BY Invariance, <1>1, PTL

\* As long as nothing has failed, one epoch at most runs, and only its leader holds the
\* lock (ClearActiveEpoch clears the marker, whoever has set it: it is the leader's own).
THEOREM OneEpochHolds == Spec => [](faults = 0 => OneEpoch)
  <1>1. IInv => (faults = 0 => OneEpoch)
    BY DEF IInv
  <1> QED
    BY Invariance, <1>1, PTL

=============================================================================
