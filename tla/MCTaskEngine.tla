----------------------------- MODULE MCTaskEngine -----------------------------
(***************************************************************************)
(* Small instances of TaskEngine for TLC.                                    *)
(***************************************************************************)
EXTENDS TaskEngineRefinement, TLC

CONSTANTS c1, c2, t1, t2

\* The first task is routed directly to c1, every other one is broadcast.
MCQueueOf == [t \in Tasks |-> IF t = t1 /\ Cardinality(Tasks) > 1 THEN "node" ELSE "global"]
MCListens == [c \in Consumers |-> IF c = c1 THEN <<"node", "global">> ELSE <<"global">>]


==============================================================================
