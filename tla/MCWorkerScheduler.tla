------------------------- MODULE MCWorkerScheduler -------------------------
(* A small plan for WorkerScheduler: b and c write the same path in place, *)
(* b is planned when a is reviewed and waits for a again when a is         *)
(* reworked.                                                               *)
EXTENDS WorkerScheduler

CONSTANTS a, b, c, p

MCTasks == {a, b, c}
MCBatches == <<{a, c}, {b}>>
MCDeps == [t \in MCTasks |-> IF t = b THEN {a} ELSE {}]
MCReviewedGate == {a}
MCMode == [t \in MCTasks |-> IF t = a THEN "git-worktree" ELSE "shared-locked"]
MCWritePaths == [t \in MCTasks |-> IF t = a THEN {} ELSE {p}]
MCPriority == [t \in MCTasks |-> IF t = c THEN 1 ELSE 0]
MCPlace == [t \in MCTasks |-> CASE t = a -> 1 [] t = b -> 2 [] OTHER -> 3]
=============================================================================
