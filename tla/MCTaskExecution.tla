--------------------------- MODULE MCTaskExecution ---------------------------
(* Model-checking instances of TaskExecution: one poller per destination and  *)
(* one or two attempts, the first of which plans the task.                    *)
EXTENDS TaskExecution

CONSTANTS s1, g1
=============================================================================
