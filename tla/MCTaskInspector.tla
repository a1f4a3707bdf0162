-------------------------- MODULE MCTaskInspector --------------------------
(***************************************************************************)
(* An instance of TaskInspector for TLC: the docked inspector and the      *)
(* workbench of one task.                                                  *)
(***************************************************************************)
EXTENDS TaskInspector

CONSTANTS inspector, workbench

MCConsumers == {inspector, workbench}
=============================================================================
