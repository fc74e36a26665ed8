-------------------------- MODULE MCExecutionView --------------------------
(* ExecutionView over the definitions of MCWorkflowEngine, for TLC. *)
EXTENDS MCWorkflowEngine, ExecutionView
=============================================================================
