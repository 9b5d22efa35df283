-------------------------- MODULE MCAgentReconcile --------------------------
(* Instances of AgentReconcile for TLC: the constants come from the cfgs. *)
EXTENDS AgentReconcile
=============================================================================
