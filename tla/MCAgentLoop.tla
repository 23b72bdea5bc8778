---------------------------- MODULE MCAgentLoop -----------------------------
(* AgentLoop on small instances. *)
EXTENDS AgentLoopInv
=============================================================================
