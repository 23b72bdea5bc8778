----------------------- MODULE MCSubagentCoordinator ------------------------
(* SubagentCoordinator on small instances. *)
EXTENDS SubagentCoordinator
=============================================================================
