--------------------------- MODULE MCSandboxLease ---------------------------
(* SandboxLease on small instances. *)
EXTENDS SandboxLease
=============================================================================
