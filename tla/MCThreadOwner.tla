--------------------------- MODULE MCThreadOwner ----------------------------
(* ThreadOwner on small instances. *)
EXTENDS ThreadOwner
=============================================================================
