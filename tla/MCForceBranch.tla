--------------------------- MODULE MCForceBranch ---------------------------
(* All instruction types and all flags. *)
EXTENDS ForceBranch
=============================================================================
