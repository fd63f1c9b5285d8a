----------------------------- MODULE MCToolBatch -----------------------------
(* The calls are ordered, so there is no symmetry to use. *)
EXTENDS ToolBatch

=============================================================================
