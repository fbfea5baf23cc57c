---------------------------- MODULE MCWorkspace ----------------------------
(* Workspaces of a few ECU directories for TLC. *)
EXTENDS Workspace, TLC

\* Documents are compared and copied, never computed with.
ValSymmetry == Permutations(Vals)
=============================================================================
