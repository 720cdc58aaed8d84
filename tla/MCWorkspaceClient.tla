-------------------------- MODULE MCWorkspaceClient --------------------------
(* WorkspaceClient on small sets, for TLC. *)
EXTENDS WorkspaceClient

\* The first files of all batches have the same name.
MCNameOf == [b \in Batches |-> "name"]
=============================================================================
