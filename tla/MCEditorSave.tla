----------------------------- MODULE MCEditorSave -----------------------------
(* EditorSave on small sets, for TLC. *)
EXTENDS EditorSave, TLC

CONSTANTS f1, f2, n1, n2

MCFirstRevision == f1 :> n1 @@ f2 :> n2
Symmetry == Permutations(Editors)
=============================================================================
