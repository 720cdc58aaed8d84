----------------------------- MODULE MCAnalysisJobs -----------------------------
(* AnalysisJobs on small sets, for TLC. *)
EXTENDS AnalysisJobs, TLC

Symmetry == Permutations(Handlers) \cup Permutations(Analyses) \cup Permutations(Keys)
=============================================================================
