-------------------------- MODULE MCSchemaWorkspace --------------------------
(* SchemaWorkspace on small sets, for TLC. *)
EXTENDS SchemaWorkspace, TLC

\* A batch is refused once it has been applied: the name it introduces is taken.
MCAccepts(graph, ops) ==
    \A i \in 1..Len(graph.edits) : graph.edits[i].operations # ops

MCFound(a) == Alternatives

\* Of several alternatives one is never found: a draft of it does not exist.
MCFoundOne(a) == {CHOOSE v \in Alternatives : TRUE}

Symmetry == Permutations(Handlers) \cup Permutations(Schemas)
=============================================================================
