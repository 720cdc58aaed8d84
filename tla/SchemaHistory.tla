---------------------------- MODULE SchemaHistory ----------------------------
(***************************************************************************)
(* What the workspace promises about an editable schema, whatever the      *)
(* interleaving of the requests that edit it: a schema is one document     *)
(* that is drafted once, then extended by one changeset at a time, each on *)
(* top of all the earlier ones and never twice, and that does not come     *)
(* back once it is deleted.                                                *)
(***************************************************************************)
EXTENDS Naturals, Sequences

CONSTANTS Schemas,        \* identifiers of schemas
          Alternatives,   \* observed documents a draft can start from
          Mutations,      \* clientMutationId values
          Operations,     \* batches of edit operations
          Accepts(_, _),  \* Accepts(graph, operations): the batch is legal
          Unborn, Deleted \* a schema that does not exist yet, or any more

Edits == [mutation : Mutations, operations : Operations]
Graphs == [origin : Alternatives, edits : Seq(Edits)]

VARIABLE document         \* document[s]: the latest graph of schema s

Init == document = [s \in Schemas |-> Unborn]

Draft(s) ==
    /\ document[s] = Unborn
    /\ \E a \in Alternatives :
          document' = [document EXCEPT ![s] = [origin |-> a, edits |-> <<>>]]

\* One changeset at a time, on the latest graph, and never one seen before.
Edit(s, m, ops) ==
    /\ document[s] \notin {Unborn, Deleted}
    /\ \A i \in 1..Len(document[s].edits) : document[s].edits[i].mutation # m
    /\ Accepts(document[s], ops)
    /\ document' = [document EXCEPT
          ![s].edits = Append(@, [mutation |-> m, operations |-> ops])]

Delete(s) ==
    /\ document[s] \notin {Unborn, Deleted}
    /\ document' = [document EXCEPT ![s] = Deleted]

Next ==
    \E s \in Schemas :
        \/ Draft(s)
        \/ \E m \in Mutations, ops \in Operations : Edit(s, m, ops)
        \/ Delete(s)

Spec == Init /\ [][Next]_document
=============================================================================
