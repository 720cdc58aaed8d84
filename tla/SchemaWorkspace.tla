--------------------------- MODULE SchemaWorkspace ---------------------------
(***************************************************************************)
(* The server's workspace store and the use cases that write schemas:      *)
(* CreateDraft, ApplyChangeset, DeleteSchema and DeleteAnalysis, each one  *)
(* PostgreSQL transaction (READ COMMITTED) run by a request handler.  A    *)
(* transaction is cut where another one can come between: at each          *)
(* statement that reads shared rows or waits for a lock.  Its writes, all  *)
(* made while it holds those locks, become visible at COMMIT, so they are  *)
(* one action.                                                             *)
(***************************************************************************)
EXTENDS Naturals, Sequences, FiniteSets

CONSTANTS
    Handlers,       \* request threads, each with at most one transaction
    Schemas,        \* what identifier("schema") returns
    Analyses,       \* analyses accepted before the run
    Alternatives,   \* root alternatives found by an analysis
    Subjects, Admins,
    Keys,           \* values of the Idempotency-Key header
    Mutations,      \* clientMutationId values
    Operations,     \* operation batches of a changeset
    Accepts(_, _),  \* apply_schema_changes(graph, operations) does not raise
    Found(_),       \* the alternatives an analysis finds when it completes
    MaxRevision,    \* bound: no changeset is based on this revision or a later
    None, Unborn, Deleted

ASSUME WorkspaceAssumption ==
    /\ MaxRevision \in Nat \ {0}
    /\ Admins \subseteq Subjects
    /\ \A a \in Analyses : Found(a) \subseteq Alternatives

VARIABLES
    resources,     \* rows of kind "schema": [revision, owner], None if absent
    revisions,     \* rows of revisions, nodes, collections and members
    receipts,      \* rows of changesets
    idempotency,   \* rows of idempotency
    analyses,      \* rows of kind "analysis" with their analysis_results row
    changes,       \* changes[r]: the deleted flags of r's outbox rows, in order
    issued,        \* schema identifiers already drawn (uuid4 never repeats)
    tx,            \* tx[h]: the open transaction of handler h
    acks           \* history: the receipts any client was ever sent

store == <<resources, revisions, receipts, idempotency, changes, issued>>
vars == <<store, analyses, tx, acks>>

Edits == [mutation : Mutations, operations : Operations]
Graphs == [origin : Alternatives, edits : Seq(Edits)]

SchemaRows == [revision : Nat, owner : Subjects]
RevisionRows == [schema : Schemas, revision : Nat, graph : Graphs]
ReceiptRows == [schema : Schemas, mutation : Mutations,
                base : Nat, revision : Nat]
AnalysisRows == [status : {"processing", "completed", "failed"},
                 owner : Subjects, alternatives : SUBSET Alternatives]

ASSUME NoneAssumption == None \notin SchemaRows /\ None \notin AnalysisRows
ASSUME DocumentAssumption == Unborn \notin Graphs /\ Deleted \notin Graphs

DraftBodies == [analysis : Analyses, alternative : Alternatives]
ChangesetBodies == [base : 1..(MaxRevision - 1), operations : Operations]

ChangesetScope(s) == <<"changesets", s>>
DraftScope(u) == <<"schemas", u>>

IdempotencyRows ==
    [scope : {ChangesetScope(s) : s \in Schemas}, key : Mutations,
     digest : ChangesetBodies, resource : Mutations]
    \cup
    [scope : {DraftScope(u) : u \in Subjects}, key : Keys,
     digest : DraftBodies, resource : Schemas]

Live(s) == resources[s] # None

\* graph(identifier, revision): the rows saved under one revision.
GraphAt(s, n) ==
    (CHOOSE r \in revisions : r.schema = s /\ r.revision = n).graph

-----------------------------------------------------------------------------
(* Transactions: the request they carry, the step they are at, the locks   *)
(* they hold until they end.                                               *)

Idle == [op |-> "none", step |-> "none"]

DraftTx(step, u, key, body) ==
    [op |-> "create", step |-> step, subject |-> u, key |-> key, body |-> body]
ChangesetTx(step, u, s, m, body, ifMatch, current) ==
    [op |-> "apply", step |-> step, subject |-> u, schema |-> s, key |-> m,
     body |-> body, ifMatch |-> ifMatch, current |-> current]
DeleteTx(step, s, ifMatch) ==
    [op |-> "delete", step |-> step, schema |-> s, ifMatch |-> ifMatch]
DeleteAnalysisTx(step, a) ==
    [op |-> "deleteAnalysis", step |-> step, analysis |-> a]

At(h, op, step) == tx[h].op = op /\ tx[h].step = step
Goto(h, step) == tx' = [tx EXCEPT ![h].step = step]
\* Mutant: the handler is freed but its transaction stays open.
EndWithoutRollback(h) == tx' = [tx EXCEPT ![h].op = "none"]
End(h) == tx' = [tx EXCEPT ![h] = Idle]

\* pg_advisory_xact_lock(hashtext(scope), hashtext(key)), taken by replay.
RetryKey(h) ==
    IF tx[h].op = "apply" THEN <<ChangesetScope(tx[h].schema), tx[h].key>>
                          ELSE <<DraftScope(tx[h].subject), tx[h].key>>
\* Mutant: a request that still waits for the key counts as its holder.
HoldsRetryKeyWhileWaiting(h) == tx[h].op \in {"create", "apply"}
HoldsRetryKey(h) ==
    \/ tx[h].op = "apply" /\ tx[h].step \in {"receipt", "lock", "commit"}
    \/ tx[h].op = "create"
          /\ tx[h].step \in {"manifest", "authorize", "lock", "commit"}
\* Mutant: replay takes no advisory lock.
RetryKeyUnlocked(key) == TRUE
RetryKeyFree(key) ==
    \A g \in Handlers : HoldsRetryKey(g) => RetryKey(g) # key

\* SELECT ... FOR UPDATE, held from the "lock" step to the end.
LockedRow(h) ==
    IF tx[h].op \in {"apply", "delete"} THEN <<"schema", tx[h].schema>>
    ELSE IF tx[h].op = "create" THEN <<"analysis", tx[h].body.analysis>>
    ELSE <<"analysis", tx[h].analysis>>
\* Mutant: the row is read without FOR UPDATE.
RowUnlocked(row) == TRUE
RowFree(row) ==
    \A g \in Handlers : tx[g].step = "commit" => LockedRow(g) # row

\* authorize: a resource the principal may not see is a missing one.
Visible(u, row) == row # None /\ (u \in Admins \/ row.owner = u)

\* replay: the rows that already answer this scope and key.
\* Mutant: the lookup misses them.
RememberedNever(scope, key) == {}
Remembered(scope, key) ==
    {r \in idempotency : r.scope = scope /\ r.key = key}

\* save_revision: the rows of one more snapshot.
\* Mutant: the snapshot replaces the ones before it.
SaveRevisionInPlace(s, n, graph) ==
    revisions' = {r \in revisions : r.schema # s}
                    \cup {[schema |-> s, revision |-> n, graph |-> graph]}
SaveRevision(s, n, graph) ==
    revisions' = revisions
                    \cup {[schema |-> s, revision |-> n, graph |-> graph]}

\* record_change, in the transaction of the change.
\* Mutant: a deletion is not announced.
RecordChangeUnlessDeleted(kind, id, deleted) ==
    changes' = IF deleted THEN changes
               ELSE [changes EXCEPT ![<<kind, id>>] = Append(@, FALSE)]
RecordChange(kind, id, deleted) ==
    changes' = [changes EXCEPT ![<<kind, id>>] = Append(@, deleted)]

-----------------------------------------------------------------------------
(* CreateDraft *)

\* Bound: an identifier is left for every draft that is being made.
SchemaLeft ==
    Cardinality({g \in Handlers : tx[g].op = "create"})
        < Cardinality(Schemas \ issued)

\* The first statement: wait for the retry key, then look it up.
CreateReplay(h, u, key, body) ==
    LET rows == Remembered(DraftScope(u), key) IN
    /\ tx[h] = Idle
    /\ RetryKeyFree(<<DraftScope(u), key>>)
    /\ SchemaLeft
    /\ \A r \in rows : r.digest = body     \* else idempotency_conflict
    /\ tx' = [tx EXCEPT ![h] =
          DraftTx(IF rows = {} THEN "authorize" ELSE "manifest", u, key, body)]
    /\ UNCHANGED <<store, analyses, acks>>

\* A retry is answered with the manifest of the draft made the first time, or
\* with not_found when that schema has been deleted since.
CreateReturnsManifest(h) ==
    /\ At(h, "create", "manifest")
    /\ End(h)
    /\ UNCHANGED <<store, analyses, acks>>

CreateAuthorize(h) ==
    /\ At(h, "create", "authorize")
    /\ IF Visible(tx[h].subject, analyses[tx[h].body.analysis])
       THEN Goto(h, "lock") ELSE End(h)
    /\ UNCHANGED <<store, analyses, acks>>

\* The analysis row is locked; it must be completed and hold the alternative.
CreateLock(h) ==
    LET row == analyses[tx[h].body.analysis] IN
    /\ At(h, "create", "lock")
    /\ RowFree(<<"analysis", tx[h].body.analysis>>)
    /\ IF /\ row # None
          /\ row.status = "completed"
          /\ tx[h].body.alternative \in row.alternatives
       THEN Goto(h, "commit") ELSE End(h)
    /\ UNCHANGED <<store, analyses, acks>>

CreateCommit(h) ==
    \E s \in Schemas \ issued :
        /\ At(h, "create", "commit")
        /\ issued' = issued \cup {s}
        /\ resources' = [resources EXCEPT
              ![s] = [revision |-> 1, owner |-> tx[h].subject]]
        /\ SaveRevision(s, 1, [origin |-> tx[h].body.alternative, edits |-> <<>>])
        /\ idempotency' = idempotency \cup
              {[scope |-> DraftScope(tx[h].subject), key |-> tx[h].key,
                digest |-> tx[h].body, resource |-> s]}
        /\ RecordChange("schema", s, FALSE)
        /\ End(h)
        /\ UNCHANGED <<receipts, analyses, acks>>

-----------------------------------------------------------------------------
(* ApplyChangeset *)

\* The owner is read without a lock, so the row may go away right after.
ApplyAuthorize(h, u, s, m, body, ifMatch) ==
    /\ tx[h] = Idle
    /\ Visible(u, resources[s])
    /\ tx' = [tx EXCEPT ![h] = ChangesetTx("replay", u, s, m, body, ifMatch, 0)]
    /\ UNCHANGED <<store, analyses, acks>>

ApplyReplay(h) ==
    LET rows == Remembered(ChangesetScope(tx[h].schema), tx[h].key) IN
    /\ At(h, "apply", "replay")
    /\ RetryKeyFree(RetryKey(h))
    /\ IF rows = {} THEN Goto(h, "lock")
       ELSE IF \A r \in rows : r.digest = tx[h].body
       THEN Goto(h, "receipt") ELSE End(h)     \* idempotency_conflict
    /\ UNCHANGED <<store, analyses, acks>>

\* The receipt may have been deleted with its schema: not_found.
ApplyReturnsReceipt(h) ==
    /\ At(h, "apply", "receipt")
    /\ acks' = acks \cup
          {r \in receipts : r.schema = tx[h].schema /\ r.mutation = tx[h].key}
    /\ End(h)
    /\ UNCHANGED <<store, analyses>>

\* If-Match (else precondition_required) and baseRevision must both name the
\* latest revision (else revision_conflict).
\* Mutant: only If-Match is compared.
BaseIgnored(h, row) == tx[h].ifMatch = <<tx[h].schema, row.revision>>
UpToDate(h, row) ==
    /\ tx[h].ifMatch = <<tx[h].schema, row.revision>>
    /\ tx[h].body.base = row.revision

\* With the row locked, the changeset must be up to date and its operations
\* legal for the graph (else invalid_input).
ApplyLock(h) ==
    LET s == tx[h].schema
        row == resources[s] IN
    /\ At(h, "apply", "lock")
    /\ RowFree(<<"schema", s>>)
    /\ IF /\ row # None        \* else not_found
          /\ UpToDate(h, row)
          /\ Accepts(GraphAt(s, row.revision), tx[h].body.operations)
       THEN tx' = [tx EXCEPT ![h].step = "commit", ![h].current = row.revision]
       ELSE End(h)
    /\ UNCHANGED <<store, analyses, acks>>

\* apply_schema_changes: the graph of the locked row's revision, edited.
\* Mutant: the edit is applied to the draft the schema started from.
EditedFromDraft(h) ==
    [GraphAt(tx[h].schema, 1) EXCEPT !.edits = Append(@,
        [mutation |-> tx[h].key, operations |-> tx[h].body.operations])]
Edited(h) ==
    [GraphAt(tx[h].schema, tx[h].current) EXCEPT !.edits = Append(@,
        [mutation |-> tx[h].key, operations |-> tx[h].body.operations])]

ApplyCommit(h) ==
    LET s == tx[h].schema
        revision == tx[h].current + 1
        receipt == [schema |-> s, mutation |-> tx[h].key,
                    base |-> tx[h].body.base, revision |-> revision] IN
    /\ At(h, "apply", "commit")
    /\ SaveRevision(s, revision, Edited(h))
    /\ resources' = [resources EXCEPT ![s].revision = revision]
    /\ receipts' = receipts \cup {receipt}
    /\ idempotency' = idempotency \cup
          {[scope |-> ChangesetScope(s), key |-> tx[h].key,
            digest |-> tx[h].body, resource |-> tx[h].key]}
    /\ RecordChange("schema", s, FALSE)
    /\ acks' = acks \cup {receipt}
    /\ End(h)
    /\ UNCHANGED <<analyses, issued>>

-----------------------------------------------------------------------------
(* DeleteSchema and DeleteAnalysis *)

DeleteAuthorize(h, u, s, ifMatch) ==
    /\ tx[h] = Idle
    /\ Visible(u, resources[s])
    /\ tx' = [tx EXCEPT ![h] = DeleteTx("lock", s, ifMatch)]
    /\ UNCHANGED <<store, analyses, acks>>

DeleteLock(h) ==
    LET s == tx[h].schema
        row == resources[s] IN
    /\ At(h, "delete", "lock")
    /\ RowFree(<<"schema", s>>)
    /\ IF row # None /\ tx[h].ifMatch = <<s, row.revision>>
       THEN Goto(h, "commit") ELSE End(h)
    /\ UNCHANGED <<store, analyses, acks>>

\* The retry rows delete_resource removes with a schema.
\* Mutant: the row of the request that drafted the schema stays.
ChangesetRowsOf(s) == {r \in idempotency : r.scope = ChangesetScope(s)}
RetryRowsOf(s) ==
    {r \in idempotency : \/ r.scope = ChangesetScope(s)
                         \/ r.scope[1] = "schemas" /\ r.resource = s}

\* delete_resource: the children, the retry rows and the row itself.
DeleteCommit(h) ==
    LET s == tx[h].schema IN
    /\ At(h, "delete", "commit")
    /\ revisions' = {r \in revisions : r.schema # s}
    /\ receipts' = {r \in receipts : r.schema # s}
    /\ idempotency' = idempotency \ RetryRowsOf(s)
    /\ resources' = [resources EXCEPT ![s] = None]
    /\ RecordChange("schema", s, TRUE)
    /\ End(h)
    /\ UNCHANGED <<analyses, issued, acks>>

DeleteAnalysisAuthorize(h, u, a) ==
    /\ tx[h] = Idle
    /\ Visible(u, analyses[a])
    /\ tx' = [tx EXCEPT ![h] = DeleteAnalysisTx("lock", a)]
    /\ UNCHANGED <<store, analyses, acks>>

DeleteAnalysisLock(h) ==
    LET row == analyses[tx[h].analysis] IN
    /\ At(h, "deleteAnalysis", "lock")
    /\ RowFree(<<"analysis", tx[h].analysis>>)
    /\ IF row # None /\ row.status \in {"completed", "failed"}
       THEN Goto(h, "commit") ELSE End(h)      \* not_found or not_ready
    /\ UNCHANGED <<store, analyses, acks>>

DeleteAnalysisCommit(h) ==
    /\ At(h, "deleteAnalysis", "commit")
    /\ analyses' = [analyses EXCEPT ![tx[h].analysis] = None]
    /\ RecordChange("analysis", tx[h].analysis, TRUE)
    /\ End(h)
    /\ UNCHANGED <<resources, revisions, receipts, idempotency, issued, acks>>

-----------------------------------------------------------------------------
(* Around the handlers *)

\* The inference worker publishes an analysis (AnalysisJobs has the detail).
FinishAnalysis(a) ==
    /\ analyses[a] # None
    /\ analyses[a].status = "processing"
    /\ RowFree(<<"analysis", a>>)
    /\ \E status \in {"completed", "failed"} :
          analyses' = [analyses EXCEPT
              ![a].status = status,
              ![a].alternatives = IF status = "completed" THEN Found(a) ELSE {}]
    /\ RecordChange("analysis", a, FALSE)
    /\ UNCHANGED <<resources, revisions, receipts, idempotency, issued, tx, acks>>

\* A lost connection, an error or a crash of the server: PostgreSQL rolls the
\* transaction back and drops its locks.
Abort(h) ==
    /\ tx[h] # Idle
    /\ End(h)
    /\ UNCHANGED <<store, analyses, acks>>

\* Any If-Match header a client can have kept for s, or none.
Etags(s) == {None} \cup {<<s, n>> : n \in 1..MaxRevision}

Begin(h) ==
    \E u \in Subjects :
        \/ \E key \in Keys, body \in DraftBodies : CreateReplay(h, u, key, body)
        \/ \E s \in Schemas, m \in Mutations, body \in ChangesetBodies :
              \E ifMatch \in Etags(s) : ApplyAuthorize(h, u, s, m, body, ifMatch)
        \/ \E s \in Schemas : \E ifMatch \in Etags(s) :
              DeleteAuthorize(h, u, s, ifMatch)
        \/ \E a \in Analyses : DeleteAnalysisAuthorize(h, u, a)

Proceed(h) ==
    \/ CreateReturnsManifest(h)
    \/ CreateAuthorize(h)
    \/ CreateLock(h)
    \/ CreateCommit(h)
    \/ ApplyReplay(h)
    \/ ApplyReturnsReceipt(h)
    \/ ApplyLock(h)
    \/ ApplyCommit(h)
    \/ DeleteLock(h)
    \/ DeleteCommit(h)
    \/ DeleteAnalysisLock(h)
    \/ DeleteAnalysisCommit(h)

Init ==
    /\ resources = [s \in Schemas |-> None]
    /\ revisions = {}
    /\ receipts = {}
    /\ idempotency = {}
    /\ analyses \in [Analyses ->
          [status : {"processing"}, owner : Subjects, alternatives : {{}}]]
    /\ changes = [r \in ({"schema"} \X Schemas) \cup ({"analysis"} \X Analyses)
                      |-> IF r[1] = "schema" THEN <<>> ELSE <<FALSE, FALSE>>]
    /\ issued = {}
    /\ tx = [h \in Handlers |-> Idle]
    /\ acks = {}

Next ==
    \/ \E h \in Handlers : Begin(h) \/ Proceed(h) \/ Abort(h)
    \/ \E a \in Analyses : FinishAnalysis(a)

Spec == Init /\ [][Next]_vars

\* A handler's thread runs its statements one after the other, and PostgreSQL
\* serves the waiters of a lock in turn.
FairSpec ==
    /\ Spec
    /\ \A h \in Handlers : SF_vars(Proceed(h))

-----------------------------------------------------------------------------
(* Properties *)

AnyEtag == {None} \cup (Schemas \X (1..MaxRevision))

DraftTxs ==
    [op : {"create"}, step : {"authorize", "manifest", "lock", "commit"},
     subject : Subjects, key : Keys, body : DraftBodies]
ChangesetTxs ==
    [op : {"apply"}, step : {"replay", "receipt", "lock", "commit"},
     subject : Subjects, schema : Schemas, key : Mutations,
     body : ChangesetBodies, ifMatch : AnyEtag, current : 0..MaxRevision]
DeleteTxs ==
    [op : {"delete"}, step : {"lock", "commit"}, schema : Schemas,
     ifMatch : AnyEtag]
DeleteAnalysisTxs ==
    [op : {"deleteAnalysis"}, step : {"lock", "commit"}, analysis : Analyses]

TxRecords ==
    {Idle} \cup DraftTxs \cup ChangesetTxs \cup DeleteTxs \cup DeleteAnalysisTxs

\* Every table holds rows of its kind, and every open transaction is at a step
\* of its use case.
TypeOK ==
    /\ resources \in [Schemas -> SchemaRows \cup {None}]
    /\ revisions \subseteq RevisionRows
    /\ receipts \subseteq ReceiptRows
    /\ idempotency \subseteq IdempotencyRows
    /\ analyses \in [Analyses -> AnalysisRows \cup {None}]
    /\ changes \in [({"schema"} \X Schemas) \cup ({"analysis"} \X Analyses)
                        -> Seq(BOOLEAN)]
    /\ issued \subseteq Schemas
    /\ tx \in [Handlers -> TxRecords]
    /\ acks \subseteq ReceiptRows

\* The revisions of a schema are s1 up to the one its row names, each saved
\* once; each one after the first is the graph of the one before it with the
\* edit of exactly one receipt added, whose retry row carries that edit. A
\* schema that is gone has left no revision and no receipt behind.
RevisionChain ==
    \A s \in Schemas :
        /\ {r.revision : r \in {x \in revisions : x.schema = s}}
              = IF Live(s) THEN 1..resources[s].revision ELSE {}
        /\ {r.revision : r \in {x \in receipts : x.schema = s}}
              = IF Live(s) THEN 2..resources[s].revision ELSE {}
        /\ \A q, r \in revisions :
              q.schema = s /\ r.schema = s /\ q.revision = r.revision => q = r
        /\ \A r \in receipts : r.schema = s =>
              /\ r.revision = r.base + 1
              /\ \E k \in idempotency :
                    /\ k.scope = ChangesetScope(s) /\ k.key = r.mutation
                    /\ k.digest.base = r.base
                    /\ GraphAt(s, r.revision).edits =
                          Append(GraphAt(s, r.base).edits,
                                 [mutation |-> r.mutation,
                                  operations |-> k.digest.operations])

\* What a client was once told is applied, in answer to the request or to any
\* retry of it, is told the same way ever after, and is in every later revision
\* of the schema at its own place.
AckedEditsSurvive ==
    /\ \A a, b \in acks : a.schema = b.schema /\ a.mutation = b.mutation => a = b
    /\ \A a \in acks, r \in revisions :
          r.schema = a.schema /\ r.revision >= a.revision =>
              /\ Len(r.graph.edits) >= a.base
              /\ r.graph.edits[a.base].mutation = a.mutation
              /\ \A i \in 1..Len(r.graph.edits) :
                    r.graph.edits[i].mutation = a.mutation => i = a.base

\* A retry key answers for one request only, and for something that is there:
\* a changeset's key for its receipt, a draft's key for a schema that exists.
\* Every schema has the key it was drafted under, so no two were drafted from
\* one request.
RetryRowsAnswer ==
    /\ \A q, r \in idempotency : q.scope = r.scope /\ q.key = r.key => q = r
    /\ \A r \in idempotency : r.scope[1] = "schemas" => Live(r.resource)
    /\ \A s \in Schemas : Live(s) =>
          \E r \in idempotency :
              r.scope = DraftScope(resources[s].owner) /\ r.resource = s
    /\ \A r \in idempotency : r.scope[1] = "changesets" =>
          \E p \in receipts : p.schema = r.scope[2] /\ p.mutation = r.resource

\* A transaction that is about to write inserts no primary key that is taken:
\* no request that passed its checks can die of a unique violation.
NoUniqueViolation ==
    \A h \in Handlers :
        /\ At(h, "create", "commit") =>
              Remembered(DraftScope(tx[h].subject), tx[h].key) = {}
        /\ At(h, "apply", "commit") =>
              LET s == tx[h].schema IN
              /\ Remembered(ChangesetScope(s), tx[h].key) = {}
              /\ \A r \in receipts : r.schema = s => r.mutation # tx[h].key
              /\ \A r \in revisions : r.schema = s =>
                    r.revision # tx[h].current + 1

\* What a transaction checked under its row lock is still so when it writes:
\* nobody else deleted or changed the row in between.
CheckedRowsHold ==
    \A h \in Handlers :
        /\ At(h, "create", "commit") =>
              LET row == analyses[tx[h].body.analysis] IN
              /\ row # None
              /\ row.status = "completed"
              /\ tx[h].body.alternative \in row.alternatives
        /\ At(h, "apply", "commit") =>
              LET s == tx[h].schema IN
              /\ Live(s)
              /\ resources[s].revision = tx[h].current
              /\ tx[h].body.base = tx[h].current
              /\ Accepts(GraphAt(s, tx[h].current), tx[h].body.operations)
        /\ At(h, "delete", "commit") =>
              /\ Live(tx[h].schema)
              /\ tx[h].ifMatch = <<tx[h].schema, resources[tx[h].schema].revision>>
        /\ At(h, "deleteAnalysis", "commit") => analyses[tx[h].analysis] # None

\* The outbox holds one row for every committed change of a schema, in order,
\* and the deletion is its last: the caches hear of every revision.
OutboxMatches ==
    \A s \in Schemas :
        LET rows == changes[<<"schema", s>>] IN
        /\ Live(s) => Len(rows) = resources[s].revision
        /\ s \in issued /\ ~ Live(s) => Len(rows) > 0
        /\ \A i \in 1..Len(rows) : rows[i] <=> (~ Live(s) /\ i = Len(rows))

KeepsSnapshots ==
    /\ \A r \in revisions : r \in revisions' \/ resources'[r.schema] = None
    /\ \A s \in issued : resources[s] = None => resources'[s] = None

\* A snapshot never changes while its schema exists, and identifiers of schemas
\* that were deleted stay unused.
SnapshotsImmutable == [][KeepsSnapshots]_vars

\* The document a schema is, behind the rows: the graph of its latest revision.
Document ==
    [s \in Schemas |-> IF Live(s) THEN GraphAt(s, resources[s].revision)
                       ELSE IF s \in issued THEN Deleted ELSE Unborn]

History == INSTANCE SchemaHistory WITH document <- Document

\* The store implements one document per schema, edited atomically.
HistorySpec == History!Spec

\* Every request comes to an answer: the retry keys and row locks that the
\* handlers take in turn never leave them waiting for each other.
RequestsEnd == \A h \in Handlers : tx[h] # Idle ~> tx[h] = Idle
=============================================================================
