----------------------------- MODULE MockBackends -----------------------------
(***************************************************************************)
(* The backend of the client's mock mode, which stands for the server in    *)
(* the browser: the workspace's part (host) keeps the list of schemas and    *)
(* the analyses, the editor's part the documents with their revisions.  Each *)
(* part stores itself in the local storage after every change and is         *)
(* restored from there when the page is loaded again.                        *)
(*                                                                         *)
(* A request waits before it is handled, and may be aborted while it does;   *)
(* an answer may come to a caller that has gone.                             *)
(***************************************************************************)
EXTENDS Naturals, Sequences, FiniteSets, SequencesExt, Functions

CONSTANTS
    Listed,         \* the schemas that the workspace starts with
    Drafts,         \* identifiers of schemas that are drafted
    Analyses,       \* identifiers of analyses
    Keys,           \* idempotency keys
    Bodies,         \* what an analysis may be created from
    Titles,         \* what a draft may be called
    Mutations,      \* identities of changesets
    Fields,         \* the fields of a new document, in order
    Batches,        \* batches of operations
    None,
    MaxRequests,    \* bound: requests
    MaxRevision     \* bound: revisions

VARIABLES
    editor,         \* schemas, drafts and analyses of the editor's part
    host,           \* schemas, analyses and attempts of the workspace's part
    stored,         \* both as they are in the local storage, None before they are
    age,            \* how far the clock has gone since an analysis was created
    pending,        \* the request that waits, or None
    sent,           \* how many there were
    acks            \* what was made for callers and told them: <<kind, request, answer>>

vars == <<editor, host, stored, age, pending, sent, acks>>

Schemas == Listed \cup Drafts
Nothing == [x \in {} |-> None]
With(f, x, y) == [z \in DOMAIN f \cup {x} |-> IF z = x THEN y ELSE f[z]]
Without(f, x) == Restrict(f, DOMAIN f \ {x})

-----------------------------------------------------------------------------
(* Documents: the fields in their order, and their names. *)

Refused == [order |-> <<>>, name |-> Nothing]
Seed == [order |-> Fields, name |-> [f \in ToSet(Fields) |-> f]]

RenameElement(data, op) ==
    IF op.id \in DOMAIN data.name /\ op.valid
    THEN [data EXCEPT !.name[op.id] = op.name] ELSE Refused

MoveMember(data, op) ==
    LET rest == SelectSeq(data.order, LAMBDA f : f # op.id)
        at == IF op.before = None THEN Len(rest) + 1
              ELSE CHOOSE i \in DOMAIN rest : rest[i] = op.before
    IN IF op.id \notin ToSet(data.order) THEN Refused
       ELSE IF op.before = op.id THEN data
       ELSE IF op.before \notin ToSet(data.order) \cup {None} THEN Refused
       ELSE [data EXCEPT !.order = InsertAt(rest, at, op.id)]

\* A document has no attributes and no properties: what renames those is refused.
Operation(data, op) ==
    IF data = Refused THEN Refused
    ELSE CASE op.kind = "renameXmlName" -> RenameElement(data, op)
           [] op.kind = "moveMember" -> MoveMember(data, op)
           [] OTHER -> Refused
Apply(data, ops) == FoldLeft(Operation, data, ops)

NewSchema == [revisions |-> <<Seed>>, receipts |-> Nothing]
Current(schema) == Len(schema.revisions)

-----------------------------------------------------------------------------
(* The parts as they come out of the storage. *)

EmptyEditor == [schemas |-> Nothing, drafts |-> Nothing, analyses |-> {}]
InitialSnapshot == [schemas |-> Listed, analyses |-> Nothing, attempts |-> Nothing]
Restored(part, first) == IF part = None THEN first ELSE part

\* Schemas are registered unless the editor has them, analyses always.  Mutant: schemas, too.
RegisteredAnew(e, h) ==
    [e EXCEPT !.schemas = [s \in DOMAIN @ \cup h.schemas |->
                              IF s \in h.schemas THEN NewSchema ELSE @[s]],
              !.analyses = @ \cup DOMAIN h.analyses]
Registered(e, h) ==
    [e EXCEPT !.schemas = [s \in DOMAIN @ \cup h.schemas |->
                              IF s \in DOMAIN @ THEN @[s] ELSE NewSchema],
              !.analyses = @ \cup DOMAIN h.analyses]

Start(saved) ==
    LET h == Restored(saved.host, InitialSnapshot)
        e == Registered(Restored(saved.editor, EmptyEditor), h)
    IN /\ host' = h
       /\ editor' = e
       /\ stored' = [saved EXCEPT !.editor = e]

Init ==
    /\ host = InitialSnapshot
    /\ editor = Registered(EmptyEditor, InitialSnapshot)
    /\ stored = [editor |-> editor, host |-> None]
    /\ age = [a \in Analyses |-> 0]
    /\ pending = None /\ sent = 0 /\ acks = {}

\* The page is loaded again.
Reload ==
    /\ Start(stored)
    /\ pending' = None
    /\ UNCHANGED <<age, sent, acks>>

PersistEditor(e) == stored' = [stored EXCEPT !.editor = e]
PersistHost(h) == stored' = [stored EXCEPT !.host = h]
\* Mutant: of a change in both, the workspace's part is not stored.
PersistFirst(e, h) == stored' = [stored EXCEPT !.editor = e]
PersistBoth(e, h) == stored' = [editor |-> e, host |-> h]

-----------------------------------------------------------------------------
(* Requests and their handlers.  An answer is 0 if the request is refused.   *)

Request ==
    [kind : {"createAnalysis"}, key : Keys, body : Bodies]
    \cup [kind : {"deleteAnalysis"}, analysis : Analyses]
    \cup [kind : {"createDraft"}, key : Keys, analysis : Analyses, title : Titles]
    \cup [kind : {"deleteSchema"}, schema : Schemas, match : 1..MaxRevision]
    \cup [kind : {"changeset"}, schema : Schemas, mutation : Mutations,
          base : 1..MaxRevision, operations : Batches]

Progress(a) == age[a]   \* 0 queued, 1 processing, 2 completed

Told(r, answer) ==
    \/ acks' = acks \cup {<<r.kind, r, answer>>}
    \/ UNCHANGED acks
Refuse(r) == UNCHANGED <<editor, host, stored, acks>>

Attempted(key) == key \in DOMAIN host.attempts /\ host.attempts[key] \in DOMAIN host.analyses

CreateAnalysis(r) ==
    /\ r.kind = "createAnalysis"
    /\ IF Attempted(r.key)
       THEN LET a == host.attempts[r.key]
            IN IF host.analyses[a] = r.body
               THEN Told(r, a) /\ UNCHANGED <<editor, host, stored>>
               ELSE Refuse(r)
       ELSE \E a \in Analyses \ editor.analyses :
            /\ editor' = [editor EXCEPT !.analyses = @ \cup {a}]
            /\ host' = [host EXCEPT !.analyses = With(@, a, r.body),
                                    !.attempts = With(@, r.key, a)]
            /\ PersistBoth(editor', host')
            /\ Told(r, a)

DeleteAnalysis(r) ==
    /\ r.kind = "deleteAnalysis"
    /\ IF r.analysis \in DOMAIN host.analyses /\ Progress(r.analysis) = 2
       THEN /\ host' = [host EXCEPT !.analyses = Without(@, r.analysis)]
            /\ PersistHost(host')
            /\ UNCHANGED <<editor, acks>>
       ELSE Refuse(r)

\* A draft whose schema was deleted cannot be told again.
CreateDraft(r) ==
    /\ r.kind = "createDraft"
    /\ IF r.key \in DOMAIN editor.drafts
       THEN LET d == editor.drafts[r.key]
            IN IF d.payload = r /\ d.schema \in DOMAIN editor.schemas
               THEN Told(r, d.schema) /\ UNCHANGED <<editor, host, stored>>
               ELSE Refuse(r)
       ELSE IF r.analysis \notin editor.analyses THEN Refuse(r)
       ELSE \E s \in Drafts \ {editor.drafts[k].schema : k \in DOMAIN editor.drafts} :
            /\ editor' = [editor EXCEPT
                 !.schemas = With(@, s, NewSchema),
                 !.drafts = With(@, r.key, [payload |-> r, schema |-> s])]
            /\ PersistEditor(editor')
            /\ Told(r, s)
            /\ UNCHANGED host

DeleteSchema(r) ==
    /\ r.kind = "deleteSchema"
    /\ IF r.schema \in DOMAIN editor.schemas /\ r.match = Current(editor.schemas[r.schema])
       THEN /\ editor' = [editor EXCEPT !.schemas = Without(@, r.schema)]
            /\ host' = [host EXCEPT !.schemas = @ \ {r.schema}]
            /\ PersistBoth(editor', host')
            /\ UNCHANGED acks
       ELSE Refuse(r)

\* The receipts first, then the base, then the operations, on a copy.
Revised(schema, r) ==
    LET data == Apply(Last(schema.revisions), r.operations)
    IN IF r.base # Current(schema) \/ data = Refused THEN schema
       ELSE [revisions |-> Append(schema.revisions, data),
             receipts |-> With(schema.receipts, r.mutation,
                               [payload |-> r, revision |-> Current(schema) + 1])]

Changeset(r) ==
    /\ r.kind = "changeset"
    /\ IF r.schema \notin DOMAIN editor.schemas THEN Refuse(r)
       ELSE LET schema == editor.schemas[r.schema]
                next == Revised(schema, r)
            IN IF r.mutation \in DOMAIN schema.receipts
               THEN LET receipt == schema.receipts[r.mutation]
                    IN IF receipt.payload = r
                       THEN Told(r, receipt.revision) /\ UNCHANGED <<editor, host, stored>>
                       ELSE Refuse(r)
               ELSE IF next = schema THEN Refuse(r)
               ELSE /\ editor' = [editor EXCEPT !.schemas[r.schema] = next]
                    /\ PersistEditor(editor')
                    /\ Told(r, Current(next))
                    /\ UNCHANGED host

-----------------------------------------------------------------------------
\* Requests wait equally long, so that they are handled in the order they are made.
Send ==
    /\ pending = None /\ sent < MaxRequests
    /\ pending' \in Request
    /\ sent' = sent + 1
    /\ UNCHANGED <<editor, host, stored, age, acks>>

\* The caller gives up while the request waits.
Abort ==
    /\ pending # None
    /\ pending' = None
    /\ UNCHANGED <<editor, host, stored, age, sent, acks>>

Serve ==
    /\ pending # None
    /\ \/ CreateAnalysis(pending) \/ DeleteAnalysis(pending) \/ CreateDraft(pending)
       \/ DeleteSchema(pending) \/ Changeset(pending)
    /\ pending' = None
    /\ UNCHANGED <<age, sent>>

Time ==
    /\ \E a \in DOMAIN host.analyses : age[a] < 2 /\ age' = [age EXCEPT ![a] = @ + 1]
    /\ UNCHANGED <<editor, host, stored, pending, sent, acks>>

Next == Send \/ Abort \/ Serve \/ Time \/ Reload

Spec == Init /\ [][Next]_vars

-----------------------------------------------------------------------------
EditsOf(schema) ==
    [i \in 1..Current(schema) - 1 |->
        LET m == CHOOSE m \in DOMAIN schema.receipts : schema.receipts[m].revision = i + 1
        IN [mutation |-> m, operations |-> schema.receipts[m].payload.operations]]
Born == Listed \cup {editor.drafts[k].schema : k \in DOMAIN editor.drafts}
Unborn == [origin |-> "unborn", edits |-> <<>>]
Gone == [origin |-> "deleted", edits |-> <<>>]
Document ==
    [s \in Schemas |->
        IF s \in DOMAIN editor.schemas
        THEN [origin |-> None, edits |-> EditsOf(editor.schemas[s])]
        ELSE IF s \in Born THEN Gone ELSE Unborn]

Accepts(graph, ops) ==
    FoldLeft(LAMBDA data, e : Apply(data, e.operations), Seed,
             Append(graph.edits, [operations |-> ops])) # Refused

\* The listed schemas are there from the start: the abstract behaviour begins with them.
History == INSTANCE SchemaHistory WITH
    document <- Document, Alternatives <- {None}, Operations <- Batches,
    Deleted <- Gone

\* The mock keeps what the server promises of a schema: one document, edited by one
\* batch at a time, each once, and deleted for good, also across reloads of the page.
\* (The documents are in the editor's part: they are compared where it changes.)
MockHistory == [][editor' # editor => History!Next]_Document

\* Every revision is the one before it with exactly its batch applied.
RevisionsFollow ==
    \A s \in DOMAIN editor.schemas :
        LET schema == editor.schemas[s]
            edits == EditsOf(schema)
        IN /\ schema.revisions[1] = Seed
           /\ \A i \in DOMAIN edits :
                schema.revisions[i + 1] = Apply(schema.revisions[i], edits[i].operations)

\* Loading the page again changes nothing: both parts are stored as they are, and the
\* workspace's part lists no schema that the editor's part has not.
ReloadsSilent ==
    /\ host.schemas \subseteq DOMAIN editor.schemas
    /\ DOMAIN host.analyses \subseteq editor.analyses
    /\ stored.editor = editor
    /\ Restored(stored.host, InitialSnapshot) = host

\* A request that is made again is told the same as before, for as long as what it
\* made is there; the same identity with another body is told nothing.
Identity(r) == IF r.kind = "changeset" THEN <<r.schema, r.mutation>> ELSE <<r.key>>
There(kind, r, answer) ==
    CASE kind = "createAnalysis" -> answer \in DOMAIN host.analyses
      [] kind = "createDraft" -> TRUE
      [] OTHER -> r.schema \in DOMAIN editor.schemas
RetriesAgree ==
    \A x, y \in {ack \in acks : There(ack[1], ack[2], ack[3])} :
        x[1] = y[1] /\ Identity(x[2]) = Identity(y[2]) => x = y

MockHolds == RevisionsFollow /\ ReloadsSilent /\ RetriesAgree
=============================================================================
