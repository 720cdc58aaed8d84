# Schema inference, specified

This directory models the program in TLA+: the server that infers schemas from
documents and keeps them, the editor in the browser that changes them, and the
caches in between. TLC checks every module on small instances; for nine modules the
safety properties, and the two refinements of the server, are proved with TLAPS for
instances of any size.

`tlc -config <run>.cfg <module>.tla` repeats a run of the table below,
`tlapm <module>Proofs.tla` the proofs about a module.

## 1. The system and its parts

### Server (`src/apps/server`, Python, one process)

| part | state | operations | correct when |
|---|---|---|---|
| workspace store (`env/repos/workspace`, `env/uow/workspace`) | PostgreSQL tables `resources`, `revisions` with `nodes`, `collections`, `members`, `changesets`, `idempotency`, `analysis_results`, `changes`; READ COMMITTED transactions with advisory locks on retry keys and row locks | the statements of the use cases | a transaction that passed its checks writes on what it checked; nothing is left of a deleted resource |
| schema use cases (`create_draft`, `apply_changeset`, `delete_schema`, `delete_analysis`) | none of their own | draft a schema from an analysis, apply a batch of edits to its latest revision, delete | a schema is one document, edited by one batch at a time, never twice by the same; revisions are immutable; a retry is answered like the first request |
| analysis jobs (`start_analysis`, `run_analysis`, `ThreadedAnalysisJobs`) | the executor's queue and its one thread; status and attempts in the row | accept, submit, claim, infer, publish, fail, resume | every accepted analysis ends; attempts are bounded; no analysis is run twice at a time; a result appears with its completion |
| change outbox (`dispatch_changes`, `CacheInvalidationJob`, the invalidation tools) | rows of `changes`, the event `_wake`, the job's thread | kick, drain in batches, purge the gateway, forget owners, back off | every committed change is told to each cache before its row goes, also across failures; kicks are not lost |
| access checks (`authorize_request`) | the owner cache in Valkey | look up, read, put | an owner is not remembered for longer than the entry lives |
| identity cache (`valkey_identity_cache`, `authenticate_token`, `apply_identity_event`, `logout`) | introspections, per-subject index, revocation markers | authenticate, revoke, expire | cached answers agree with the events that were applied |
| workspace reads (`read_workspace`) | cursors that name a revision | manifest, page, branch, list | a page sequence shows one revision |
| upload sessions (`upload_documents`, `process_documents`, `cleanup_session`, websocket) | sessions in memory, files, delayed tasks | upload, process, clean up | files are removed once and not under a running inference |
| inference core (`normalize_documents`, `match_field_names`, `build_probability_space`, `build_schema_draft`) | none: pure functions | normalize documents, merge names, count fields and structures, draft a schema | the same whatever the order of names; what stands side by side is not merged; a draft allows its document |
| schema operations (`apply_schema_changes`) | none: a graph and operations | rename, move | the graph stays a tree with unique names; the editor's operations do the same |
| readers, lexical tools (`env/tools`) | none | parse, look words up | (textual) |
| HTTP API (`api/http`, `main.py`) | lifespan | routing, start and stop of the jobs | started in order, stopped without losing work |

### Editor (`src/apps/editor`, TypeScript) and client (`src/apps/client`)

| part | state | operations | correct when |
|---|---|---|---|
| editor document and save (`app/editor/document`, `saveSchema`, `documentEdit`, `useEditorSave`) | loaded nodes and pages, unsaved edits, history with a position, the pending save | rename, move, undo, redo, save, settle | every edit reaches the server at most once and in order; base and revision agree; undo restores |
| page and branch loading (`loadBranch`, `useEditorBranchReads`, the cards made of it) | windows of collections, cursors, reads in flight, pages and open rows | load, retry, evict, open a row | pages of another revision or an abandoned branch have no effect; cards show what was read |
| repositories and page cache (`http.schema.repo`, `cached.schema.repo`) | shared reads, recently used pages | read, cancel, evict, clear | one reader's cancellation does not hurt another |
| session hooks (`useEditorSession`, `editor.controller`) | session, epoch, drafts, busy, saveBlocked | open, reopen, switch | answers of an earlier session have no effect |
| board, interaction (`board/interaction`) | pointers, gesture, selection, viewport, renaming | press, drag, pan, pinch, wheel, keys | gestures end, on what is there |
| board, layout and renderer (`board/layout`, `board/render`, `schemaBoard`) | geometry, indices, row windows, previews, cached views, a frame | set a model, scroll, drag, zoom, arrange, draw, hit | what is drawn and hit is what the model says; nothing survives the board |
| client (`workspace.controller`, `createAnalysis`) | selected files, attempt key, drafts | select, start, retry, delete | a retry keeps its key unless the selection changed |
| mock backends (`mockEditor`, `mockWorkspace`) | schemas, analyses, attempts, in the local storage | the server's requests, reload | they promise what the server does, also across reloads |
| entity cache package (`packages/entity-cache`) | entities, views put together of them, queries, optimistic layers | read, write, roll back, sweep, subscribe | a read that is older than a write does not hide it; views are up to date all the way down, and who watches one is told when it changes |

### Deployment, tools, docs

Two scripts keep state: `bootstrap.py` provisions the identity provider and publishes the
credentials it was given, `generate.py` makes secret files from examples; both are
run again after an interrupt and must agree with what they did before. The rest
are Kubernetes manifests, PgBouncer, Caddy with Souin, Valkey, generators and Bruno
collections. The models take three facts from them: the server has one replica and
is replaced by *Recreate* (two servers never run at once), the cache has one replica,
editor, client and gateway may have several.

### How the parts interact

* A request handler runs one use case in one transaction. What it wrote is
  announced by a row of `changes` inserted in that same transaction; the router
  then kicks `CacheInvalidationJob`.
* `StartAnalysis` commits the row first and submits the job afterwards; the
  executor's thread opens one transaction to claim and one to publish or fail.
* `CreateDraft` reads an analysis that `RunAnalysis` publishes and
  `DeleteAnalysis` removes; `ApplyChangeset` and `DeleteSchema` compete for a row.
* `DispatchChanges` purges the gateway's cache and the owner cache that
  `AuthorizeRequest` refills meanwhile.
* The editor sends its unsaved edits with the revision it edits and an identity
  it keeps until the save is settled; the server answers a repeated identity
  with the receipt of the first time.
* `RunAnalysis` calls the inference core; `CreateDraft` builds a schema of one
  document; the operations the editor makes are made again by `apply_schema_changes`.
* The editor sets the board's model after every edit, page and answer; the board
  asks the editor for edits and pages and never changes the model itself.
* A login, a logout and the provider's events change what the identity cache may
  answer, while requests with the same token are on their way.

### What is hard here

Requests interleave at every statement that waits or reads; COMMITs, requests and
answers are lost; outbox rows appear in another order than their identifiers;
the server stops or crashes between two transactions, between a commit and a
submit, between a commit and a kick; jobs are cancelled at shutdown; the user
goes on editing while a save is on its way; a request arrives after its caller
has given up; pages and files that were asked for earlier are answered later; caches
(of tokens, owners, pages, records, geometry, views) may keep what is no longer so;
scripts are interrupted between two steps and run again. `PROJECT.json` lists each such hazard with its line and the
properties that cover it.

## 2. The modules

| module | models | is composed of or with |
|---|---|---|
| `SchemaHistory` | abstract: a schema is drafted once, edited one changeset at a time, deleted for good | |
| `SchemaWorkspace` | the store and the four schema use cases as interleaved transactions | implements `SchemaHistory` |
| `MCSchemaWorkspace` | instances for TLC | |
| `SchemaWorkspaceProofs` | theorems about `SchemaWorkspace`: types, locks, checks, its rows together, and that it implements `SchemaHistory` | |
| `AnalysisLifecycle` | abstract: what a client that polls an analysis may see | |
| `AnalysisJobs` | accept, run, interrupt, resume and delete analyses | implements `AnalysisLifecycle` |
| `MCAnalysisJobs` | instances for TLC | |
| `AnalysisJobsProofs` | theorems about `AnalysisJobs`, and that it implements `AnalysisLifecycle` | |
| `ChangeOutbox` | the outbox, its job, both caches, the access check | |
| `ChangeOutboxProofs` | theorems about `ChangeOutbox` | |
| `EditorSave` | the editor document, its save and a server that takes a changeset in one step | `SchemaWorkspace` shows that the server may be seen so |
| `MCEditorSave` | instances for TLC | |
| `EditorSaveProofs` | theorems about `EditorSave` | |
| `EntityCache` | the browser's data layer: reads, commands, layers, sweeping, sessions | |
| `MCEntityCache` | instances for TLC | |
| `EntityCacheProofs` | theorems about `EntityCache` | |
| `IdentityCache` | introspected tokens, their index, markers, logins, logouts, events, clocks and lives of keys | |
| `IdentityCacheProofs` | theorems about `IdentityCache` | |
| `UploadSessions` | uploads, delayed clean-up, sockets, shutdown | |
| `UploadSessionsProofs` | theorems about `UploadSessions` | |
| `Provisioning` | the bootstrap of the identity provider | |
| `SecretFiles` | secret files made from examples | |
| `SchemaInference` | normalizing, merging names, the space of fields | |
| `SchemaDrafts` | the draft of a document; operations on graphs, on the server and in the editor | |
| `MCServer` | the modules from `IdentityCache` on side by side | extends `UploadSessions` and `IdentityCache`, instantiates the others |
| `EditorWindows` | the document as far as rows go: windows of collections, edits shown over them | |
| `EditorPages` | pages, branches, edits, moves and saves of a schema that is loaded in parts | extends `EditorWindows`; of a save it has what that does to the windows |
| `EditorCards` | from nodes to cards: branches read as chains, the projection to the board, moves between cards | extends `EditorWindows` |
| `SchemaPages` | the cache of pages that readers share | |
| `EntityStore` | the store under the caches: records, layers, transactions, views, subscriptions, sweeping | |
| `EditorCacheProofs` | theorems about `SchemaPages` and `EntityStore` | |
| `BoardGestures` | pointers, gestures, viewport and renaming on the board | |
| `BoardLayout` | geometry of cards, the arrangement, the index: operators | extended by `BoardScene` |
| `BoardScene` | the renderer: geometry it keeps, frames, cached views, its start and end | extends `BoardLayout` |
| `WorkspaceClient` | the client's workspace page | |
| `MCWorkspaceClient` | its instance for the run of finding 3 | instantiates `WorkspaceClient` |
| `MockBackends` | the mock editor and workspace backends with the local storage | implements `SchemaHistory` |
| `MCBrowser` | the modules from `EditorPages` on side by side | extends `SchemaPages` and `EntityStore`, instantiates the others |

`MCServer` and `MCBrowser` drive parts that share no state: the variable `part` is
chosen in the initial state and never changes, only that part takes steps, and the
variables of the others stay at their initial (or a dummy) value. The states of
such a run are the sum of the parts', not their product. The parts that are proved about
are extended, so that a run and a theorem state one and the same property; they start in
every behaviour and stand still in those of the other parts. The others are instantiated,
and each property is stated of its part. A property of those runs is the conjunction of named
properties of one module; the parts of each conjunction are given below.

### SchemaWorkspace

The tables are sets of rows and functions from identifiers. `tx[h]` is the open
transaction of handler `h`: its request and its step. A transaction is cut where
another one can come between: `*Authorize` (a read without a lock), `*Replay`
(waiting for `pg_advisory_xact_lock` and looking the key up), `*Lock` (waiting for
`SELECT ... FOR UPDATE` and all checks under it) and `*Commit` (all its writes: they
are made under those locks and become visible together). `Abort` is any
exception, lost connection or crash: the rows stay as they were and the locks go.
`FinishAnalysis` is the worker of `AnalysisJobs` in one step.

A schema's graph is the alternative it was drafted from and the sequence of
batches it has taken. Whether a batch is legal for a graph
(`apply_schema_changes` raises or not) is the constant `Accepts`, so the proofs
hold whatever the operations are. `acks` is a history variable: the receipts any
client has been sent. `uuid4` identifiers do not repeat (`issued`), a digest
stands for the body it is made from, and `hashtext` does not collide: a collision
would only make requests wait for each other.

### AnalysisJobs

`rows`, `results`, `retry`, `changes` are tables; `queue` and `worker` are the
executor; `tx` the handlers; `server` the process. A transaction that takes a lock
and at once writes under it is one action, because nothing it has read can
change before it commits. `Claim`/`GiveUp` are the first transaction of
`RunAnalysis`, `Publish`, `Fail` the second one; each can lose its connection before
COMMIT (`ClaimFails`, `PublishFails`, `FailFails`) or after it (the second
alternative of `Claim`, `Publish`, `StartNew`). `Start` gives the executor what is
pending, `Stop` is the lifespan's shutdown, `Crash` everything else. `runs` and
`dropped` are history variables. What the inference computes is the choice in
`Infer`.

### ChangeOutbox

`writer[w]` is the transaction of a use case: `Insert` draws the identifier,
`Commit` makes the row visible, `Kick` sets the event; some commits are followed by
no kick. The job's thread goes through the steps of `_run` and
`DispatchChanges.execute`: wait, clear, claim the oldest rows, tell both tools, delete
the claimed rows, go on while batches are full, back off after a failure.
`reader[g]` is an access check between its look-up in the cache, its read of the
store and its write of the cache.

### EditorSave

`document[e]` is the `EditorDocument` of editor `e`: the names as of `base`, the
unsaved `edits`, the `history` with its `position`, the pending save with the number
of edits it covers. `Begun`, `Confirmed` and `Released` are `beginSave`,
`confirmSave`, `failSave`; `Rename`, `Undo` and `Redo` append to the edits. `call[e]`
is the request the page waits for, `orphans` those it waits for no more: they may
arrive later, repeatedly, or never (`ServeOrphan`). `Answer` is `ApplyChangeset` as
one step: whether the schema is still there, the retry key, the base, the operations.
`DeleteSchema` is its end: from then on every answer is a 404, which the editor does not take
for a rejection of the changes, so that the save keeps its identity and can be sent again
(`ReceiveUnavailable`). The schema is
one collection of properties with names, and renaming is the one operation: the
editor never looks at the names of the siblings, the server refuses one that is
taken, after *each* operation.

### EntityCache

`base` is the store's confirmed records (a version stands for the values), `layers`
its optimistic layers, `data[q]` and `pending[q]` what the cached result of query `q`
and its read on the way retain. `fetch[q]` is that read: asked, answered, or put into the
store but not yet cached (`Mount`, `Refetch`, `Answer`, `FetchFails`, `Repeat`,
`Normalize`, `Cache`, `Unmount`, `Remove`). `command[c]` is a call of `execute` between
its awaits: queued in the chain of `writes`, sent, served, answered, waiting for the reads
it repeats (`Execute`, `Run`, `RunCancelled`, `Serve`, `CommandFails`,
`CommandCancelled`, `Receive`, `Settle`, `Finish`). `generation` is `writeGeneration`,
`epoch` counts the calls of `clearAll`. `Stopped` and `Swept` are what every
cancellation, failure and release does to the store. TanStack Query is modelled from its
use: it begins, repeats, cancels and forgets reads. A change by another client looks to
the store like a command whose answer was lost (`Serve`, then `CommandFails`).

### IdentityCache

`entry`, `index`, `marker` and `dead` are Valkey's keys `auth:token`, `auth:user`,
`auth:revoked` and `auth:dead`, with the time at which each is over: `clock` cannot pass the end
of a key that is still there (`Tick`, `Expire`, `MarkerExpires`, `DeadExpires`); entries may be
over sooner, with their token. `provider` is what the provider would say of a token. A request
reads the clock, looks the token up, asks the provider and stores the answer (`Authenticate`,
then `Answer`'s steps); the store is one script, which refuses what began no later than a marker
says. An event of the provider reads the clock, sets the marker, reads the index and
deletes (`Event`, `FlushStep`), each a step of its own and each command failing at will: of two
handlers the one that read the clock first may set its marker last, over a later one. A logout
revokes its token and buries it (`Logout`, `LogoutStep`). Four history variables mark what the
code lets through: `orphaned` the entries a flush overtakes between reading an index and deleting
it, `outrun` the requests whose marker was set back, `late` the entries stored by those, or by
requests that took as long as a marker or a buried token is kept; and `buried` the tokens
that were buried after the provider had revoked them.
`RevocationsHold` = `LogoutHolds` /\ `AppliedEventsHold` /\ `IndexComplete`.

### UploadSessions

`sessions` is the repository in memory, `disk` what the storage holds, `timer` and `tasks` the
clean-up job, `socket` a websocket that processes a session, `cleaner[c]` a run of
`CleanupSession` in a thread that nothing stops. `Shutdown`, `CleanNext`, `Down` are the
lifespan's end, `Crash` and `Restart` the rest. Every operation on files may fail once.
`FilesHold` = `FilesHaveARemover` /\ `SoleSocketReadsAll`; `FilesRemoved` is liveness.

### Provisioning, SecretFiles

A run of `bootstrap.py` goes through project, applications, users and webhook in order
(`run.at`), looks each up, keeps or creates it, and publishes at the end; a run may be
interrupted at each call and the provider set up anew. `generate.py` goes through its
examples, draws a value for each placeholder once, saves the store and writes the
file; an interrupt may tear the file or the store it is writing.
`SecretsAgree` = `PublishedWork` of the one, `FilesAgree` of the other.

### SchemaInference, SchemaDrafts

Two steps each: the documents of a collection are normalized and analysed, a draft is built
and operations are applied. What the words of a name mean is a constant (`Alike`,
`Opposite`), texts are types, frequencies are counts. The sets that the code iterates
over are taken in several orders (`Orders`), and the result must be the same.
In `SchemaDrafts` each operation is written as both programs do it: `apply_schema_changes` on
the graph, `move.ts`, `rename.ts` and `projection.ts` on collections, with the inverse the
editor keeps. `InferenceHolds` = `MergesAreSettled` /\ `SidesStayApart` /\ `SpaceAgrees`;
`DraftsHold` = `DraftConforms` /\ `GraphIsTree` /\ `EditsAgree`.

### EditorPages

In `EditorWindows`, `server[r]` are the collections at revision `r`, `windows[c]` what the
document has loaded of a collection, with cursor, first index and gaps, `edits` and `history`
what is not saved; `AddPage` is `addPage`, `MoveRow` is `createMoveEdit`. In `EditorPages`,
`reads` are reads on their way with the opening (`epoch`) and the edits they were begun under. `Expand`, `Collapse`, `LoadMore` begin
or abandon reads, `Answer`, `Fail`, `Aborted` end them; `Rename`, `Move`, `Undo`, `Redo` edit;
`BeginSave`, `ConfirmSave`, `FailSave` are what a save does to windows. `Shown` is the
projection the user sees. `PagesHold` has `RowsAreTrue`, `WindowsAreParts` and
`LoadingIsRead` of it; `EditsInvert` is part of `StepsHold`.

### EditorCards

The same document, seen from the board. `nodes` are the nodes that are loaded, `branches` the
chains that were read, `unfolded` and `edges` what the view keeps of rows that were opened.
`Expand` is the click on a row (`selectionController.ts`, then `expand` of
`useEditorBranchReads.ts`); it begins a fetch, which `LoadBranchQuery` answers step by step:
a node, the page of its collection, the node it wraps (`NodeDue`, `PageDue`), until the last
answer is integrated (`Fetch`), or the request fails or was aborted. `LoadMore`, `More`,
`MoreFails`, `MoreAborted` are reads of further rows, `Move` the drop of a row on a card
(`memberDropAt`, `collectionForMember`, `checkMoveAncestry`, `createMoveEdit`). `Cards` and
`Edges` are `projectDocument`: a card has the rows of the collections of its chain, as they
are shown, and hides with everything behind it when the row that leads to it is closed.

It has one revision and no saves (`EditorPages` has them). A collection holds members of one
sort, and only members with rows behind them have a value node. Left out is what the view
merely keeps: selection, places, collapsed cards and variants, and the read-only previews of
the playground. The gesture computes once per drag which cards are behind the row; the model
computes it at the drop.

`CardsHold`, part of `PagesHold`: `CardsTell` (a card has the rows of its whole chain, each
once, counted as the server will have them), `CardsAreReached` (edges lead from the root to
every card that shows), `OpenRowsLead` (a row that shows as open leads to a card or its
branch is being read) and `MoreLeads` (what a card offers to read on has more).
`RowsStay`, part of `StepsHold`: pages that slide on take no row away that an edge starts at.

### SchemaPages

`pages` is the cache in order of use, `retaining` the requests whose page retains records in the
store, `stored` those records, `pending` the request registered for a page, `requests` and
`readers` who waits for what. A reader joins a request that is not aborted (`Join`), the
last one to cancel aborts it, `Clear` empties the cache under requests on their way.
`PagesShared` = `PagesAreWhole` /\ `CacheIsFresh` /\ `ReadersAreApart`.

### EntityStore

`base` are the confirmed records, `layers` the optimistic layers over them with the oldest
first, `roots` what reads retain; `records` is what results and is published, `versions[r]`
how often the view of an entity has changed, `memo[r]` the object that was put together of
it, `previous[r]` the object that a subscriber saw last, `version` the store's, `depth` and
`dirty` the transactions. `Normalize`, `RemoveEntity`, `Apply`, `Discard`, `Sweep` and
`ClearStore` change records or layers and publish, or leave that to the `EndTransaction` of
the outermost transaction; `Get` and `Subscribe` put views together, `Begin`, `Retain` and
`Release` only note.

An object is known by its entity and the version of the store it was put together at: between
two versions none is put together twice, so two objects are the same exactly when these are.
What an object holds (`holds`) are the objects of the entities in it at that moment, as the
code fills getters from the same memo. A payload that is not plain data throws before
anything is stored, which leaves the store as it was and is no step. `sameValue` is equality;
listeners only note what they are told (calling the store from a listener is not modelled),
and a subscription to all entities hears of every version.

`StoreHolds` says that `ViewsAreCurrent` and `SubscribersAreCurrent` in every state and
`Told` of every step: a subscriber is called exactly when what it sees, all the way down, has
changed. `SweepsAreHarmless`, part of `StepsHold`, says that a sweep takes nothing from what
is retained, whichever optimistic layers are confirmed or rolled back afterwards.

### BoardGestures

The board is a line of places on which a card and two fields stand, the viewport an offset
(zooming and panning move the same number). Two fingers press, move and lift in any order;
`SetModel` takes fields away or opens the branch of one at any moment; `Blur`, `Destroy` and
pointercancel end gestures. `BoardHolds` has `GesturesEnd`, `HeldIsThere`, `DropsOutside`
and `ViewportTold` of it.

### BoardLayout, BoardScene

`BoardLayout` is the pure part, in the code's pixels: the window of a card's rows
(`RowWindow`), sizes, regions that can be hit (`CardGeometry`), connections, the index with
its cells (`IndexSet`, `IndexQuery`), `HitTest`, and the arrangement in columns
(`LayoutCards`). `BoardScene` is `SceneGeometry` (`geo`: all of it is rebuilt by a model that
differs or another level of detail, part of it by `Scroll`, `Reveal`, `DragCard`, `EndDrag`),
the frames (`frame`, `Frame`), and what is drawn (`views`, `groups`, `lines`), which a frame
changes only where inputs changed. `InitApp`, `FontsReady` and `Destroy` are the start, which
awaits twice, and the end, which may come between. `SceneHolds`, of `BoardHolds`, is:
`NothingStale` (what was left as drawn equals what would be drawn anew), `GeometryHolds`
(what was changed in part equals a calculation from nothing), `EdgesMeet`, `CardsApart`,
`HitsAgree` (the index hides nothing from the pointer), `RowsReachable`, `PreviewsEnd` and
`Disposed`; `SelectedShows` is part of `StepsHold`.

### WorkspaceClient

`form`, `version`, `reads`, `key` are the controller's state and refs, `queue` the commands of
the page, `stray` requests whose page has given them up, `analyses` and `attempts` the
server's rows. Selections are read asynchronously and may end in another order; answers are
lost, pages reloaded. `SubmissionsHold` has `FormIsTrue` and `RetriesAreSafe` of it,
`StartAgain` is finding 3.

### MockBackends

`editor` and `host` are what the two backends hold, `stored` (`storage` in the run) the local
storage, `pending` the request that waits. `Reload` restores both. `SubmissionsHold` has
`RevisionsFollow`, `ReloadsSilent` and `RetriesAgree` of it, and `MockHistory`, part of
`StepsHold`, says that the mock implements `SchemaHistory`, as the server does.

## 3. What the runs check

States are distinct states; every run ends in less than four minutes on two workers.

| run | properties | shows | states |
|---|---|---|---|
| `SchemaWorkspace_edit` | `TypeOK` `RevisionChain` `AckedEditsSurvive` `HistorySpec` | two handlers edit and delete two schemas, with retries, stale bases, stale ETags, crashes: one document per schema, one changeset at a time, told truthfully ever after | 568,000 |
| `SchemaWorkspace_draft` | `RetryRowsAnswer` `NoUniqueViolation` `CheckedRowsHold` `OutboxMatches` `RequestsEnd` | drafts, retries and deletions of a schema and its analysis: keys answer for what exists, no stale write, no mutual waiting | 57,000 |
| `AnalysisJobs_jobs` | `JobsHold` (= `TypeOK`, `AttemptsBounded`, `OneJobPerAnalysis`, `RunOwnsRow`) `StoredTogether` `LifecycleSpec` `AnalysesFinish` | interrupted at will, an analysis is run at most MAX_ATTEMPTS times and by one run at a time, and every accepted one ends, or its job was lost to a failed connection since the last start | 105,000 |
| `ChangeOutbox_drain` | `EveryChangeHeard` (with `TypeOK`) `ChangesDispatched` `KicksSuffice` `OwnersForgotten` | rows that commit out of order, full batches, failing tools, stops and crashes lose no change | 151,000 |
| `ChangeOutbox_refill` | `AccessSeesTruth` (violated) | finding 1 | |
| `EditorSave_two` | `BaseIsRevision` `EveryEditOnce` `RefusalsAreForeign` | two editors on one schema over a bad network, until it is deleted | 1,782,000 |
| `EditorSave_solo` | `HistoryHolds` (= `TypeOK`, `UndoRestores`) `EveryEditOnce` `RefusalsAreForeign` `SavesResolve` | one editor beyond the history's limit, that opens the schema again while its save is on its way; a save that is tried again is settled as long as the schema is there | 146,000 |
| `EditorSave_correct` | `CorrectionsAccepted` (violated) | finding 2 | |
| `EntityCache_session` | `OwnWritesStay` `StoreServesReads` `SessionsApart` (= `TypeOK`, `EpochIsolation`) `CommandsEnd` | reads that overlap commands and a change of session never hide what a command was answered, miss a record, keep one for nothing or show another session's | 202,000 |
| `Server_parts` | `RevocationsHold` `FilesHold` `FilesRemoved` `SecretsAgree` `InferenceHolds` `DraftsHold` | each part of `MCServer` on its own: revoked tokens stay out of the cache as long as their keys live, also where events overlap, files are removed once and by somebody, interrupted set-ups agree with what they published, names merge in no order's favour, drafts are trees that both programs change alike | 503,000 |
| `Browser_parts` | `PagesHold` `PagesShared` `BoardHolds` `SubmissionsHold` `StepsHold` `StoreHolds` | each part of `MCBrowser` on its own: what is loaded and edited tells what the server has, cards show what is loaded and lead where they say, readers share pages undisturbed, views of entities are true and their subscribers told, gestures end on what is there, what is drawn and hit is what the model says, a form may be submitted again, the mocks keep the server's promises | 396,000 |
| `WorkspaceClient_again` | `StartAgain` (violated) | finding 3 | |

### Bounds, and why they are enough

* **SchemaWorkspace**: two handlers are the least with a race and three would add
  only waiters on the same locks (a lock has one holder; this is what the proofs
  show for any number). `edit` has two schemas, two mutations, two batches and
  revisions up to 3: two edits of one schema, a retry of each with another body,
  a base that is stale. `draft` has two subjects, of whom one is an administrator,
  one key, two alternatives of which one is never found. `SchemaLeft` keeps one
  unused identifier per open draft; `MaxRevision` bounds the bases of changesets.
  In `draft` identifiers run out and everything can have been deleted, and the
  mutations of `edit` are used up at last, so deadlock is not checked there; that
  no request hangs is the property `RequestsEnd`.
* **AnalysisJobs**: MAX_ATTEMPTS is 2 (3 in the code): one attempt that is
  repeated and one that is the last; two analyses stand behind each other in the queue; as many keys. Deadlock is checked.
* **ChangeOutbox**: two outbox rows (`MaxId`) can commit in either order, and with
  `Batch = 2` be claimed as a full batch, which is followed by another one, or one
  by one. One fault (`MaxFaults`) of any kind at any step: stop, crash, failed
  transaction, failed purge. Deadlock is checked.
* **EditorSave**: two fields and three names are what a swap needs. `two` has two
  editors with two edits and two saves each: save, retry with later edits, save
  over the other's revision. `solo` has a history limit of 2 (100 in the code)
  and three edits, so that one edit falls out of the history; then a second session, of any
  revision, with one edit (`MaxLaterEdits`), while requests of the first may still arrive. The schema
  may be deleted at any time, in both. Edits, saves and sessions are bounded and the user may
  stop at any time, so deadlock is not checked.
* **EntityCache**: a list and a single read share a record, which the list contains
  without declaring it; of two commands one is optimistic; one `clearAll`
  (`MaxEpochs`). A third command would only queue behind the second. Deadlock is
  checked.
* **Server_parts**: IdentityCache has one token and one request at a time. In one part
  two events overlap, of one subject or the first of everybody, with three versions of what the
  provider says; in the other an event meets a logout and one fault. The clock ticks twice and
  markers and buried tokens live for two ticks, entries for one: a marker is read before, in
  and after the millisecond of an introspection, set over a later one, and outlived by a request. UploadSessions has one session of two
  files (one saved, one failed), two sockets that may share it, one fault. Provisioning has
  one interrupt and one reset, which come in either order; SecretFiles three examples
  with a value, its hash and a value they share, and two interrupts. The inference gets the
  pairs and triples of documents listed in `MCServer`: names alike in a chain, a typo of an
  opposite, nesting, repetition, attributes, and collections beyond each limit; three orders.
  Drafts get one document of each shape and two operations.
* **Browser_parts**: EditorPages has a collection of three rows with one inside, pages and
  windows of two rows (so windows slide and have gaps), two edits, two reads, one save and
  two openings; EditorCards a root that wraps two collections (one row and three, of which
  the window shows two), a branch that is a chain of two nodes, another with a branch
  inside it, one move, three reads besides those of the openings, two openings; SchemaPages two readers, two pages that share a record, of which one is
  kept, three requests and one clear; EntityStore three entities that a read brings in a chain,
  a layer that closes a circle around the middle one, a layer that renames the innermost and removes
  the middle one, one retained read and one subscriber of the first, three versions, one
  transaction, and only the innermost removed from outside a layer; BoardGestures two fingers, three places, one new
  model; WorkspaceClient three selections, of which one is accepted, one
  refused and one cannot be read, one title, two edits of
  the form and two submissions, one fault; MockBackends one listed and one drafted
  schema, two analyses, two changesets (one refused half-way), four requests, two revisions.
  BoardScene has three models (a card of five rows of which three show, with warnings, an
  expanded row and a pill, a card inside it and one not loaded; the same with a selected
  row and a card that has a place; one card alone), cameras at each level of detail, two
  scroll lengths, one place to drag to, and three events beside the frames and the start.
  Cells of the index are those of the code.
* The parts' inputs are bounded and end, so deadlock is not checked in these two runs; that
  nothing hangs is said by `FilesRemoved` and `LoadingIsRead`.

### Symmetry

`SchemaWorkspace_edit` permutes handlers and schemas, `EditorSave_two` editors; neither of these
runs checks a liveness property, and no definition tells their members apart.

### Fairness, and why the code justifies it

* `SchemaWorkspace!FairSpec`: strong fairness of every handler's next statement: a
  handler is a thread, and PostgreSQL serves the waiters of a lock in turn, so a
  lock that becomes free again and again is taken in the end. Nothing is assumed of
  new requests or of `Abort`.
* `AnalysisJobs!FairSpec`: weak fairness of restarts (Kubernetes), of handlers and of
  a run past its claim; strong fairness of `TakeJob`, `Claim` and `GiveUp`: of a job
  the executor gets to again and again, some attempt gets its claim committed. No
  fairness of the inference's success, of `Stop` or of `Crash`.
* `ChangeOutbox!FairSpec`: the job's thread runs, writers commit and kick, checks
  end, the server is started again, and cache entries expire (OWNER_TTL). The timeout
  of the wait is not assumed fair: `ChangesDispatched` has it as its hypothesis and
  `KicksSuffice` does without.
* `EditorSave!FairSpec`: of requests sent again and again some arrive and of their
  answers some come back. That the user tries again (`WF(Save)`) is the hypothesis of
  `SavesResolve`, since nothing in the code retries a save by itself. After the schema is
  deleted no answer settles a save, so the property promises nothing then.
* `EntityCache!FairSpec`: requests end and continuations run. A read is asked again by
  a timer or the user, so not every time just before its answer is taken: `Repeat` or
  `Normalize` of one read is strongly fair. Nothing is assumed of the user.
* `UploadSessions!Fairness`: threads and tasks run, the delay of the clean-up is over at
  last, sockets are served, and a shutdown that began goes on. Nothing of uploads,
  sockets being opened, or a restart.

### Every property can fail

For each property of a passing run `PROJECT.json` names a mutant: the definition
it replaces and the faulty form (an unlocked read, a check that is dropped, an order
that is swapped), which stands beside the original with a comment. Under the
mutant TLC finds that property violated. Where a property joins what holds of several parts,
each part has mutants of its own.

## 4. Findings

1. **A check can put a deleted resource's owner back** (`AccessSeesTruth`,
   `ChangeOutbox_refill`). `AuthorizeRequest` reads the owner, the deletion commits and
   is dispatched, and then the check writes the owner it had read. The docstring of
   `AclCacheInvalidationTool` says that access checks "see the new truth". The entry
   lives for 300 s (`OwnersForgotten`).
2. **A refused rename cannot be corrected in the session** (`CorrectionsAccepted`,
   `EditorSave_correct`). After a rename to a taken name the server refuses the save;
   the correction is appended to the edits, so the next save carries both, and the
   server refuses it at the first of them again. The message says "Correct them before
   saving again" (`errorText.ts:19`), a test "allows correcting a definitively rejected
   payload with a new mutation identity" (`http.schema.repo.test.ts:242`), against a
   transport that accepts what it is sent.
3. **"Start again" shows the failed analysis again** (`StartAgain`,
   `WorkspaceClient_again`). The key of an attempt is drawn when there is none
   (`workspace.controller.ts:112`) and forgotten when the files or the title change, not
   when the analysis was created. After a failure the page offers "Start again"
   (`Workspace.page.tsx:197`) with the form as it was; submitted unchanged, it carries the
   old key and the server replays the failed analysis (`start_analysis.py:31-34`).

What follows is not promised anywhere, but was seen while modelling; the models keep it and
name where (history variables in brackets), so that the properties hold around it:

* IdentityCache: an entry stored between a flush's reading of the index and its deletion
  lives on without a place in the index, until it expires [`orphaned`]. `_mark` reads the clock
  and then sends a SET that replaces any marker (`valkey_identity_cache.py:182`), so of two
  overlapping events the earlier time may be set last, and an answer of the provider that was
  asked for between the two is cached after the later event was applied [`outrun`, `late`];
  the port's docstring says that such an answer "can never be cached afterwards"
  (`identity_cache.py:9-10`). So is an answer that takes longer than its marker lives, or than
  the twelve hours a logged-out token is kept [`late`]. Each such entry is gone after
  AUTH_CACHE_TTL.
* EditorSave: once the schema is deleted every retry of a pending save is answered with a 404,
  which is no rejection (`http.schema.repo.ts:247-253`): the save stays pending, and the editor
  does not say that it never will be settled [`deleted`].
* EditorPages: a read that is on its way while a save is confirmed leaves its window loading
  until the schema is opened again [`overtaken`]: its answer belongs to an earlier revision
  (`useEditorBranchReads.ts:222`), the window is another object since `confirmSave` copied it
  (line 252), and a window that is loading is not read on (line 190). A cursor of the earlier
  revision is sent with the new one (line 206) and refused by the server
  (`read_workspace.py:97-110`), so "load more" and "Retry" fail after a save until the branch is
  read anew.
* EditorCards: the edge from a row to the card of its branch names the card the row was in. A
  row that was opened, closed, moved to another card and opened there gets a second edge,
  and the first one, closed, goes on hiding the branch: the row shows as open and leads
  nowhere until it is moved back (`useEditorBranchReads.ts:42-51`, `projection.ts:276-287`;
  the exception in `OpenRowsLead`). A row that slides out of its window while its branch is
  being read leaves a card whose edge starts at no row that shows.
* BoardGestures: a cancelled pan or pinch may put back a viewport that was never
  announced [`loose`].
* BoardScene: when a card leaves the model while it is dragged, its preview stays (the
  renderer has no such card when the drag is cancelled, `sceneGeometry.ts:303-307`), and
  if it comes back it stands where the drag left it [`vanished`]. A model that differs only
  in the order of its cards is taken for the same (`diff.ts:12-65`). At the detailed level
  the arrangement knows the unscrolled size of a card, so a card scrolled to rows with
  warnings may reach into the one below (`CardsApart` says where it does not). After an
  arrangement another level of detail arranges anew, and the next model puts cards back
  where the first arrangement had them. A selection made before the board stands is not
  revealed, an arrangement made before that is forgotten.
* Provisioning: a run that is interrupted after it made the user and before it published
  loses the developer's password; after the provider was set up anew, an interrupted run
  leaves old secrets of the machine user and the webhook. SecretFiles: a torn file is kept.
* MockBackends: two tabs overwrite each other's storage; a replayed draft of a deleted schema
  is refused.

## 5. What is proved

`tlapm` checks theorems about nine modules, for every value of the constants: any number of
handlers, schemas, analyses, keys, writers, editors, sessions, edits, queries, commands,
sockets, files, tokens, and any bound. What is assumed of the constants stands as named
assumptions in the modules; TLC evaluates them on every run of that module.

| assumption | says | why |
|---|---|---|
| `SchemaWorkspace!WorkspaceAssumption` | MaxRevision is positive, administrators are subjects, an analysis finds alternatives | of the instance |
| `SchemaWorkspace!DocumentAssumption` | the marks of `SchemaHistory` for no document yet and a deleted one are no documents | names |
| `AnalysisJobs!JobsAssumption` | MAX_ATTEMPTS is positive, no analysis is "none" | `run_analysis.py` |
| `ChangeOutbox!OutboxAssumption` | the batch is positive, the bounds are numbers | `BATCH_SIZE` is 100 |
| `EditorSave!EditorAssumption` | the first revision has unique names, the history keeps at least one edit, bounds are numbers | drafts are trees with unique names |
| `IdentityCache!LivesAssumption` | lives of keys are numbers, and an entry's is shorter than that of a buried token | AUTH_CACHE_TTL is 300 s unless it is configured otherwise (`settings.py:35`), DEAD_TTL twelve hours (`valkey_identity_cache.py:15`) |
| `EntityCache!CacheAssumption` | nesting is one level deep, tags, answers and targets are records, finitely many commands | the module's abstraction (section 6); a page makes finitely many calls |
| `SchemaPages!PagesAssumption` | the limit is positive, there is a page to ask for, the bound is a number | the constructor demands it (`cached.schema.repo.ts:46`) |
| `EntityStore!StoreAssumption` | bounds are numbers | of the instance |
| `UploadSessions!NobodyAssumption`, `NoneAssumption` of the others | what stands for "nothing" is none of the things that may be there | `None`, `null`, `undefined` |

| theorem | states | that is |
|---|---|---|
| `SchemaWorkspaceProofs!TypeCorrect` | `TypeOK` | |
| `!ChecksHoldUntilWritten` | `CheckedRowsHold` | between its checks and its writes nobody changes what a transaction has checked |
| `!InsertsSucceed` | `NoUniqueViolation` | a transaction that passed its checks meets no taken primary key |
| `!SnapshotsNeverChange` | `SnapshotsImmutable` | a revision never changes while its schema exists |
| `!RevisionsFormOneChain` | `RevisionChain` | each revision is the one before it with the changeset of the receipt between them |
| `!AcknowledgedEditsSurvive` | `AckedEditsSurvive` | what was acknowledged is never taken back, moved or applied twice |
| `!RetriesAreAnswered` | `RetryRowsAnswer` | a retry key stands for one request and names what exists |
| `!OutboxHasEveryChange` | `OutboxMatches` | every committed change has its row, a deletion the last one |
| `!StoreKeepsOneHistory` | `HistorySpec` | the interleaved transactions implement `SchemaHistory` |
| `AnalysisJobsProofs!RunsNeverRace` | `JobsHold` | attempts are bounded, no two jobs for one analysis, a run owns the row it writes back |
| `!RowsStayTogether` | `StoredTogether` | analysis, result, retry row and announced changes are there together |
| `!JobsFollowLifecycle` | `LifecycleSpec` | the jobs implement `AnalysisLifecycle` |
| `ChangeOutboxProofs!OutboxTyped` | `TypeOK` | also: the job holds no row that has left the outbox |
| `!ChangesAreHeard` | `EveryChangeHeard` | with the types, no change leaves the outbox before both caches were told |
| `!IdsAreDrawnOnce` | `IdsOnce` | identifiers of committed and of open rows differ |
| `EditorSaveProofs!EditsReachOnce` | `EveryEditOnce` | requests that are lost, repeated or late apply no operation twice or out of order |
| `!BaseMatches` | `BaseIsRevision` | what the editor computes as saved is what the server keeps |
| `!RefusalsAreDeserved` | `RefusalsAreForeign` | no session runs into a conflict with itself |
| `!HistoryLeadsBack` | `HistoryHolds` | undo and redo lead through the documents the user saw |
| `EntityCacheProofs!OwnAnswersStay` | `OwnWritesStay` | no read puts back what an answered command has changed |
| `!SweepKeepsEnough` | `StoreServesReads` | sweeping keeps what cached results lead to, and in the end nothing else |
| `!SessionsStayApart` | `SessionsApart` | nothing of an earlier session shows |
| `UploadSessionsProofs!FilesAreKeptAndRemoved` | `FilesHold` | files have a remover, and stay under a socket that is alone |
| `IdentityCacheProofs!RevocationsAreKept` | `RevocationsHold` | what was revoked is not cached again, nor lost from its index, but for the entries marked as orphaned or late |
| `EditorCacheProofs!PagesAreShared` | `PagesShared` | cached pages are whole and of this schema, readers do not disturb each other |
| `!StoreTellsTheTruth` | `StoreHolds` | views are up to date all the way down, and a subscriber is told when what it sees has changed, and only then |

`InductiveInvariant`, `RowsAgree`, `JobsInvariant`, `OutboxInvariant`, `EditorInvariant`,
`CacheInvariant`, `UploadsInvariant`, `IdentityInvariant`, `PagesInvariant` and `StoreInvariant` are the inductive
invariants behind them. Hardly any property is inductive by itself; what each had to be strengthened with says
why the code works.

* **SchemaWorkspace**. That the checks of a transaction still hold when it writes needs that
  nobody else holds its lock (`LocksExclusive`), and that reading the latest graph is well
  defined (`RevisionsKept`: the snapshots of a live schema are exactly s1 up to its revision).
  That inserts succeed needs that a receipt never stays without its retry row
  (`ReceiptsRemembered`) and that a key found unused stays unused under the advisory lock
  (`KeysStayUnused`). One lemma handles all actions that only read, one each those that write.
* That it implements **SchemaHistory** rests on that invariant. Every step of the system does one of four things
  to the rows of schemas (`StepIsOneOfFour`: leaves them, drafts, appends, removes); the
  second invariant `RowsInv` (revisions follow each other, one receipt between two of them,
  every edit placed at its receipt, retry rows answer, the outbox counts) is kept by each of
  the four, and each is a step or a stutter of `SchemaHistory`.
* **AnalysisJobs**. Every job is in one place, the queue, a handler or the worker
  (`JobsApart`), has work to do until it is claimed (`JobsUnfinished`), and none outlives the
  server (`ServerQuiet`); so nobody else touches the row of the run in progress (`RunKept`).
* **ChangeOutbox**. Identifiers are drawn once although rows are committed in any order
  (`IdsOnce`), and at each step the job has told the caches what it says (`JobTold`).
* **EditorSave**. What reached the server of a session is a prefix of what was made
  (`AppliedInOrder`: receipts lie at increasing places and cover it without a gap), requests
  on their way repeat one pending save or are settled for good (`CallsKept`,
  `SettledForGood`), revisions are chained by receipts (`RevisionsChained`), and the history links the documents that were seen (`SeenLinked`).
  "The last operation on a field decides" is a maximum over indexes, so its facts rest on
  a lemma that a set of indexes has a least member (the numbers are well-founded).
* **EntityCache**. Versions are no more than the commands the server has taken, generations no
  more than those answered (`Counted`); a read that no answer has overtaken is not older than
  any answer (`ReadsAreRecent`); what reads retain is there, and after the last read nothing else
  is (`RetainedIsThere`, `NoGarbage`); the chain runs commands one by one (`OneByOne`), so
  there is at most one layer.
* **UploadSessions**. Tasks, threads and sockets come after the upload (`AfterUpload`); a
  thread that has ended has forgotten its session or failed (`ThreadsLeaveNothing`); a session
  that is known has all its files until a thread is about to forget it (`KnownIsWhole`); a
  socket that shares with nobody has neither task nor thread nor other socket against it
  (`UnsharedIsAlone`); a server that stops is at rest (`AtRest`).
* **IdentityCache**. An answer that an event overtakes was asked for before the event's handler
  reads the clock (`AskedBefore`), so from the moment the marker is set it is barred, unless it
  outlasts the marker or another handler sets the marker back, and then it is known to be late
  (`LateAnswersAreBarred`; `InTime`: a marker lives at least as long after the time it tells).
  What a flush has not read is newer than its event or known to be lost (`FlushesFindAll`,
  `InOrder`). After a token is revoked and buried the provider gives no more answers, and those
  on their way are kept out as long as it is buried (`BuriedForGood`); an entry that was there
  before ends before that (`EntriesEndFirst`, from `LivesAssumption`). Nothing is assumed of the
  order of handlers, of how long a request takes or of how long a marker lives. With a marker of
  the same millisecond taken as older (the mutant `MayStoreSame`), `LateAnswersAreBarred` fails.
* **SchemaPages**. What retains records is exactly what is cached (`PagesAreRoots`), so sweeping
  keeps each record of a page and no other (`StoredIsRooted`); a request that is on its way and
  not aborted is the registered one of its page (`Registered`), which is why nobody asks twice and
  why a clear, which aborts what is registered, reaches every request that could still bring a
  page of the schema that was left; who waits waits for such a request (`ReadersWait`).
* **EntityStore**. The versions kept are those of the records that are published and no object is
  newer than the store (`StoreInv`), so an object of an older version can never be taken for a
  new one. A change reaches, with what differs, the least set closed under "is shown by",
  in the records as they were or as they are; that set is exactly where the view, all the
  way down, has changed (`ChangedIsSeen`), from which follow both that the views left in the memo
  stay true and that subscribers are told of nothing else. Nothing depends on what is
  normalized or how layers are laid over records: the proof holds for any change.

The proofs are laid out alike: a lemma says what a group of actions does to the variables, a
second one that this keeps the invariant, with a step for each conjunct; the theorem joins them.

**Model-checked only**: all liveness (`RequestsEnd`, `AnalysesFinish`, `ChangesDispatched`,
`KicksSuffice`, `OwnersForgotten`, `SavesResolve`, `CommandsEnd`,
`FilesRemoved`, `LoadingIsRead`), since TLAPS proves nothing of fairness and ENABLED; what
`SchemaInference`, `SchemaDrafts` and `BoardLayout` with `BoardScene` compute, since they declare
RECURSIVE operators over documents and arrangements, for which tlapm has no SMT backend;
`SweepsAreHarmless`, since what the layers come to is a fold over them (induction over data);
and, although within reach, `SecretsAgree`, `PagesHold`, the gestures' part of
`BoardHolds`, `SubmissionsHold` and the refinement `MockHistory`.

## 6. Not modelled, and why

* Readers of JSON, YAML and XML and lexical resources: parsing of one input by
  third-party code and tables of words, without state. What they give is the input of
  `SchemaInference`.
* The text of an XSD, representations, OpenAPI, metrics, routing: formatting.
* Logins' redirects and cookies: one request each, decided by the provider.
* `ReadWorkspace`'s summaries and lists, manifests of revisions: reads of committed rows.
* Of the board: measuring of text (a label is its width), colours, icons and drawing, the
  timer of the text's resolution, the preview of a dragged row, the status text, resizing,
  keys that only move the selection; the visual tests and their harness.
* Of the editor: decoding of representations, and how React schedules the hooks.
* Of the client: deletion of schemas from the page (`SchemaWorkspace` has the rule that
  decides it), log-out, leaving the page while a creation is on its way.
* Manifests, gateway and pooler beyond the three facts above; generators, API collections,
  architecture scripts: no part of the running system.
* In `EditorSave`: XML names, pages (`EditorPages` has them), and the `pending` status with
  its polling: the server always answers `applied` and never `pending`.
* In `EntityCache`: the values inside records, merging of layers over them, subscriptions and
  memoized views (`EntityStore` has these), and `evict` of a query that is shown. Records
  refer to others one level deep.
* In `EntityStore`: a listener that changes the store, and subscriptions to all entities.
* In `MockBackends`: reads, pages and a storage that is full.

## 7. Plan

Done: `SchemaWorkspace`, `AnalysisJobs`, `ChangeOutbox`, `EditorSave`, `EntityCache`,
`EntityStore`, `EditorPages`, `EditorCards`, `IdentityCache`, `SchemaPages`, `UploadSessions`, the schema operations and
drafts, the inference, the deployment's scripts, the client's page, its mocks, gestures, layout
and renderer of the board.

What is left to model, where it would add something: the preview of a dragged row, the deletion
of schemas from the client's page.

Proved: the safety of `SchemaWorkspace`, `AnalysisJobs`, `ChangeOutbox`, `EditorSave`,
`EntityCache`, `EntityStore`, `UploadSessions`, `IdentityCache` and `SchemaPages`, with both
refinements of the server. Proofs that are left, in order: `Provisioning` and `SecretFiles`:
`SecretsAgree`; `WorkspaceClient`: `RetriesAreSafe`; `EditorPages`: its part of
`PagesHold`. None of these modules declares a RECURSIVE operator.
