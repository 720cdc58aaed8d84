------------------------------ MODULE EditorSave ------------------------------
(***************************************************************************)
(* How edits made in the browser become revisions of a schema: the         *)
(* EditorDocument with its unsaved edits, its history and the save that    *)
(* awaits an answer; SaveSchemaCommand and the hooks around it; and the    *)
(* server, which takes a changeset in one step (SchemaWorkspace shows that *)
(* it may be seen so).  Requests and answers get lost, and a request whose *)
(* caller has given up may still arrive later.                             *)
(***************************************************************************)
EXTENDS Naturals, Sequences, FiniteSets, SequencesExt

CONSTANTS
    Editors,         \* mounted editors, all on one schema
    Fields, Names,   \* the members of one collection, what they can be called
    FirstRevision,   \* the names in revision s1
    HistoryLimit,    \* how many edits can be undone: 100
    MaxEdits,        \* bound: operations made in a session
    MaxLaterEdits,   \* bound: those made after the schema was opened again
    MaxSaves,        \* bound: saves begun in a session
    MaxSessions,     \* bound: times an editor opens the schema
    None

Documents == [Fields -> Names]
\* renameProperty: the one kind of operation whose legality is modelled.
Operations == [field : Fields, name : Names]

\* projectCollections: the last operation on a field decides.
Project(doc, ops) ==
    [f \in Fields |->
        LET last == SelectLastInSeq(ops, LAMBDA op : op.field = f) IN
        IF last = 0 THEN doc[f] ELSE ops[last].name]

UniqueNames(doc) == \A f, g \in Fields : doc[f] = doc[g] => f = g

\* apply_schema_changes looks for a name that is taken after each operation.
Accepts(doc, ops) ==
    \A i \in 1..Len(ops) : UniqueNames(Project(doc, SubSeq(ops, 1, i)))

ASSUME EditorAssumption ==
    /\ FirstRevision \in Documents /\ UniqueNames(FirstRevision)
    /\ HistoryLimit \in Nat \ {0}
    /\ MaxEdits \in Nat /\ MaxLaterEdits \in Nat
    /\ MaxSaves \in Nat /\ MaxSessions \in Nat \ {0}

VARIABLES
    revisions,  \* revisions[n]: the graph of revision n on the server
    receipts,   \* changesets applied, each with what its digest stands for
    deleted,    \* the schema was deleted: the two above are history then
    document,   \* document[e]: the EditorDocument of e's session
    blocked,    \* blocked[e]: saveBlocked, set by a conflict
    call,       \* call[e]: the request e waits for (busy), with its answer
    orphans,    \* requests whose caller waits no longer
    made,       \* history: the operations made in e's session
    seen        \* history: what e's user saw, beside the history of edits

server == <<revisions, receipts, deleted>>
vars == <<server, document, blocked, call, orphans, made, seen>>

Identities == [editor : Editors, session : 1..MaxSessions, number : 1..MaxSaves]
Requests == [id : Identities, base : Nat \ {0}, operations : Seq(Operations)]
Receipts == [id : Identities, base : Nat \ {0}, operations : Seq(Operations),
             revision : Nat \ {0}]
\* The answers of the endpoint: 200 with a receipt, 412, 409, 422 and 404.
Replies ==
    [status : {"applied"}, revision : Nat \ {0}]
    \cup [status : {"conflict", "reused", "invalid", "unavailable"}, revision : {0}]

-----------------------------------------------------------------------------
(* EditorDocument *)

\* A save or a call that is not there is none.
ASSUME NoneAssumption ==
    /\ None \notin [id : Identities, count : Nat]
    /\ None \notin Replies
    /\ None \notin [request : Requests, reply : Replies \cup {None}]

\* Mutant: identities do not tell one session of an editor from the next.
OpenedUnderOldIds(session, n) ==
    [session |-> 1, base |-> n, names |-> revisions[n], edits |-> <<>>,
     history |-> <<>>, position |-> 0, pending |-> None, saves |-> 0]
Opened(session, n) ==
    [session |-> session, base |-> n, names |-> revisions[n], edits |-> <<>>,
     history |-> <<>>, position |-> 0, pending |-> None, saves |-> 0]

Local(d) == Project(d.names, d.edits)

\* history.slice(-100).
\* Mutant: the history grows without limit.
LatestUnlimited(seq, limit) == seq
Latest(seq, limit) ==
    IF Len(seq) <= limit THEN seq
    ELSE SubSeq(seq, Len(seq) - limit + 1, Len(seq))

\* append: what could be redone is forgotten.
\* Mutant: it is kept before the new edit.
RecordKeepingRedo(d, edit) ==
    LET history == Latest(Append(d.history, edit), HistoryLimit) IN
    [d EXCEPT !.edits = Append(@, edit.forward),
              !.history = history,
              !.position = Len(history)]
Record(d, edit) ==
    LET history == Latest(Append(SubSeq(d.history, 1, d.position), edit),
                          HistoryLimit) IN
    [d EXCEPT !.edits = Append(@, edit.forward),
              !.history = history,
              !.position = Len(history)]

\* beginSave: a save that was not settled is sent again as it was.
\* Mutant: under its identity, but with every edit made by now.
BegunWithAllEdits(d, id) ==
    LET pending == IF d.pending = None
                   THEN [id |-> id, count |-> Len(d.edits)] ELSE d.pending IN
    [pending |-> pending, operations |-> d.edits]
Begun(d, id) ==
    LET pending == IF d.pending = None
                   THEN [id |-> id, count |-> Len(d.edits)] ELSE d.pending IN
    [pending |-> pending, operations |-> SubSeq(d.edits, 1, pending.count)]

\* confirmSave: what was sent becomes the base of what was not.
\* Mutant: so does what was edited while the answer was on its way.
ConfirmedUnsent(d, revision) ==
    [d EXCEPT !.names = Local(d),
              !.edits = SubSeq(@, d.pending.count + 1, Len(@)),
              !.pending = None,
              !.base = revision]
\* Mutant: what was edited meanwhile is dropped.
ConfirmedDropping(d, revision) ==
    [d EXCEPT !.names = Project(@, SubSeq(d.edits, 1, d.pending.count)),
              !.edits = <<>>,
              !.pending = None,
              !.base = revision]
Confirmed(d, revision) ==
    [d EXCEPT !.names = Project(@, SubSeq(d.edits, 1, d.pending.count)),
              !.edits = SubSeq(@, d.pending.count + 1, Len(@)),
              !.pending = None,
              !.base = revision]

\* failSave: a definite rejection frees the identity.
\* Mutant: only a conflict does.
ReleasedOnConflict(d, status) ==
    IF status = "conflict" THEN [d EXCEPT !.pending = None] ELSE d
Released(d, status) == [d EXCEPT !.pending = None]

-----------------------------------------------------------------------------
(* The user *)

Edit(e, d, ops) ==
    /\ document' = [document EXCEPT ![e] = d]
    /\ made' = [made EXCEPT ![e] = @ \o ops]

MayEdit(e) ==
    /\ Len(made[e]) < MaxEdits
    /\ document[e].session > 1 => Len(made[e]) < MaxLaterEdits

\* createRenameEdit, on the names with all unsaved edits applied.
Rename(e, f, name) ==
    LET d == document[e]
        forward == [field |-> f, name |-> name]
        edit == [forward |-> forward,
                 inverse |-> [field |-> f, name |-> Local(d)[f]]] IN
    /\ MayEdit(e)
    /\ Local(d)[f] # name
    /\ Edit(e, Record(d, edit), <<forward>>)
    /\ seen' = [seen EXCEPT ![e] =
          LET views == Append(SubSeq(@, 1, d.position + 1),
                              [Local(d) EXCEPT ![f] = name]) IN
          IF Len(views) > HistoryLimit + 1 THEN Tail(views) ELSE views]
    /\ UNCHANGED <<server, blocked, call, orphans>>

Undo(e) ==
    LET d == document[e]
        inverse == d.history[d.position].inverse IN
    /\ MayEdit(e)
    /\ d.position > 0
    /\ Edit(e, [d EXCEPT !.edits = Append(@, inverse), !.position = @ - 1],
            <<inverse>>)
    /\ UNCHANGED <<server, blocked, call, orphans, seen>>

Redo(e) ==
    LET d == document[e]
        forward == d.history[d.position + 1].forward IN
    /\ MayEdit(e)
    /\ d.position < Len(d.history)
    /\ Edit(e, [d EXCEPT !.edits = Append(@, forward), !.position = @ + 1],
            <<forward>>)
    /\ UNCHANGED <<server, blocked, call, orphans, seen>>

\* save and SaveSchemaCommand, up to the request.
Save(e) ==
    LET d == document[e]
        id == [editor |-> e, session |-> d.session, number |-> d.saves + 1]
        save == Begun(d, id) IN
    /\ call[e] = None
    /\ ~ blocked[e]
    /\ d.edits # <<>>
    /\ d.pending = None => d.saves < MaxSaves
    /\ document' = [document EXCEPT
          ![e].pending = save.pending,
          ![e].saves = save.pending.id.number]
    /\ call' = [call EXCEPT ![e] =
          [request |-> [id |-> save.pending.id, base |-> d.base,
                        operations |-> save.operations],
           reply |-> None]]
    /\ UNCHANGED <<server, blocked, orphans, made, seen>>

\* The answer settles the save.  Its effects on another session's document,
\* when the resource was opened again meanwhile, are gone with that document.
ReceiveApplied(e) ==
    /\ call[e] # None
    /\ call[e].reply # None
    /\ call[e].reply.status = "applied"
    /\ document' = [document EXCEPT ![e] = Confirmed(@, call[e].reply.revision)]
    /\ call' = [call EXCEPT ![e] = None]
    /\ UNCHANGED <<server, blocked, orphans, made, seen>>

\* SchemaWriteRejectedError: 412 is a conflict, which blocks saving until the
\* schema is opened again; 409 and 422 are final, too.
ReceiveRejected(e) ==
    /\ call[e] # None
    /\ call[e].reply # None
    /\ call[e].reply.status \in {"conflict", "reused", "invalid"}
    /\ document' = [document EXCEPT ![e] = Released(@, call[e].reply.status)]
    /\ blocked' = [blocked EXCEPT ![e] = @ \/ call[e].reply.status = "conflict"]
    /\ call' = [call EXCEPT ![e] = None]
    /\ UNCHANGED <<server, orphans, made, seen>>

\* 404 is no rejection of the changes: the save keeps its identity, to be sent again.
ReceiveUnavailable(e) ==
    /\ call[e] # None
    /\ call[e].reply # None
    /\ call[e].reply.status = "unavailable"
    /\ call' = [call EXCEPT ![e] = None]
    /\ UNCHANGED <<server, document, blocked, orphans, made, seen>>

\* A request that has not arrived when its caller stops waiting.
Abandoned(e) ==
    IF call[e] # None /\ call[e].reply = None THEN {call[e].request} ELSE {}

\* Anything else leaves the save uncertain and its identity in place: a failed
\* connection, before or after the request arrived, or a server error.
Hang(e) ==
    /\ call[e] # None
    /\ orphans' = orphans \cup Abandoned(e)
    /\ call' = [call EXCEPT ![e] = None]
    /\ UNCHANGED <<server, document, blocked, made, seen>>

\* Another resource and back, a retry after an error, or a new mount: a session
\* of any revision that was asked for (the browser may still have it), without the edits of
\* the one before.
Reopen(e) ==
    \E n \in 1..Len(revisions) :
        /\ document[e].session < MaxSessions
        /\ document' = [document EXCEPT ![e] = Opened(@.session + 1, n)]
        /\ blocked' = [blocked EXCEPT ![e] = FALSE]
        /\ orphans' = orphans \cup Abandoned(e)
        /\ call' = [call EXCEPT ![e] = None]
        /\ made' = [made EXCEPT ![e] = <<>>]
        /\ seen' = [seen EXCEPT ![e] = <<revisions[n]>>]
        /\ UNCHANGED server

-----------------------------------------------------------------------------
(* The server: ApplyChangeset as one step *)

Known(id) == {q \in receipts : q.id = id}
SameDigest(q, r) == q.base = r.base /\ q.operations = r.operations

Refusal(status) == [status |-> status, revision |-> 0]

\* authorize first, then the retry key, the base and the operations.
Answer(r) ==
    IF deleted THEN Refusal("unavailable")
    ELSE IF Known(r.id) # {}
    THEN LET q == CHOOSE q \in Known(r.id) : TRUE IN
         IF SameDigest(q, r)
         THEN [status |-> "applied", revision |-> q.revision]
         ELSE Refusal("reused")
    ELSE IF r.base # Len(revisions) THEN Refusal("conflict")
    ELSE IF ~ Accepts(revisions[r.base], r.operations) THEN Refusal("invalid")
    ELSE [status |-> "applied", revision |-> Len(revisions) + 1]

Handle(r) ==
    IF Answer(r).revision = Len(revisions) + 1
    THEN /\ revisions' = Append(revisions, Project(revisions[r.base], r.operations))
         /\ receipts' = receipts \cup
               {[id |-> r.id, base |-> r.base, operations |-> r.operations,
                 revision |-> Len(revisions) + 1]}
         /\ UNCHANGED deleted
    ELSE UNCHANGED server

Serve(e) ==
    /\ call[e] # None
    /\ call[e].reply = None
    /\ Handle(call[e].request)
    /\ call' = [call EXCEPT ![e].reply = Answer(call[e].request)]
    /\ UNCHANGED <<document, blocked, orphans, made, seen>>

\* It arrives after all, perhaps more than once, or never.
ServeOrphan(r) ==
    /\ r \in orphans
    /\ Handle(r)
    /\ UNCHANGED <<document, blocked, call, orphans, made, seen>>

\* Its owner, or an administrator, deletes the schema.  Its revisions and receipts go, too;
\* here they are kept for the properties, and no answer is made of them.
DeleteSchema ==
    /\ ~ deleted
    /\ deleted' = TRUE
    /\ UNCHANGED <<revisions, receipts, document, blocked, call, orphans, made, seen>>

Init ==
    /\ revisions = <<FirstRevision>>
    /\ receipts = {}
    /\ deleted = FALSE
    /\ document = [e \in Editors |-> Opened(1, 1)]
    /\ blocked = [e \in Editors |-> FALSE]
    /\ call = [e \in Editors |-> None]
    /\ orphans = {}
    /\ made = [e \in Editors |-> <<>>]
    /\ seen = [e \in Editors |-> <<FirstRevision>>]

User(e) ==
    \/ \E f \in Fields, name \in Names : Rename(e, f, name)
    \/ Undo(e) \/ Redo(e) \/ Save(e) \/ Reopen(e)

Receive(e) == ReceiveApplied(e) \/ ReceiveRejected(e) \/ ReceiveUnavailable(e)

Next ==
    \/ \E e \in Editors :
          User(e) \/ Serve(e) \/ Receive(e) \/ Hang(e)
    \/ \E r \in orphans : ServeOrphan(r)
    \/ DeleteSchema

Spec == Init /\ [][Next]_vars

\* Of the requests sent again and again some arrive, and of the answers some.
Fairness == \A e \in Editors : SF_vars(Serve(e)) /\ SF_vars(Receive(e))
FairSpec == Spec /\ Fairness

-----------------------------------------------------------------------------
(* Properties *)

Sessions ==
    [session : 1..MaxSessions, base : 1..Len(revisions), names : Documents,
     edits : Seq(Operations),
     history : Seq([forward : Operations, inverse : Operations]),
     position : 0..HistoryLimit,
     pending : {None} \cup [id : Identities, count : 1..MaxEdits],
     saves : 0..MaxSaves]

\* Revisions are documents, and every editor has a session of one of them.
TypeOK ==
    /\ revisions \in Seq(Documents)
    /\ receipts \subseteq Receipts
    /\ deleted \in BOOLEAN
    /\ document \in [Editors -> Sessions]
    /\ \A e \in Editors : document[e].position <= Len(document[e].history)
    /\ blocked \in [Editors -> BOOLEAN]
    /\ call \in [Editors ->
          {None} \cup [request : Requests, reply : Replies \cup {None}]]
    /\ orphans \subseteq Requests
    /\ made \in [Editors -> Seq(Operations)]
    /\ seen \in [Editors -> Seq(Documents)]

\* What an editor takes for the saved schema is what the server keeps under that
\* revision, although it computes it itself from the answer to a save and edits
\* went on meanwhile.
BaseIsRevision ==
    \A e \in Editors : document[e].names = revisions[document[e].base]

\* The receipts are, one behind the other in the order of their revisions, the
\* first n of the operations: receipt q has those behind the first at[q].
InOrder(own, at, ops, n) ==
    /\ \A q \in own :
          /\ at[q] + Len(q.operations) <= n
          /\ q.operations = SubSeq(ops, at[q] + 1, at[q] + Len(q.operations))
    /\ \A p, q \in own :
          p.revision < q.revision => at[p] + Len(p.operations) <= at[q]
    /\ \A i \in 1..n :
          \E q \in own : at[q] < i /\ i <= at[q] + Len(q.operations)

OwnReceipts(e) ==
    {q \in receipts : q.id.editor = e /\ q.id.session = document[e].session}

\* Every operation of a session reaches the schema at most once and in the order
\* it was made: what was applied for the session is what left its unsaved edits
\* and, if an answer is outstanding, what that save carries.  So a save that was
\* refused, and freed for another try, is not applied later.
EveryEditOnce ==
    \A e \in Editors :
        LET d == document[e]
            confirmed == Len(made[e]) - Len(d.edits) IN
        /\ d.edits = SubSeq(made[e], confirmed + 1, Len(made[e]))
        /\ \E n \in {confirmed}
                 \cup (IF d.pending = None THEN {} ELSE {confirmed + d.pending.count}),
              at \in [OwnReceipts(e) -> 0..Len(made[e])] :
                 InOrder(OwnReceipts(e), at, made[e], n)

\* A save is refused for what others did only: no retry passes for another
\* request, and no session runs into a conflict with a changeset of its own.
RefusalsAreForeign ==
    \A e \in Editors : call[e] # None /\ call[e].reply # None =>
        LET r == call[e].request IN
        /\ call[e].reply.status # "reused"
        /\ call[e].reply.status = "conflict" =>
              \E q \in receipts :
                  /\ q.revision > r.base
                  /\ \/ q.id.editor # e
                     \/ q.id.session # r.id.session

\* Undo and redo lead back through the very documents the user saw, over saves
\* and answers in between.
UndoRestores ==
    \A e \in Editors :
        LET d == document[e] IN
        /\ Len(seen[e]) = Len(d.history) + 1
        /\ Local(d) = seen[e][d.position + 1]

\* A save that is tried again and again is settled in the end, as long as the schema is
\* there.
SavesResolve ==
    \A e \in Editors :
        WF_vars(Save(e)) =>
            (document[e].pending # None ~> document[e].pending = None \/ deleted)

\* "Allows correcting a definitively rejected payload" (http.schema.repo.test.ts),
\* "Correct them before saving again" (errorText.ts): edits of the latest
\* revision that leave every name unique are not rejected as invalid.
CorrectionsAccepted ==
    \A e \in Editors : call[e] # None /\ call[e].reply # None =>
        LET r == call[e].request IN
        call[e].reply.status = "invalid" =>
            ~ UniqueNames(Project(revisions[r.base], r.operations))

\* The types, and a history that leads back to what was seen.
HistoryHolds == TypeOK /\ UndoRestores

=============================================================================
