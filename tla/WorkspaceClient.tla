--------------------------- MODULE WorkspaceClient ---------------------------
(* The workspace page of the client: choosing documents, naming the analysis,
   submitting it, watching it, trying again after an error and deleting it.

   Files are read asynchronously, so that the answers of two selections may
   come in either order; selectionVersion tells the latest from the others.
   An attempt keeps its idempotency key until the form is changed, so that a
   request whose answer was lost can be sent again.  A request that the client
   has given up may still be on its way to the server (stray).  Commands of one
   page run one after another (queue).

   The server is its own start_analysis and delete_analysis, on the rows those
   read and write; a run of an analysis just ends.  Schemas are not deleted
   here: SchemaWorkspace has the rule of revisions that decides about those. *)
EXTENDS Naturals, Sequences, FiniteSets, Functions, SequencesExt

CONSTANTS
    Batches,     \* what the user may choose in the file dialog
    Readable,    \* the batches of which every file can be read
    Accepted,    \* the readable batches that the server takes
    NameOf,      \* the name of the first file of a batch, without its suffix
    Titles,      \* what the user may type into the title
    MaxEdits,    \* how often the form is changed
    MaxSubmits,  \* keys drawn and analyses made at most
    MaxFaults,   \* how many requests and answers are lost, pages reloaded
    None

VARIABLES
    form,        \* [documents, title, isReading], what the page shows
    version,     \* selectionVersion.current
    reads,       \* the reads of selections that have not ended
    key,         \* attemptKey.current
    shown,       \* the analysisId of the address
    opened,      \* the analyses in the history of the browser
    pending,     \* pendingDeletion
    queue,       \* the commands that have not ended, the first one is running
    stray,       \* requests nobody waits for that may still reach the server
    analyses,    \* the server's rows: id :> [title, documents, edit, status]
    attempts,    \* the server's retry rows: key :> id
    edits,       \* history: the number of the form the user is filling in
    chosen,      \* history: the batch of the latest selection
    keys,        \* keys drawn so far
    ids,         \* ids given so far
    failed,      \* history: the analyses the page has shown as failed
    faults

typing == <<form, version, reads, key>>
address == <<shown, opened>>
page == <<typing, address, pending>>
sending == <<queue, stray>>
server == <<analyses, attempts, ids>>
vars == <<page, sending, server, edits, chosen, keys, failed, faults>>

Empty == [x \in {} |-> None]
Blank == [documents |-> None, title |-> None, isReading |-> FALSE]

Creating == \E i \in DOMAIN queue : queue[i].kind = "create"
Deleting == \E i \in DOMAIN queue : queue[i].kind = "remove"

\* The fields of the form are disabled while a request is running and while
\* an analysis is shown.
Editable == ~Creating /\ shown = None

Init ==
    /\ form = Blank /\ version = 0 /\ reads = {} /\ key = None
    /\ shown = None /\ opened = {} /\ pending = None
    /\ queue = <<>> /\ stray = {}
    /\ analyses = Empty /\ attempts = Empty /\ ids = 0
    /\ edits = 0 /\ chosen = None /\ keys = 0 /\ failed = {} /\ faults = 0

-----------------------------------------------------------------------------
(* The form *)

SelectFiles(b) ==
    /\ Editable /\ edits < MaxEdits
    /\ version' = version + 1
    /\ key' = None
    /\ form' = [form EXCEPT !.documents = None, !.isReading = TRUE]
    /\ reads' = reads \cup {[version |-> version + 1, batch |-> b]}
    /\ edits' = edits + 1 /\ chosen' = b
    /\ UNCHANGED <<address, pending, sending, server, keys, failed, faults>>

AnyRead(r) == TRUE

\* Whether a read that ended is the one of the latest selection.
Latest(r) == r.version = version

\* An unreadable file fails the whole selection and leaves an error.
ReadEnds(r) ==
    /\ reads' = reads \ {r}
    /\ form' = IF ~Latest(r) THEN form
               ELSE IF r.batch \notin Readable
               THEN [form EXCEPT !.isReading = FALSE]
               ELSE [documents |-> r.batch, isReading |-> FALSE,
                     title |-> IF form.title = None THEN NameOf[r.batch]
                               ELSE form.title]
    /\ UNCHANGED <<version, key, address, pending, sending, server, edits,
                   chosen, keys, failed, faults>>

KeyKept == key

KeyAfterTitle == None

ChangeTitle(t) ==
    /\ Editable /\ edits < MaxEdits /\ t # form.title
    /\ key' = KeyAfterTitle
    /\ form' = [form EXCEPT !.title = t]
    /\ edits' = edits + 1
    /\ UNCHANGED <<version, reads, address, pending, sending, server, chosen,
                   keys, failed, faults>>

CanSubmit ==
    /\ form.documents # None
    /\ form.title # None
    /\ ~form.isReading
    /\ ~Creating
    /\ shown = None

NewKey == keys + 1

\* attemptKey.current ??= createId()
AttemptKey == IF key = None THEN keys + 1 ELSE key

StartAnalysis ==
    /\ CanSubmit /\ keys < MaxSubmits /\ ids < MaxSubmits
    /\ key' = AttemptKey
    /\ keys' = IF AttemptKey > keys THEN AttemptKey ELSE keys
    /\ queue' = Append(queue, [kind |-> "create", title |-> form.title,
                               documents |-> form.documents, edit |-> edits,
                               key |-> AttemptKey, answer |-> None, id |-> None])
    /\ UNCHANGED <<form, version, reads, address, pending, stray, server,
                   edits, chosen, failed, faults>>

-----------------------------------------------------------------------------
(* The server *)

\* The row the retry row of a key leads to.
Replayed(c) == c.key \in DOMAIN attempts

SameBody(c, a) == c.title = a.title /\ c.documents = a.documents

\* What start_analysis answers.
Reply(c) ==
    IF c.documents \notin Accepted
    THEN [c EXCEPT !.answer = "invalid_input"]
    ELSE IF ~Replayed(c)
    THEN [c EXCEPT !.answer = "created", !.id = ids + 1]
    ELSE IF SameBody(c, analyses[attempts[c.key]])
    THEN [c EXCEPT !.answer = "created", !.id = attempts[c.key]]
    ELSE [c EXCEPT !.answer = "idempotency_conflict"]

Extended(f, x, y) == [z \in DOMAIN f \cup {x} |-> IF z = x THEN y ELSE f[z]]

\* And what it writes.
Created(c) ==
    IF c.documents \in Accepted /\ ~Replayed(c)
    THEN /\ ids' = ids + 1
         /\ analyses' = Extended(analyses, ids + 1,
                                 [title |-> c.title, documents |-> c.documents,
                                  edit |-> c.edit, status |-> "queued"])
         /\ attempts' = Extended(attempts, c.key, ids + 1)
    ELSE UNCHANGED server

Verdict(c) ==
    IF c.id \notin DOMAIN analyses THEN "not_found"
    ELSE IF analyses[c.id].status = "queued" THEN "not_ready"
    ELSE "done"

\* Deleting an analysis takes its retry rows along.
Removed(c) ==
    IF Verdict(c) = "done"
    THEN /\ analyses' = Restrict(analyses, DOMAIN analyses \ {c.id})
         /\ attempts' = Restrict(attempts,
                                 {k \in DOMAIN attempts : attempts[k] # c.id})
         /\ UNCHANGED ids
    ELSE UNCHANGED server

Serve ==
    /\ queue # <<>> /\ queue[1].answer = None
    /\ \/ /\ queue[1].kind = "create"
          /\ Created(queue[1])
          /\ queue' = [queue EXCEPT ![1] = Reply(queue[1])]
       \/ /\ queue[1].kind = "remove"
          /\ Removed(queue[1])
          /\ queue' = [queue EXCEPT ![1].answer = Verdict(queue[1])]
    /\ UNCHANGED <<page, stray, edits, chosen, keys, failed, faults>>

\* A request arrives that nobody waits for any more.
ServeStray(c) ==
    /\ stray' = stray \ {c}
    /\ Created(c)
    /\ UNCHANGED <<page, queue, edits, chosen, keys, failed, faults>>

RunEnds(a) ==
    /\ analyses[a].status = "queued"
    /\ \E s \in {"completed", "failed"} :
           analyses' = [analyses EXCEPT ![a].status = s]
    /\ UNCHANGED <<page, sending, attempts, ids, edits, chosen, keys, failed,
                   faults>>

-----------------------------------------------------------------------------
(* Answers *)

Unserved == {c \in ToSet(queue) : c.kind = "create" /\ c.answer = None}

\* The request or its answer is lost: the command fails, and a request that
\* was not served yet may arrive or not.
Lose ==
    /\ queue # <<>> /\ faults < MaxFaults
    /\ \E late \in SUBSET (Unserved \cap {queue[1]}) : stray' = stray \cup late
    /\ pending' = IF queue[1].kind = "remove" THEN None ELSE pending
    /\ queue' = Tail(queue)
    /\ faults' = faults + 1
    /\ UNCHANGED <<typing, address, server, edits, chosen, keys, failed>>

\* startAnalysis goes on: the page shows the analysis, or the error.
CreateAnswered ==
    /\ queue # <<>> /\ queue[1].kind = "create" /\ queue[1].answer # None
    /\ shown' = IF queue[1].answer = "created" THEN queue[1].id ELSE shown
    /\ opened' = IF shown' # shown THEN opened \cup {shown'} ELSE opened
    /\ queue' = Tail(queue)
    /\ UNCHANGED <<typing, pending, stray, server, edits, chosen, keys,
                   failed, faults>>

\* confirmDeletion goes on: the page of the deleted analysis is closed.
RemoveAnswered ==
    /\ queue # <<>> /\ queue[1].kind = "remove" /\ queue[1].answer # None
    /\ shown' = IF queue[1].answer = "done" /\ queue[1].id = queue[1].shown
                THEN None ELSE shown
    /\ pending' = None
    /\ queue' = Tail(queue)
    /\ UNCHANGED <<typing, opened, stray, server, edits, chosen, keys,
                   failed, faults>>

RequestDeletion(a) ==
    /\ ~Deleting /\ pending # a
    /\ pending' = a
    /\ UNCHANGED <<typing, address, sending, server, edits, chosen, keys,
                   failed, faults>>

CancelDeletion ==
    /\ pending # None
    /\ pending' = None
    /\ UNCHANGED <<typing, address, sending, server, edits, chosen, keys,
                   failed, faults>>

ConfirmDeletion ==
    /\ pending # None /\ ~Deleting
    /\ queue' = Append(queue, [kind |-> "remove", id |-> pending,
                               shown |-> shown, answer |-> None])
    /\ UNCHANGED <<page, stray, server, edits, chosen, keys, failed, faults>>

-----------------------------------------------------------------------------
(* Watching *)

Closed ==
    /\ form' = Blank /\ version' = 0 /\ reads' = {} /\ key' = None
    /\ pending' = None
    /\ queue' = <<>>
    /\ \E late \in SUBSET Unserved : stray' = stray \cup late
    /\ edits' = edits + 1 /\ chosen' = None

\* A finished analysis opens the editor; the user comes back to a new page.
Opens ==
    /\ shown \in DOMAIN analyses /\ analyses[shown].status = "completed"
    /\ queue = <<>>
    /\ edits < MaxEdits
    /\ Closed
    /\ shown' = None
    /\ UNCHANGED <<opened, server, keys, failed, faults>>

\* The address outlives the page.
Reload ==
    /\ faults < MaxFaults /\ edits < MaxEdits
    /\ Closed
    /\ faults' = faults + 1
    /\ UNCHANGED <<shown, opened, server, keys, failed>>

\* A poll tells that the analysis failed.
ShowFailed ==
    /\ shown \in DOMAIN analyses /\ analyses[shown].status = "failed"
    /\ failed' = failed \cup {shown}
    /\ failed' # failed
    /\ UNCHANGED <<page, sending, server, edits, chosen, keys, faults>>

\* "Start again" and "Back to documents".
DismissAnalysis ==
    /\ shown # None
    /\ shown' = None
    /\ UNCHANGED <<typing, opened, pending, sending, server, edits, chosen,
                   keys, failed, faults>>

\* The browser goes back or forward to another address of the page.
Browse ==
    /\ \E a \in {None} \cup opened : a # shown /\ shown' = a
    /\ UNCHANGED <<typing, opened, pending, sending, server, edits, chosen,
                   keys, failed, faults>>

Next ==
    \/ \E b \in Batches : SelectFiles(b)
    \/ \E r \in reads : ReadEnds(r)
    \/ \E t \in Titles : ChangeTitle(t)
    \/ StartAnalysis
    \/ Serve
    \/ \E c \in stray : ServeStray(c)
    \/ \E a \in DOMAIN analyses : RunEnds(a)
    \/ Lose
    \/ CreateAnswered
    \/ RemoveAnswered
    \/ \E a \in DOMAIN analyses : RequestDeletion(a)
    \/ CancelDeletion
    \/ ConfirmDeletion
    \/ Opens
    \/ Reload
    \/ ShowFailed
    \/ DismissAnalysis
    \/ Browse

Spec == Init /\ [][Next]_vars

-----------------------------------------------------------------------------
(* What the page shows as chosen is what was chosen last, whatever the order
   in which the files of several selections were read; and it says that it is
   reading exactly as long as the files of the latest selection are read. *)
FormIsTrue ==
    /\ form.documents # None => form.documents = chosen /\ ~form.isReading
    /\ form.isReading <=> \E r \in reads : r.version = version

(* Trying again is safe: however often a request or its answer was lost, the
   server keeps one analysis for one state of the form, and never answers that
   a key was used for something else. *)
RetriesAreSafe ==
    /\ \A a, b \in DOMAIN analyses :
           analyses[a].edit = analyses[b].edit => a = b
    /\ \A i \in DOMAIN queue : queue[i].answer # "idempotency_conflict"

(* "Start again", says the button under an analysis that failed: what the page
   opens after a submission has not failed on this page before. *)
StartAgain ==
    [][Creating /\ queue' = Tail(queue) /\ shown' # shown
           => shown' \notin failed]_vars
\* The form shows what was chosen, and submitting it again is safe.
SubmissionsHold == FormIsTrue /\ RetriesAreSafe

=============================================================================
