------------------------------- MODULE EditorPages -------------------------------
(***************************************************************************)
(* The pages of a schema in the editor.  Collections are read page by page  *)
(* at the revision the document stands on; the user renames and moves the   *)
(* rows that are loaded, saves, reads on, collapses, and opens the schema   *)
(* again, while answers are on their way.  The document keeps the rows it    *)
(* read and shows them with the unsaved edits applied.                      *)
(*                                                                         *)
(* Saving is here what it does to the windows; EditorSave has the rest.     *)
(***************************************************************************)
EXTENDS EditorWindows

CONSTANTS
    Root,           \* the collection that is opened with the schema
    Child(_),       \* the collection inside a member, or None
    MaxReads,       \* bound: reads of rows
    MaxSaves,       \* bound: saves
    MaxOpens        \* bound: times the schema is opened again

VARIABLES
    saving,     \* the number of edits of the save on its way, or -1
    expanded,   \* collections that are shown under their member
    connected,  \* collections that were opened under their member
    reads,      \* reads on their way
    epoch,      \* the opening of the document
    nextRead, saves,
    overtaken   \* history: collections that were being read when a save was confirmed

document == <<base, windows, visited, edits, history, position, saving>>
view == <<expanded, connected>>
vars == <<server, document, view, reads, epoch, nextRead, saves, overtaken>>
other == <<saving, view, reads, epoch, nextRead, saves, overtaken>>

\* expandedMembers.
Retained == {m \in Members : Child(m) \in connected /\ Child(m) \in expanded}

-----------------------------------------------------------------------------
(* Opening                                                                  *)

Init ==
    /\ WindowsInit
    /\ saving = -1
    /\ expanded = {}
    /\ connected = {}
    /\ reads = {}
    /\ epoch = 0
    /\ nextRead = 1
    /\ saves = 0
    /\ overtaken = {}

\* The effect of useEditorSession, from another resource, a retry or the first time: the
\* reads are aborted, the document is left, and another is made of the newest revision.
Open ==
    /\ epoch < MaxOpens
    /\ saving = -1
    /\ epoch' = epoch + 1
    /\ reads' = {[read EXCEPT !.aborted = TRUE] : read \in reads}
    /\ Leave
    /\ expanded' = {}
    /\ connected' = {}
    /\ overtaken' = {}
    /\ UNCHANGED <<saving, nextRead, saves>>

Opened ==
    /\ base = 0
    /\ epoch > 0
    /\ base' = Len(server)
    /\ AddPage(Root, PageAt(Len(server), Root, None), "replace", {})
    /\ UNCHANGED <<server, edits, history, position, saving, view, reads, epoch, nextRead,
                   saves, overtaken>>

-----------------------------------------------------------------------------
(* Reading on                                                               *)

Aborting(kind, c) ==
    {IF read.kind = kind /\ read.c = c THEN [read EXCEPT !.aborted = TRUE] ELSE read :
        read \in reads}
Sent(kind, c, cursor) ==
    [id |-> nextRead, kind |-> kind, c |-> c, epoch |-> epoch, revision |-> base,
     cursor |-> cursor, was |-> windows[c].state, aborted |-> FALSE]

\* expand: a branch that was opened before is only shown.
Expand(m) ==
    LET c == Child(m) IN
    /\ base > 0
    /\ c # None /\ c \notin expanded
    /\ m \in UNION {IdsOf(Shown[d].items) : d \in Collections}
    /\ expanded' = expanded \cup {c}
    /\ IF c \in connected
       THEN reads' = Aborting("branch", c) /\ UNCHANGED nextRead
       ELSE /\ nextRead <= MaxReads
            /\ reads' = Aborting("branch", c) \cup {Sent("branch", c, None)}
            /\ nextRead' = nextRead + 1
    /\ UNCHANGED <<server, document, connected, epoch, saves, overtaken>>

Collapse(c) ==
    /\ c \in expanded
    /\ expanded' = expanded \ {c}
    /\ reads' = Aborting("branch", c)
    /\ UNCHANGED <<server, document, connected, epoch, nextRead, saves, overtaken>>

\* The card offers to read on while there are more rows or a read failed.
Offered(c) == Loaded(c) /\ (windows[c].next # None \/ windows[c].state = "failed")

\* loadMore, which does nothing while the window is loading.
LoadMore(c) ==
    /\ base > 0
    /\ Offered(c)
    /\ windows[c].state # "loading"
    /\ nextRead <= MaxReads
    /\ reads' = Aborting("more", c) \cup {Sent("more", c, windows[c].next)}
    /\ nextRead' = nextRead + 1
    /\ SetLoadState(c, "loading", nextRead)
    /\ UNCHANGED <<server, base, visited, edits, history, position, saving, view, epoch,
                   saves, overtaken>>

\* Mutants: an answer is used whatever happened meanwhile.
CurrentEver(read) == ~ read.aborted /\ read.epoch = epoch
Current(read) == ~ read.aborted /\ read.epoch = epoch /\ read.revision = base

\* The finally clause: the window is as before, if it is still the one that was marked.
Finally(read) ==
    IF read.kind = "more" /\ read.epoch = epoch /\ windows[read.c].mark = read.id
    THEN SetLoadState(read.c, read.was, 0) ELSE UNCHANGED windows

Integrated(read) ==
    LET page == PageAt(read.revision, read.c, read.cursor) IN
    /\ AddPage(read.c, page, IF read.kind = "more" THEN "append" ELSE "replace",
               Pinned \cup Retained)
    /\ connected' = IF read.kind = "more" THEN connected ELSE connected \cup {read.c}

Answer(read) ==
    /\ ~ read.aborted
    /\ CursorFits(read.revision, read.cursor)
    /\ reads' = reads \ {read}
    /\ IF Current(read) /\ (read.kind = "more" \/ read.c \in expanded)
       THEN Integrated(read)
       ELSE Finally(read) /\ UNCHANGED <<visited, connected>>
    /\ UNCHANGED <<server, base, edits, history, position, saving, expanded, epoch,
                   nextRead, saves, overtaken>>

\* Mutant: a read that fails leaves its window as it is.
RefusedSilently(read) == UNCHANGED <<windows, expanded>>
Refused(read) ==
    IF Current(read)
    THEN IF read.kind = "more" THEN SetLoadState(read.c, "failed", 0) /\ UNCHANGED expanded
         ELSE expanded' = expanded \ {read.c} /\ UNCHANGED windows
    ELSE Finally(read) /\ UNCHANGED expanded

\* The request fails, or the server refuses the cursor.
Fail(read) ==
    /\ ~ read.aborted
    /\ reads' = reads \ {read}
    /\ Refused(read)
    /\ UNCHANGED <<server, base, visited, edits, history, position, saving, connected, epoch,
                   nextRead, saves, overtaken>>

Aborted(read) ==
    /\ read.aborted
    /\ reads' = reads \ {read}
    /\ Finally(read)
    /\ UNCHANGED <<server, base, visited, edits, history, position, saving, view, epoch,
                   nextRead, saves, overtaken>>

-----------------------------------------------------------------------------
(* Editing                                                                  *)

Rename(c, i) ==
    LET row == Shown[c].items[i] IN
    /\ base > 0
    /\ Len(edits) < MaxEdits /\ position < MaxEdits
    /\ Edit(Renames(row.id, saves * MaxEdits + Len(edits) + 1), Renames(row.id, row.name))
    /\ UNCHANGED other

\* checkMoveAncestry, with collections two deep: the branch of the member is loaded whole
\* and does not hold the target.
AncestryAllows(m, from, to) ==
    from # to /\ Child(m) # None =>
        /\ Child(m) # to
        /\ Child(m) \in connected
        /\ Shown[Child(m)].state = "complete"
        /\ Len(Shown[Child(m)].items) = Shown[Child(m)].total

\* memberDropAt: where the pointer may let go of a row.
MayDrop(m, c, i, to, before) ==
    /\ Shown[to].state \in {"complete", "partial"}
    /\ Child(m) # to
    /\ to = c => before \notin {m, NextId(c, i)}
    /\ before = None => Shown[to].next = None

Move(c, i, to, before) ==
    LET m == Shown[c].items[i].id IN
    /\ base > 0
    /\ Len(edits) < MaxEdits /\ position < MaxEdits
    /\ MayDrop(m, c, i, to, before)
    /\ AncestryAllows(m, c, to)
    /\ MoveRow(c, i, to, before)
    /\ UNCHANGED other

Undo == UndoEdit /\ UNCHANGED other
Redo == RedoEdit /\ UNCHANGED other

-----------------------------------------------------------------------------
(* Saving                                                                   *)

BeginSave ==
    /\ base > 0
    /\ saving = -1
    /\ edits # <<>>
    /\ saves < MaxSaves
    /\ saves' = saves + 1
    /\ saving' = Len(edits)
    /\ UNCHANGED <<server, base, windows, visited, edits, history, position, view, reads,
                   epoch, nextRead, overtaken>>

\* confirmSave: the saved edits become part of the rows, and the document stands on the new
\* revision.  Mutant: the rows stay as they were read.
Kept(confirmed) == windows
Confirmed(confirmed) == Project(windows, confirmed)
ConfirmSave ==
    LET confirmed == SubSeq(edits, 1, saving) IN
    /\ saving >= 0
    /\ server' = Append(server, FoldLeft(Served, server[base], confirmed))
    /\ base' = Len(server) + 1
    /\ windows' = Confirmed(confirmed)
    /\ edits' = SubSeq(edits, saving + 1, Len(edits))
    /\ saving' = -1
    /\ overtaken' = overtaken \cup {c \in Collections : windows[c].state = "loading"}
    /\ UNCHANGED <<visited, history, position, view, reads, epoch, nextRead, saves>>

\* A save that the server refuses.
FailSave ==
    /\ saving >= 0
    /\ saving' = -1
    /\ UNCHANGED <<server, base, windows, visited, edits, history, position, view, reads, epoch,
                   nextRead, saves, overtaken>>

Next ==
    \/ Open \/ Opened
    \/ \E m \in Members : Expand(m)
    \/ \E c \in Collections : Collapse(c) \/ LoadMore(c)
    \/ \E read \in reads : Answer(read) \/ Fail(read) \/ Aborted(read)
    \/ \E c \in Collections : \E i \in DOMAIN Shown[c].items :
          \/ Rename(c, i)
          \/ \E to \in Collections : \E before \in Members \cup {None} : Move(c, i, to, before)
    \/ Undo \/ Redo
    \/ BeginSave \/ ConfirmSave \/ FailSave

Spec == Init /\ [][Next]_vars

-----------------------------------------------------------------------------
TypeOK ==
    /\ base \in 0..Len(server)
    /\ position \in 0..Len(history)
    /\ saving \in -1..Len(edits)
    /\ expanded \subseteq Collections /\ connected \subseteq Collections
    /\ \A c \in Collections : windows[c].state \in
          {"absent", "loading", "partial", "complete", "failed"}
    /\ \A read \in reads : read.c \in Collections /\ read.epoch \in 1..epoch

InOrder(rows, all) ==
    \A i, j \in DOMAIN rows : i < j =>
        rows[i].id \in IdsOf(all) /\ rows[j].id \in IdsOf(all)
            /\ Place(all, rows[i].id) < Place(all, rows[j].id)

\* What the user sees is true: the rows that are loaded, with the unsaved edits, are rows
\* of what the server will keep once the edits are saved, under the same names, in the same
\* collection and, where the window has no gaps, in the same order; and the totals are its
\* totals (editorDocument.ts:105-174, projection.ts:5-107).
RowsAreTrue ==
    base > 0 => \A c \in Collections : Loaded(c) =>
        /\ \A i \in DOMAIN Shown[c].items :
              \E k \in DOMAIN Truth[c] : Truth[c][k] = Shown[c].items[i]
        /\ ~ windows[c].gaps => InOrder(Shown[c].items, Truth[c])
        /\ Shown[c].total = Len(Truth[c])

\* Until edits are saved, a window without gaps is a contiguous part of the collection that
\* starts at its first index (editorDocument.ts:142-169).
WindowsAreParts ==
    base = 1 => \A c \in Collections : Loaded(c) /\ ~ windows[c].gaps =>
        LET w == windows[c] IN
        w.items = SubSeq(server[base][c], w.first + 1, w.first + Len(w.items))

\* A window that says it is loading has a read on its way, whose end will change it
\* (useEditorBranchReads.ts:186-263).  Except one that was being read when a save was
\* confirmed: the answer is of the revision before, the window is another object by then,
\* and nothing ever ends its loading.
LoadingIsRead ==
    \A c \in Collections : windows[c].state = "loading" /\ c \notin overtaken =>
        \E read \in reads : read.id = windows[c].mark /\ read.epoch = epoch

\* Every edit has an inverse that gives back what there was (move.ts:7), on the whole
\* collections, of which the editor knows only pages.
Inverts(e) == FoldLeft(Served, Truth, <<e.forward, e.inverse>>) = Truth
IsEdit == history' # history /\ history' # <<>>
EditsInvert == [][IsEdit => Inverts(history'[position'])]_vars
\* The loaded pages tell what the server has, and are loading while they are read.
PagesHold == RowsAreTrue /\ WindowsAreParts /\ LoadingIsRead

=============================================================================
