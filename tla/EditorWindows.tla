------------------------------ MODULE EditorWindows ------------------------------
(***************************************************************************)
(* The document of the editor as far as rows go: the windows of collections *)
(* that pages were read into, and the unsaved renames and moves, which are   *)
(* kept apart from the rows and applied to them when they are shown.        *)
(***************************************************************************)
EXTENDS Integers, Sequences, FiniteSets, SequencesExt

CONSTANTS
    Initial,        \* Initial[c]: the members of the collection c, in order
    None,
    PageSize,       \* rows of a page (50 in the code)
    RowLimit,       \* rows a window keeps (100 in the code)
    MaxEdits        \* bound: operations in the history of a document

Collections == DOMAIN Initial
Members == UNION {{Initial[c][i] : i \in DOMAIN Initial[c]} : c \in Collections}

VARIABLES
    server,     \* server[r][c]: the rows of c at the revision r
    base,       \* the revision the document stands on
    windows,    \* windows[c]: what is loaded of c
    visited,    \* visited[c]: rows of c that pages brought
    edits, history, position

Absent == [state |-> "absent", items |-> <<>>, total |-> 0, next |-> None, first |-> -1,
           gaps |-> FALSE, mark |-> 0]
Loaded(c) == windows[c].state # "absent"
IdsOf(rows) == {rows[i].id : i \in DOMAIN rows}
Place(rows, id) == CHOOSE i \in DOMAIN rows : rows[i].id = id
Without(rows, id) == SelectSeq(rows, LAMBDA row : row.id # id)
Before(rows, id, row) ==
    IF id \in IdsOf(rows) THEN InsertAt(rows, Place(rows, id), row) ELSE Append(rows, row)
Moves(member, to, before) ==
    [kind |-> "moveMember", member |-> member, to |-> to, before |-> before, name |-> 0]
Renames(member, name) ==
    [kind |-> "renameProperty", member |-> member, to |-> None, before |-> None, name |-> name]

-----------------------------------------------------------------------------
(* What operations do to whole collections (the server) and to windows      *)

Holding(rows, id) == {c \in DOMAIN rows : id \in IdsOf(rows[c])}
Served(rows, op) ==
    LET from == CHOOSE c \in DOMAIN rows : op.member \in IdsOf(rows[c])
        row == rows[from][Place(rows[from], op.member)]
        taken == [rows EXCEPT ![from] = Without(@, op.member)] IN
    IF op.kind = "renameProperty"
    THEN [rows EXCEPT ![from] = [i \in DOMAIN @ |->
             IF @[i].id = op.member THEN [@[i] EXCEPT !.name = op.name] ELSE @[i]]]
    ELSE [taken EXCEPT ![op.to] = Before(@, op.before, row)]

\* applyOperation: a member or a target that is not loaded is left out; what is not changed
\* is copied, so that it is another object than before.
RenamedIn(window, op) ==
    [window EXCEPT !.mark = 0, !.items = [i \in DOMAIN @ |->
        IF @[i].id = op.member THEN [@[i] EXCEPT !.name = op.name] ELSE @[i]]]
MovedIn(all, op) ==
    LET sources == {c \in Collections : op.member \in IdsOf(all[c].items)}
        from == CHOOSE c \in sources : TRUE
        row == all[from].items[Place(all[from].items, op.member)]
        less == IF from = op.to THEN 0 ELSE 1 IN
    IF sources = {} \/ all[op.to].state = "absent" THEN all
    ELSE LET taken == [all EXCEPT ![from].items = Without(@, op.member),
                                  ![from].total = @ - less, ![from].mark = 0] IN
         [taken EXCEPT ![op.to].items = Before(@, op.before, row),
                       ![op.to].total = @ + less, ![op.to].mark = 0]
Shown1(all, op) ==
    IF op.kind = "moveMember" THEN MovedIn(all, op)
    ELSE [c \in Collections |-> IF all[c].state = "absent" THEN all[c]
                                ELSE RenamedIn(all[c], op)]
Project(all, ops) == FoldLeft(Shown1, all, ops)
Shown == Project(windows, edits)
Truth == FoldLeft(Served, server[base], edits)

-----------------------------------------------------------------------------
(* Windows                                                                  *)

\* pinnedMembers.
Pinned ==
    LET ops == {edits[i] : i \in DOMAIN edits}
                   \cup UNION {{history[i].forward, history[i].inverse} : i \in DOMAIN history}
    IN {op.member : op \in ops} \cup ({op.before : op \in ops} \ {None})

\* Map keeps the place of a row that is set again.
Merged(old, page) ==
    [i \in DOMAIN old |-> IF old[i].id \in IdsOf(page) THEN page[Place(page, old[i].id)]
                          ELSE old[i]]
        \o SelectSeq(page, LAMBDA row : row.id \notin IdsOf(old))

\* addPage: the window that results, and the rows that pages have brought.
Added(c, page, mode, pinned) ==
    LET old == windows[c]
        kept == IF mode = "replace" THEN SelectSeq(old.items, LAMBDA row : row.id \in pinned)
                ELSE old.items
        all == Merged(kept, page.items)
        start == IF Len(all) > RowLimit THEN Len(all) - RowLimit ELSE 0
        retained == [i \in {k \in DOMAIN all : k > start \/ all[k].id \in pinned} |-> all[i]]
        items == [i \in 1..Cardinality(DOMAIN retained) |->
                     retained[CHOOSE k \in DOMAIN retained :
                         Cardinality({j \in DOMAIN retained : j <= k}) = i]]
        limit == IF Len(all) < RowLimit THEN Len(all) ELSE RowLimit
        gaps == \/ Len(items) > limit
                \/ /\ IdsOf(items) \ IdsOf(page.items) # {}
                   /\ mode = "replace" \/ old.gaps
        seen == IF mode = "replace" THEN Len(page.items)
                ELSE visited[c] + Len(all) - Len(kept) IN
    [seen |-> seen,
     window |->
        [state |-> IF page.next = None THEN "complete" ELSE "partial",
         items |-> items, total |-> page.total, next |-> page.next, mark |-> 0, gaps |-> gaps,
         first |-> IF gaps THEN -1 ELSE IF seen > Len(items) THEN seen - Len(items) ELSE 0]]
AddPage(c, page, mode, pinned) ==
    LET added == Added(c, page, mode, pinned) IN
    /\ visited' = [visited EXCEPT ![c] = added.seen]
    /\ windows' = [windows EXCEPT ![c] = added.window]

SetLoadState(c, state, mark) ==
    windows' = [windows EXCEPT ![c].state = state, ![c].mark = mark]

\* ReadWorkspace.page: a cursor names the revision it was given for.
CursorFits(revision, cursor) == IF cursor = None THEN TRUE ELSE cursor.revision = revision
PageAt(revision, c, cursor) ==
    LET rows == server[revision][c]
        offset == IF cursor = None THEN 0 ELSE cursor.offset
        end == IF offset + PageSize < Len(rows) THEN offset + PageSize ELSE Len(rows) IN
    [items |-> SubSeq(rows, offset + 1, end), total |-> Len(rows),
     next |-> IF end < Len(rows) THEN [revision |-> revision, offset |-> end] ELSE None]

-----------------------------------------------------------------------------
\* A document of which nothing is loaded.
WindowsInit ==
    /\ server = <<[c \in Collections |->
                     [i \in DOMAIN Initial[c] |-> [id |-> Initial[c][i], name |-> 0]]]>>
    /\ base = 0
    /\ windows = [c \in Collections |-> Absent]
    /\ visited = [c \in Collections |-> 0]
    /\ edits = <<>>
    /\ history = <<>>
    /\ position = 0
\* The document is left; what the server keeps stays.
Leave ==
    /\ base' = 0
    /\ windows' = [c \in Collections |-> Absent]
    /\ visited' = [c \in Collections |-> 0]
    /\ edits' = <<>>
    /\ history' = <<>>
    /\ position' = 0
    /\ UNCHANGED server

-----------------------------------------------------------------------------
(* Editing                                                                  *)

Edit(forward, inverse) ==
    /\ edits' = Append(edits, forward)
    /\ history' = Append(SubSeq(history, 1, position), [forward |-> forward, inverse |-> inverse])
    /\ position' = position + 1
    /\ UNCHANGED <<server, base, windows, visited>>

\* createMoveEdit.  Mutant: what stands behind the window is not asked for.
NextKnownAnyway(c, i) == TRUE
NextKnown(c, i) == i < Len(Shown[c].items) \/ Shown[c].state = "complete"
NextId(c, i) == IF i < Len(Shown[c].items) THEN Shown[c].items[i + 1].id ELSE None
MoveRow(c, i, to, before) ==
    LET row == Shown[c].items[i] IN
    /\ Loaded(to)
    /\ ~ Shown[c].gaps /\ ~ Shown[to].gaps
    /\ before # row.id
    /\ before = None \/ before \in IdsOf(Shown[to].items)
    /\ NextKnown(c, i)
    /\ Edit(Moves(row.id, to, before), Moves(row.id, c, NextId(c, i)))

UndoEdit ==
    /\ base > 0
    /\ position > 0
    /\ Len(edits) < MaxEdits
    /\ position' = position - 1
    /\ edits' = Append(edits, history[position].inverse)
    /\ UNCHANGED <<server, base, windows, visited, history>>

RedoEdit ==
    /\ base > 0
    /\ position < Len(history)
    /\ Len(edits) < MaxEdits
    /\ position' = position + 1
    /\ edits' = Append(edits, history[position + 1].forward)
    /\ UNCHANGED <<server, base, windows, visited, history>>
=============================================================================
