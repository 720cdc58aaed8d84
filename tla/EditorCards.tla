------------------------------- MODULE EditorCards -------------------------------
(***************************************************************************)
(* From the nodes of a schema to the cards on the board.  A branch is read   *)
(* as a chain of nodes that wrap each other, each with the first page of its *)
(* collection, and becomes a card with the rows of all of them.  The user     *)
(* opens and closes branches, reads on, and moves rows from card to card,     *)
(* while reads are on their way.                                            *)
(*                                                                         *)
(* One revision: EditorPages has the saves.  Only compound members have a    *)
(* value node; what the view merely keeps (selection, places of cards) is    *)
(* left out.                                                                *)
(***************************************************************************)
EXTENDS EditorWindows, TLC

CONSTANTS
    Nodes, RootNode,
    Inner(_),       \* the node that a node wraps, or None
    Own(_),         \* its collection, or None
    Sort(_),        \* what a collection holds: "attribute", "particle", ...
    Value(_),       \* the node of a compound member, or None
    MaxChain,       \* nodes of a chain (128 in the code)
    MaxReads,       \* bound: reads
    MaxOpens        \* bound: times the schema is opened again

VARIABLES
    epoch,      \* the opening of the document
    nodes,      \* nodes that are loaded
    branches,   \* [block, collections], in the order they were opened
    unfolded,   \* unfolded[block, member]: whether the row was opened or closed
    edges,      \* from a row to the card of its branch
    fetches,    \* branches on their way: which nodes were read, and the last one's page
    mores,      \* reads of more rows
    nextRead

cardVars == <<epoch, nodes, branches, unfolded, edges, fetches, mores, nextRead>>
allVars == <<server, base, windows, visited, edits, history, position, cardVars>>

SortOf ==
    [m \in Members |->
        Sort(CHOOSE c \in Collections : m \in {Initial[c][i] : i \in DOMAIN Initial[c]})]
Key(edge) == <<edge.block, edge.member>>
IsAttribute(m) == SortOf[m] = "attribute"
IsOpen(key) == key \in DOMAIN unfolded /\ unfolded[key]
IsClosed(key) == key \in DOMAIN unfolded /\ ~ unfolded[key]

-----------------------------------------------------------------------------
(* The projection: what the board is given                                  *)

\* What is closed hides its card and everything behind it.  Mutant: its card only.
HiddenAlone == {edge.target : edge \in {e \in edges : IsClosed(Key(e))}}
Hidden ==
    LET blocks == {edge.target : edge \in edges}
        Complete(H) == \A edge \in edges :
                          IsClosed(Key(edge)) \/ edge.block \in H => edge.target \in H IN
    {b \in blocks : \A H \in SUBSET blocks : Complete(H) => b \in H}
Edges ==
    LET hidden == Hidden IN
    {edge \in edges : edge.block \notin hidden /\ edge.target \notin hidden}

\* The collection that "load more" is about.
Primary(cs, shown) ==
    LET InState(state) == SelectSeq(cs, LAMBDA c : shown[c].state = state)
        unfinished == SelectSeq(cs, LAMBDA c : shown[c].next # None) IN
    IF cs = <<>> THEN None
    ELSE Head(InState("loading") \o InState("failed") \o unfinished \o <<Last(cs)>>)

Card(branch, shown) ==
    LET cs == SelectSeq(branch.collections, Loaded)
        primary == Primary(cs, shown) IN
    [block |-> branch.block,
     collection |-> primary,
     rows |-> FlattenSeq([i \in DOMAIN cs |->
                  [k \in DOMAIN shown[cs[i]].items |-> shown[cs[i]].items[k].id]]),
     state |-> IF primary = None THEN "notRequested" ELSE shown[primary].state,
     total |-> FoldLeft(LAMBDA n, c : n + shown[c].total, 0, cs),
     more |-> \E i \in DOMAIN cs : shown[cs[i]].next # None]
Cards ==
    LET shown == Shown
        hidden == Hidden IN
    {Card(branches[i], shown) : i \in {k \in DOMAIN branches : branches[k].block \notin hidden}}

-----------------------------------------------------------------------------
(* Reading a branch                                                         *)

\* expandedMembers: rows that an edge starts at stay loaded.  Mutant: they go like others.
KeptNothing == {}
Kept == {edge.member : edge \in {e \in edges : ~ IsClosed(Key(e))}}

\* integrate: pages replace what was loaded, but for rows that are kept.
WithBranch(branch) ==
    IF \E i \in DOMAIN branches : branches[i].block = branch.block
    THEN [i \in DOMAIN branches |-> IF branches[i].block = branch.block THEN branch
                                    ELSE branches[i]]
    ELSE Append(branches, branch)
Integrate(block, chain) ==
    LET own == SelectSeq([i \in DOMAIN chain |-> Own(chain[i])], LAMBDA c : c # None)
        read == {own[i] : i \in DOMAIN own}
        AddedTo(c) == Added(c, PageAt(1, c, None), "replace", Pinned \cup Kept) IN
    /\ nodes' = nodes \cup {chain[i] : i \in DOMAIN chain}
    /\ windows' = [c \in Collections |-> IF c \in read THEN AddedTo(c).window ELSE windows[c]]
    /\ visited' = [c \in Collections |-> IF c \in read THEN AddedTo(c).seen ELSE visited[c]]
    /\ branches' = WithBranch([block |-> block, collections |-> own])

\* LoadBranchQuery: the node that is due, unless the page of the one before it is.
Fetching(key, node) ==
    [key |-> key, root |-> node, chain |-> <<>>, paged |-> TRUE, epoch |-> epoch',
     aborted |-> FALSE]
NextOf(fetch) == IF fetch.chain = <<>> THEN fetch.root ELSE Inner(Last(fetch.chain))
PageDue(fetch) == ~ fetch.paged
NodeDue(fetch) == fetch.paged /\ NextOf(fetch) # None
ChainHolds(fetch) ==
    /\ NextOf(fetch) \notin {fetch.chain[i] : i \in DOMAIN fetch.chain}
    /\ Len(fetch.chain) < MaxChain
Answered(fetch) ==
    IF PageDue(fetch) THEN [fetch EXCEPT !.paged = TRUE]
    ELSE [fetch EXCEPT !.chain = Append(@, NextOf(fetch)), !.paged = Own(NextOf(fetch)) = None]

\* The effect of useEditorSession: reads are aborted, and the root is read.
Open ==
    /\ epoch < MaxOpens
    /\ epoch' = epoch + 1
    /\ Leave
    /\ nodes' = {}
    /\ branches' = <<>>
    /\ unfolded' = <<>>
    /\ edges' = {}
    /\ fetches' = {[fetch EXCEPT !.aborted = TRUE] : fetch \in fetches}
                      \cup {Fetching(<<>>, RootNode)}
    /\ mores' = {[read EXCEPT !.aborted = TRUE] : read \in mores}
    /\ UNCHANGED nextRead

\* expand, with what the board asks for: the opposite of what the row shows.
Aborting(key) ==
    {IF fetch.key = key THEN [fetch EXCEPT !.aborted = TRUE] ELSE fetch : fetch \in fetches}
Expand(card, m) ==
    LET key == <<card.block, m>>
        open == ~ IsOpen(key) IN
    /\ Value(m) # None
    /\ epoch' = epoch
    /\ unfolded' = (key :> open) @@ unfolded
    /\ IF ~ open \/ \E edge \in edges : Key(edge) = key
       THEN fetches' = Aborting(key) /\ UNCHANGED nextRead
       ELSE /\ nextRead <= MaxReads
            /\ nextRead' = nextRead + 1
            /\ fetches' = Aborting(key) \cup {Fetching(key, Value(m))}
    /\ UNCHANGED <<server, base, windows, visited, edits, history, position, nodes, branches,
                   edges, mores>>

\* The last answer is integrated if the row is still open.
Wanted(fetch) == fetch.epoch = epoch /\ (fetch.key = <<>> \/ IsOpen(fetch.key))
Fetch(fetch) ==
    LET next == Answered(fetch)
        ended == ~ PageDue(next) /\ ~ NodeDue(next) IN
    /\ ~ fetch.aborted
    /\ PageDue(fetch) \/ ChainHolds(fetch)
    /\ fetches' = (fetches \ {fetch}) \cup (IF ended THEN {} ELSE {next})
    /\ IF ended /\ Wanted(fetch)
       THEN /\ Integrate(fetch.root, next.chain)
            /\ base' = 1
            /\ edges' = IF fetch.key = <<>> THEN edges
                        ELSE edges \cup {[block |-> fetch.key[1], member |-> fetch.key[2],
                                          target |-> fetch.root]}
       ELSE UNCHANGED <<nodes, windows, visited, branches, base, edges>>
    /\ UNCHANGED <<server, edits, history, position, epoch, unfolded, mores, nextRead>>

\* A request fails, or the chain leads back to itself or is too long.
FetchFails(fetch) ==
    /\ ~ fetch.aborted
    /\ fetches' = fetches \ {fetch}
    /\ unfolded' = IF fetch.epoch = epoch /\ fetch.key # <<>>
                   THEN (fetch.key :> FALSE) @@ unfolded ELSE unfolded
    /\ UNCHANGED <<server, base, windows, visited, edits, history, position, epoch, nodes,
                   branches, edges, mores, nextRead>>

FetchAborted(fetch) ==
    /\ fetch.aborted
    /\ fetches' = fetches \ {fetch}
    /\ UNCHANGED <<server, base, windows, visited, edits, history, position, epoch, nodes,
                   branches, unfolded, edges, mores, nextRead>>

-----------------------------------------------------------------------------
(* Reading on                                                               *)

\* activate: the board asks for more when there is more, or to try again.
Offered(card) ==
    /\ card.collection # None
    /\ card.state # "loading"
    /\ card.more \/ card.state \in {"failed", "notRequested"}
LoadMore(card) ==
    LET c == card.collection IN
    /\ Offered(card)
    /\ windows[c].state # "loading"
    /\ nextRead <= MaxReads
    /\ nextRead' = nextRead + 1
    /\ SetLoadState(c, "loading", nextRead)
    /\ mores' = {IF read.c = c THEN [read EXCEPT !.aborted = TRUE] ELSE read : read \in mores}
           \cup {[id |-> nextRead, c |-> c, cursor |-> windows[c].next, was |-> windows[c].state,
                  epoch |-> epoch, aborted |-> FALSE]}
    /\ UNCHANGED <<server, base, visited, edits, history, position, epoch, nodes, branches,
                   unfolded, edges, fetches>>

More(read) ==
    /\ ~ read.aborted
    /\ mores' = mores \ {read}
    /\ AddPage(read.c, PageAt(1, read.c, read.cursor), "append", Pinned \cup Kept)
    /\ UNCHANGED <<server, base, edits, history, position, epoch, nodes, branches, unfolded,
                   edges, fetches, nextRead>>

MoreFails(read) ==
    /\ ~ read.aborted
    /\ mores' = mores \ {read}
    /\ SetLoadState(read.c, "failed", 0)
    /\ UNCHANGED <<server, base, visited, edits, history, position, epoch, nodes, branches,
                   unfolded, edges, fetches, nextRead>>

\* The window is as before, if it is still the one that was marked.
MoreAborted(read) ==
    /\ read.aborted
    /\ mores' = mores \ {read}
    /\ IF read.epoch = epoch /\ windows[read.c].mark = read.id
       THEN SetLoadState(read.c, read.was, 0) ELSE UNCHANGED windows
    /\ UNCHANGED <<server, base, visited, edits, history, position, epoch, nodes, branches,
                   unfolded, edges, fetches, nextRead>>

-----------------------------------------------------------------------------
(* Moving rows                                                              *)

\* memberDropAt: not into what the row leads to, and not where it is.
Behind(S, known) ==
    LET blocks == {edge.target : edge \in known}
        Complete(D) == S \subseteq D
                          /\ \A edge \in known : edge.block \in D => edge.target \in D IN
    {b \in blocks : \A D \in SUBSET blocks : Complete(D) => b \in D}
MayDrop(card, m, target, before, known) ==
    LET i == CHOOSE k \in DOMAIN card.rows : card.rows[k] = m IN
    /\ target.collection # None
    /\ target.state \in {"complete", "partial"}
    /\ target = card =>
          before \notin {m, IF i < Len(card.rows) THEN card.rows[i + 1] ELSE None}
    /\ before = None => ~ target.more
    /\ target.block # card.block => \A k \in DOMAIN target.rows :
          IsAttribute(m) <=> IsAttribute(target.rows[k])
    /\ target.block \notin
          Behind({edge.target : edge \in {e \in known : Key(e) = <<card.block, m>>}}, known)

\* collectionForMember: a card has the rows of a whole chain; which collection is meant
\* depends on the sort of the row.
CollectionFor(target, m) ==
    LET branch == branches[CHOOSE i \in DOMAIN branches : branches[i].block = target.block]
        fitting == SelectSeq(branch.collections, LAMBDA c : Sort(c) = SortOf[m]) IN
    IF fitting = <<>> THEN target.collection ELSE Head(fitting)

\* checkMoveAncestry: what is behind the member is loaded whole and does not hold the target.
ReachedFrom(node) ==
    LET shown == Shown
        Ahead(n) == ({Inner(n)} \cup IF Own(n) = None THEN {}
                        ELSE {Value(id) : id \in IdsOf(shown[Own(n)].items)}) \ {None}
        Further(R, i) == R \cup UNION {Ahead(n) : n \in R \cap nodes} IN
    FoldLeft(Further, {node}, [i \in 1..Cardinality(Nodes) |-> i])
AncestryAllows(m, to) ==
    \A n \in ReachedFrom(Value(m)) :
        /\ Own(n) # to
        /\ n \in nodes
        /\ Own(n) # None => /\ Shown[Own(n)].state = "complete"
                            /\ Len(Shown[Own(n)].items) = Shown[Own(n)].total

HolderOf(m) == LET shown == Shown IN CHOOSE c \in Collections : m \in IdsOf(shown[c].items)
Move(card, m, target, before, known) ==
    LET c == HolderOf(m)
        to == CollectionFor(target, m) IN
    /\ MayDrop(card, m, target, before, known)
    /\ Sort(to) = SortOf[m]
    /\ \E n \in nodes : Own(n) = to
    /\ to # c /\ Value(m) # None => AncestryAllows(m, to)
    /\ MoveRow(c, Place(Shown[c].items, m), to, before)
    /\ UNCHANGED cardVars

Undo == UndoEdit /\ UNCHANGED cardVars
Redo == RedoEdit /\ UNCHANGED cardVars

-----------------------------------------------------------------------------
Init ==
    /\ WindowsInit
    /\ epoch = 0
    /\ nodes = {}
    /\ branches = <<>>
    /\ unfolded = <<>>
    /\ edges = {}
    /\ fetches = {}
    /\ mores = {}
    /\ nextRead = 1

Next ==
    \/ Open
    \/ \E fetch \in fetches : Fetch(fetch) \/ FetchFails(fetch) \/ FetchAborted(fetch)
    \/ \E read \in mores : More(read) \/ MoreFails(read) \/ MoreAborted(read)
    \/ LET cards == Cards
           known == Edges IN
       \E card \in cards :
          \/ LoadMore(card)
          \/ \E i \in DOMAIN card.rows :
                \/ Expand(card, card.rows[i])
                \/ /\ Len(edits) < MaxEdits /\ position < MaxEdits
                   /\ \E target \in cards :
                      \E before \in {target.rows[k] : k \in DOMAIN target.rows} \cup {None} :
                         Move(card, card.rows[i], target, before, known)
    \/ Undo \/ Redo

Spec == Init /\ [][Next]_allVars

-----------------------------------------------------------------------------
RECURSIVE ChainOf(_)
ChainOf(node) == IF node = None THEN <<>> ELSE <<node>> \o ChainOf(Inner(node))
CollectionsBehind(node) ==
    SelectSeq([i \in DOMAIN ChainOf(node) |-> Own(ChainOf(node)[i])], LAMBDA c : c # None)

\* A card tells all of its branch: rows of the collections of the whole chain, counted as
\* the server will have them, each of them once all are read; nothing of a chain that was
\* read in part (loadBranch.query.ts:28-77, projection.ts:150-285).
CardsTell(cards) ==
    LET truth == Truth IN
    \A card \in cards :
        LET behind == CollectionsBehind(card.block)
            contents == UNION {IdsOf(truth[behind[i]]) : i \in DOMAIN behind} IN
        /\ {card.rows[i] : i \in DOMAIN card.rows} \subseteq contents
        /\ Cardinality({card.rows[i] : i \in DOMAIN card.rows}) = Len(card.rows)
        /\ card.total = Cardinality(contents)

\* No card hangs in the air: from the root, edges of cards that show lead to it
\* (projection.ts:287-315).
CardsAreReached(cards, known) ==
    \A card \in cards : card.block # RootNode => \E edge \in known : edge.target = card.block

\* A row that shows as open leads to a card, or its branch is being read.  Except a row that
\* was moved from another card while its branch was known there: the edge from there stays,
\* and hides the branch while that row is closed (useEditorBranchReads.ts:39-55).
OpenRowsLead(cards, known) ==
    \A card \in cards : \A i \in DOMAIN card.rows :
        LET key == <<card.block, card.rows[i]>> IN
        IsOpen(key) =>
            \/ \E edge \in known : Key(edge) = key
            \/ \E fetch \in fetches : fetch.key = key /\ ~ fetch.aborted
            \/ \E edge \in edges : edge.member = key[2] /\ edge.block # key[1]

\* Pages that slide on, or replace what was loaded, take no row away that an edge starts at
\* (session.ts:23-37).  It may have gone before, while the branch was being read.
Starts(edge) == \E c \in Collections : edge.member \in IdsOf(windows[c].items)
RowsStay ==
    [][windows' # windows /\ epoch' = epoch =>
          \A edge \in Edges : Starts(edge) => Starts(edge)']_allVars

\* "Load more" leads on: while there is more, what the card offers to read on has more, or
\* is being read (projection.ts:158-167).
MoreLeads(cards) ==
    \A card \in cards : card.more =>
        card.state = "loading" \/ windows[card.collection].next # None

\* The cards show what is loaded and lead where they say.
CardsHold ==
    LET cards == Cards
        known == Edges IN
    /\ CardsTell(cards)
    /\ CardsAreReached(cards, known)
    /\ OpenRowsLead(cards, known)
    /\ MoreLeads(cards)
=============================================================================
