------------------------------ MODULE MCBrowser ------------------------------
(* The parts that run in the browser and share no state with each other, each
   on its own on small sets, for TLC: in a behaviour only one part takes steps.
   Those without an action property stand idle in the behaviours of the others. *)
EXTENDS SchemaPages, EntityStore

CONSTANT None

VARIABLES
    part,
    server, revision, windows, visited, edits, history, position, saving, expanded,
    connected, reads, epoch, nextRead, saves, overtaken,
    nodes, branches, unfolded, edges, fetches, mores,
    viewport, told, loose, wheel, pointers, gesture, pinch, space, preview, fields,
    opened, models, selected, renamed, emitted, disposed,
    form, formVersion, fileReads, key, shown, visitedAnalyses, pendingDeletion, queue,
    stray, analyses, attempts, forms, chosen, keys, ids, failed, faults,
    editor, host, storage, age, waiting, sent, acks,
    stage, app, destroyed, source, arranged, model, camera, hover, geo, frame, news,
    views, groups, lines, dragged, vanished, events

pageVars == <<server, revision, windows, visited, edits, history, position, saving,
              expanded, connected, reads, epoch, nextRead, saves, overtaken,
              nodes, branches, unfolded, edges, fetches, mores>>
cardVars == <<nodes, branches, unfolded, edges, fetches, mores>>
loadVars == <<saving, expanded, connected, reads, saves, overtaken>>
boardVars == <<viewport, told, loose, wheel, pointers, gesture, pinch, space, preview,
               fields, opened, models, selected, renamed, emitted, disposed>>
clientVars == <<form, formVersion, fileReads, key, shown, visitedAnalyses, pendingDeletion,
                queue, stray, analyses, attempts, forms, chosen, keys, ids, failed, faults>>
mockVars == <<editor, host, storage, age, waiting, sent, acks>>
sceneVars == <<stage, app, destroyed, source, arranged, model, camera, hover, geo, frame,
               news, views, groups, lines, dragged, vanished, events>>

-----------------------------------------------------------------------------
\* A collection of three, with another one inside its first member.
Rows == [a |-> <<1, 2, 3>>, b |-> <<4>>]
Inside(m) == IF m = 1 THEN "b" ELSE None

Pages == INSTANCE EditorPages WITH
    Initial <- Rows, Root <- "a", Child <- Inside, PageSize <- 2, RowLimit <- 2,
    MaxEdits <- 2, MaxReads <- 2, MaxSaves <- 1, MaxOpens <- 2, base <- revision

\* A root that wraps two collections; of the second one two members lead to others, and the
\* member of the second of these to another one.
Wrapped(n) ==
    CASE n = "root" -> "type" [] n = "type" -> "group" [] n = "array" -> "item" [] OTHER -> None
OwnOf(n) ==
    CASE n = "type" -> "at" [] n = "group" -> "in" [] n = "item" -> "one"
      [] n = "object" -> "two" [] n = "leaf" -> "three" [] OTHER -> None
SortOf(c) == IF c = "at" THEN "attribute" ELSE "particle"
ValueOf(m) == CASE m = 1 -> "array" [] m = 2 -> "object" [] m = 4 -> "leaf"
                   [] OTHER -> None

Cards == INSTANCE EditorCards WITH
    Initial <- [at |-> <<7>>, in |-> <<1, 2, 5>>, one |-> <<3>>, two |-> <<4>>, three |-> <<6>>],
    Nodes <- {"root", "type", "group", "array", "item", "object", "leaf"}, RootNode <- "root",
    Inner <- Wrapped, Own <- OwnOf, Sort <- SortOf, Value <- ValueOf,
    PageSize <- 2, RowLimit <- 2, MaxChain <- 3, MaxEdits <- 1, MaxReads <- 3,
    MaxOpens <- 2, base <- revision

\* Two pages that share a record.
RecordsOf(k) == IF k = "p" THEN {1, 2} ELSE {2, 3}

\* Entities that lead to each other: a read brings three of them; a layer closes a circle
\* around the one in the middle, or renames the innermost and takes the middle away.
LinksOf(v) == v.refs
Part(r, contents) == [ref |-> r, fields |-> contents]
Name(n) == [name |-> [value |-> n, refs |-> {}]]
Holding(S) == [kids |-> [value |-> None, refs |-> S]]
Upserted(entity) == [kind |-> "patch", parts |-> <<entity>>, valid |-> TRUE]
Reads ==
    {[parts |-> <<Part("c", Name("x")), Part("b", Holding({"c"})), Part("a", Holding({"b"}))>>,
      valid |-> TRUE]}
Optimistic ==
    {<<Upserted(Part("a", Holding({"a", "c"})))>>,
     <<Upserted(Part("c", Name("y"))), [kind |-> "remove", ref |-> "b", valid |-> TRUE]>>}
Retained == {{"a"}}

\* A card A with a header and a field x, inside which the card B shows the field y.
ItemAt ==
    [w \in 0..2 |-> CASE w = 0 -> [kind |-> "header", card |-> "A", field |-> None]
                      [] w = 1 -> [kind |-> "row", card |-> "A", field |-> "x"]
                      [] w = 2 -> [kind |-> "row", card |-> "B", field |-> "y"]]
BranchOf(f) == IF f = "x" THEN "B" ELSE None

Board == INSTANCE BoardGestures WITH
    Fingers <- {1, 2}, Places <- 0..2, Item <- ItemAt, Branch <- BranchOf,
    MaxModels <- 1, Reach <- 1

\* b3 holds a file that cannot be read, b2 documents that the server refuses.
FirstName == [b \in {"b1", "b2"} |-> "name"]

Client == INSTANCE WorkspaceClient WITH
    Batches <- {"b1", "b2", "b3"}, Readable <- {"b1", "b2"}, Accepted <- {"b1"},
    NameOf <- FirstName, Titles <- {"t"}, MaxEdits <- 2, MaxSubmits <- 2,
    MaxFaults <- 1, reads <- fileReads, opened <- visitedAnalyses,
    pending <- pendingDeletion, edits <- forms, version <- formVersion

\* Two changesets: one that changes and one that is refused half-way.
Rename(f, name, valid) ==
    [kind |-> "renameXmlName", id |-> f, name |-> name, valid |-> valid]
Move(f, before) == [kind |-> "moveMember", id |-> f, before |-> before]
Changesets == {<<Rename("x", "n", TRUE), Move("x", None), Move("x", "x")>>,
               <<Move("y", "x"), Rename("x", "n", FALSE)>>}

Mocks == INSTANCE MockBackends WITH
    Listed <- {"catalog"}, Drafts <- {"d1"}, Analyses <- {"a1", "a2"}, Keys <- {"k"},
    Bodies <- {"b1", "b2"}, Titles <- {"t"}, Mutations <- {"m1", "m2"},
    Fields <- <<"x", "y">>, Batches <- Changesets, MaxRequests <- 4, MaxRevision <- 2,
    stored <- storage, pending <- waiting

\* A card with more rows than fit, of which two have a warning, one shows its branch and
\* one has a pill; a card inside it, and a reference to a card that is not loaded.
Row(m) ==
    [member |-> m, name |-> "n", nameWidth |-> 60, typeWidth |-> 40, variants |-> 0,
     observed |-> 0, changed |-> FALSE, expandable |-> FALSE, expanded |-> FALSE,
     branch |-> None, warning |-> FALSE]
Card(id, rows) ==
    [id |-> id, rows |-> rows, state |-> "complete", more |-> FALSE, loaded |-> None,
     first |-> None, total |-> Len(rows), display |-> "standard", position |-> None,
     pinned |-> FALSE, collapsed |-> FALSE, variants |-> 0, note |-> None, width |-> None,
     collection |-> id, limit |-> None]
Edge(id, from, member, to, kind) ==
    [id |-> id, source |-> from, member |-> member, target |-> to, kind |-> kind,
     state |-> "normal"]
Warned(row) == [row EXCEPT !.warning = TRUE]
Large ==
    Card("A", <<Row("x"), [Warned(Row("y")) EXCEPT !.expandable = TRUE, !.expanded = TRUE],
                Row("z"), Warned(Row("w")),
                [Row("p") EXCEPT !.expandable = TRUE,
                                 !.branch = [total |-> 3, state |-> "complete"]]>>)
Small == Card("B", <<Row("u"), Row("v")>>)
Unloaded == [Card("C", <<>>) EXCEPT !.display = "summary", !.state = "notRequested", !.total = 2]
Whole ==
    [cards |-> <<Large, Small, Unloaded>>, selection |-> None,
     connections |-> <<Edge("e1", "A", "y", "B", "containment"),
                       Edge("e2", "A", "z", "C", "reference")>>]
Selecting ==
    [Whole EXCEPT !.selection = <<"A", "w">>, !.cards[2].position = [x |-> 320, y |-> 150]]
Parted == [cards |-> <<Small>>, connections |-> <<>>, selection |-> None]

Scene == INSTANCE BoardScene WITH
    RowLimit <- 3, CellSize <- 512, MaxCells <- 64, Models <- {Whole, Selecting, Parted},
    Views <- {[x |-> 0, y |-> 0, zoom |-> z] : z \in {20, 100, 150}}, Deltas <- {30, -45},
    Spots <- {[x |-> 40, y |-> 400]}, Hovers <- {<<"A", "y">>},
    Screen <- [w |-> 500, h |-> 200], MaxEvents <- 3

-----------------------------------------------------------------------------
PagesInit ==
    IF part = "cards"
    THEN /\ Cards!Init
         /\ saving = None /\ expanded = None /\ connected = None /\ reads = None
         /\ saves = None /\ overtaken = None
    ELSE /\ Pages!Init
         /\ nodes = None /\ branches = None /\ unfolded = None /\ edges = {}
         /\ fetches = None /\ mores = None
BoardInit ==
    IF part = "board" THEN Board!Init
    ELSE /\ viewport = None /\ told = None /\ loose = None /\ wheel = None
         /\ pointers = None /\ gesture = None /\ pinch = None /\ space = None
         /\ preview = None /\ fields = None /\ opened = None /\ models = None
         /\ selected = None /\ renamed = None /\ emitted = None /\ disposed = None
ClientInit ==
    IF part = "client" THEN Client!Init
    ELSE /\ form = None /\ formVersion = None /\ fileReads = None /\ key = None
         /\ shown = None /\ visitedAnalyses = None /\ pendingDeletion = None
         /\ queue = None /\ stray = None /\ analyses = None /\ attempts = None
         /\ forms = None /\ chosen = None /\ keys = None /\ ids = None
         /\ failed = None /\ faults = None
SceneInit ==
    IF part = "scene" THEN Scene!Init
    ELSE /\ stage = None /\ app = None /\ destroyed = None /\ source = None
         /\ arranged = None /\ model = None /\ camera = None /\ hover = None
         /\ geo = None /\ frame = None /\ news = None /\ views = None /\ groups = None
         /\ lines = None /\ dragged = None /\ vanished = None /\ events = None

BrowserInit ==
    /\ part \in {"pages", "cards", "cache", "store", "board", "client", "mocks", "scene"}
    /\ PagesInit /\ Init /\ StoreInit /\ BoardInit /\ ClientInit /\ Mocks!Init /\ SceneInit

BrowserNext ==
    /\ UNCHANGED part
    /\ \/ part = "pages" /\ Pages!Next /\ UNCHANGED cardVars
       \/ part = "cards" /\ Cards!Next /\ UNCHANGED loadVars
       \/ part \notin {"pages", "cards"} /\ UNCHANGED pageVars
    /\ \/ part = "cache" /\ Next
       \/ part # "cache" /\ UNCHANGED vars
    /\ \/ part = "store" /\ StoreNext
       \/ part # "store" /\ UNCHANGED storeVars
    /\ \/ part = "board" /\ Board!Next
       \/ part # "board" /\ UNCHANGED boardVars
    /\ \/ part = "client" /\ Client!Next
       \/ part # "client" /\ UNCHANGED clientVars
    /\ \/ part = "mocks" /\ Mocks!Next
       \/ part # "mocks" /\ UNCHANGED mockVars
    /\ \/ part = "scene" /\ Scene!Next
       \/ part # "scene" /\ UNCHANGED sceneVars

browserVars ==
    <<part, pageVars, vars, storeVars, boardVars, clientVars, mockVars, sceneVars>>

BrowserSpec == BrowserInit /\ [][BrowserNext]_browserVars

-----------------------------------------------------------------------------
\* Of the editor's pages: what is loaded, with the edits, tells what the server has.  Of its
\* cards: they show what is loaded, and what is open leads to a card.
PagesHold ==
    /\ part = "pages" => Pages!PagesHold
    /\ part = "cards" => Cards!CardsHold

\* Of the editor's pages: an edit's inverse gives back what there was.  Of the mock
\* backends: a schema's history is the one the server promises.  Of the board: a row that
\* is selected shows.  Of the store: sweeping takes nothing that somebody retains.
StepsHold ==
    /\ Pages!EditsInvert /\ Mocks!MockHistory /\ Scene!SelectedShows
    /\ Cards!RowsStay /\ SweepsAreHarmless

\* Of the board: gestures end, hold what is there and drop a field outside itself; at rest
\* the viewport is the one that was announced; and what is drawn, found and hit is what the
\* model says.
BoardHolds ==
    /\ part = "board" => Board!GesturesHold /\ Board!ViewportTold
    /\ part = "scene" => Scene!SceneHolds

\* Of the client: the form shows what was chosen, and submitting it again is safe.  Of
\* the mock backends: requests that are made again are told the same, also after the
\* page was loaded again.
SubmissionsHold ==
    /\ part = "client" => Client!SubmissionsHold
    /\ part = "mocks" => Mocks!MockHolds
=============================================================================
