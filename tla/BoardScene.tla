------------------------------ MODULE BoardScene ------------------------------
(***************************************************************************)
(* The renderer of the editor's board: the geometry it keeps beside the      *)
(* model, what it has drawn, and when it draws again.                       *)
(*                                                                         *)
(* A new model replaces the geometry only if it differs from the last one;   *)
(* scrolling a card's rows or dragging a card changes the geometry of that   *)
(* card and of its connections.  Drawing happens later, in a frame, and      *)
(* leaves alone every card, row and connection whose inputs are what they    *)
(* were: the views below hold what was drawn last and from what.             *)
(***************************************************************************)
EXTENDS BoardLayout

CONSTANTS
    Models,         \* models that the editor sets
    Views,          \* cameras: [x, y, zoom], the zoom in percent
    Deltas,         \* lengths that a wheel scrolls rows by
    Spots,          \* where cards are dragged to
    Hovers,         \* rows that the pointer is over, as <<card, member>>
    Screen,         \* width and height of the board
    MaxEvents       \* bound: events

VARIABLES
    stage,          \* of the start: "app", "fonts", "mounted", "over"
    app,            \* the drawing application: "none", "alive" or "gone"
    destroyed,
    source,         \* the model that the editor set last
    arranged,       \* where the arrangement put cards that the editor gave no place
    model,          \* the model that the renderer has
    camera, hover,
    geo,            \* the geometry, see Geometry
    frame,          \* a frame was asked for
    news,           \* the connections have to be grouped again
    views,          \* cards as they are drawn
    groups, lines,  \* connections as they are grouped, and as they are drawn
    dragged,        \* the card that is being dragged, or None
    vanished,       \* history: cards that left the model while they were dragged
    events

setup == <<stage, app, destroyed>>
given == <<source, arranged, model>>
pointer == <<dragged, vanished>>
canvas == <<views, groups, lines>>
vars == <<setup, given, camera, hover, geo, frame, news, canvas, pointer, events>>

EmptyModel == [cards |-> <<>>, connections |-> <<>>, selection |-> None]
Ids(m) == {card.id : card \in ToSet(m.cards)}
CardOf(m, id) == CHOOSE card \in ToSet(m.cards) : card.id = id
LevelOfDetail(zoom) ==
    IF zoom < 35 THEN "overview" ELSE IF zoom > 120 THEN "detailed" ELSE "working"

-----------------------------------------------------------------------------
(* The geometry, and what changes it.                                        *)

EmptyGeometry ==
    [models |-> Nothing, order |-> <<>>, connections |-> <<>>, lod |-> "working",
     previews |-> Nothing, anchors |-> Nothing, wheel |-> Nothing,
     hidden |-> Nothing, layout |-> Nothing, cards |-> Nothing, edges |-> Nothing,
     cardIndex |-> EmptyIndex, edgeIndex |-> EmptyIndex]

\* Rows are counted from 0.
IndexOf(card, member) ==
    IF member \notin Members(card.rows) THEN -1
    ELSE (CHOOSE i \in DOMAIN card.rows : card.rows[i].member = member) - 1
RowOffset(g, card) ==
    IF card.id \notin DOMAIN g.anchors THEN 0 ELSE High(0, IndexOf(card, g.anchors[card.id]))

WindowOf(g, card, lod) == RowWindow(card, lod, RowOffset(g, card))
ShownRows(g, card, lod) == Members(WindowOf(g, card, lod).rows)

Placed(g, card) ==
    CardGeometry(card, IF card.id \in DOMAIN g.previews THEN g.previews[card.id]
                       ELSE g.layout[card.id],
                 g.lod, g.hidden[card.id], RowOffset(g, card))
WithCard(g, geometry) ==
    [g EXCEPT !.cards = With(@, geometry.id, geometry),
              !.cardIndex = IndexSet(@, geometry.id, geometry.visibility)]
PutCard(g, card) == WithCard(g, Placed(g, card))

WithEdge(g, edge) ==
    [g EXCEPT !.edges = With(@, edge.id, edge),
              !.edgeIndex = IndexSet(@, edge.id, edge.bounds)]
UpdateEdge(g, c) ==
    IF {c.source, c.target} \subseteq DOMAIN g.cards
    THEN WithEdge(g, ConnectionGeometry(c, g.cards[c.source], g.cards[c.target], g.lod))
    ELSE [g EXCEPT !.edges = [id \in DOMAIN @ \ {c.id} |-> @[id]],
                   !.edgeIndex = IndexDelete(@, c.id)]
UpdateEdges(g, connections) == FoldLeft(UpdateEdge, g, connections)

Adjacent(g, id) == SelectSeq(g.connections, LAMBDA c : id \in {c.source, c.target})

\* Everything anew, but where rows were scrolled to and what is being dragged.
Kept(g, ids) ==
    [g EXCEPT !.anchors = [id \in DOMAIN @ \cap ids |-> @[id]],
              !.wheel = [id \in {id \in DOMAIN @ : id \in ids \/ id \notin DOMAIN g.anchors}
                            |-> @[id]]]
Cleared(g, m, lod, hidden) ==
    [g EXCEPT !.models = [id \in Ids(m) |-> CardOf(m, id)],
              !.order = [i \in DOMAIN m.cards |-> m.cards[i].id],
              !.connections = m.connections, !.lod = lod,
              !.hidden = hidden, !.layout = LayoutCards(m, lod, hidden),
              !.cards = Nothing, !.edges = Nothing,
              !.cardIndex = EmptyIndex, !.edgeIndex = EmptyIndex]
Hidden(g, m, lod) ==
    HiddenSources(m, [id \in Ids(m) |-> ShownRows(g, CardOf(m, id), lod)])
Refilled(g, m) == UpdateEdges(FoldLeft(PutCard, g, m.cards), m.connections)
RebuildFrom(g, m, lod) == Refilled(Cleared(g, m, lod, Hidden(g, m, lod)), m)
Rebuild(g, m, lod) == RebuildFrom(Kept(g, Ids(m)), m, lod)

\* One card, after its rows were scrolled, or at another place.
Outgoing(connections, shown) ==
    LET out == SelectSeq(connections, LAMBDA c : c.member \notin shown)
    IN Distinct([i \in DOMAIN out |-> out[i].member])
UpdateCard(g, card) == UpdateEdges(PutCard(g, card), Adjacent(g, card.id))
UpdateCardWindow(g, card) ==
    UpdateCard([g EXCEPT !.hidden[card.id] =
                    Outgoing(SelectSeq(Adjacent(g, card.id), LAMBDA c : c.source = card.id),
                             ShownRows(g, card, g.lod))], card)

\* The window that ends with a row, or begins with it.
RevealFrom(g, card, index, from) ==
    LET first == Min({f \in from..index : f = index \/ RowWindow(card, g.lod, f).end > index})
    IN UpdateCardWindow([g EXCEPT !.anchors = With(@, card.id, card.rows[first + 1].member),
                                  !.wheel = [i \in DOMAIN @ \ {card.id} |-> @[i]]], card)
RevealIn(g, card, index, window) ==
    IF card.collapsed \/ index < 0 \/ index \in window.first..window.end - 1 THEN g
    ELSE RevealFrom(g, card, index, IF index < window.first THEN index
                                    ELSE High(0, index - Len(window.rows) + 1))
RevealMember(g, id, member) ==
    IF id \notin DOMAIN g.models \/ g.lod = "overview" THEN g
    ELSE RevealIn(g, g.models[id], IndexOf(g.models[id], member),
                  WindowOf(g, g.models[id], g.lod))

\* What is dragged is shown where it would be dropped; None ends that.
PreviewCard(g, id, position) ==
    IF id \notin DOMAIN g.models THEN g
    ELSE UpdateCard([g EXCEPT !.previews =
                        IF position # None THEN With(@, id, position)
                        ELSE [i \in DOMAIN @ \ {id} |-> @[i]]], g.models[id])

Scrollable(g, id) ==
    /\ id \in DOMAIN g.models /\ g.lod # "overview"
    /\ ~g.models[id].collapsed
    /\ Len(WindowOf(g, g.models[id], g.lod).rows) < Len(g.models[id].rows)

\* What was scrolled and did not make a row yet is kept; division is towards zero.
Wheeled(g, id, delta) == delta + IF id \in DOMAIN g.wheel THEN g.wheel[id] ELSE 0
Steps(length, row) == IF length >= 0 THEN length \div row ELSE -((-length) \div row)

ScrollTo(g, card, first) ==
    UpdateCardWindow([g EXCEPT !.anchors = With(@, card.id, card.rows[first + 1].member)], card)
ScrollBy(g, card, total, steps) ==
    LET moved == [g EXCEPT !.wheel =
                    With(@, card.id, total - steps * CardMetrics(card, g.lod).row)]
    IN IF steps = 0 THEN moved
       ELSE ScrollTo(moved, card,
                     RowWindow(card, g.lod, WindowOf(g, card, g.lod).first + steps).first)
ScrollSteps(g, id, delta) ==
    Steps(Wheeled(g, id, delta), CardMetrics(g.models[id], g.lod).row)
ScrollRows(g, id, delta) ==
    IF ~Scrollable(g, id) THEN g
    ELSE ScrollBy(g, g.models[id], Wheeled(g, id, delta), ScrollSteps(g, id, delta))

-----------------------------------------------------------------------------
(* Drawing.                                                                  *)

\* What a selection marks on a card: a row, the header, or nothing.
Marks(selection, id) ==
    IF selection = None \/ selection[1] # id THEN "nothing"
    ELSE IF selection[2] = None THEN "header" ELSE selection[2]

Selects(m, c) == c.state = "selected" \/ m.selection = <<c.source, c.member>>
SelectedTargets(m) == {c.target : c \in {c \in ToSet(m.connections) : Selects(m, c)}}

CardInput(g, id) ==
    [card |-> g.models[id], geometry |-> g.cards[id], lod |-> g.lod,
     selected |-> IF id \in SelectedTargets(model) /\ Marks(model.selection, id) = "nothing"
                  THEN "header" ELSE Marks(model.selection, id),
     hovered |-> Marks(hover, id)]

\* A line below a row, of many, unless the row or the next one is highlighted; the
\* header counts as the row 0.
ShowSeparator(index, count, highlighted) ==
    count > 4 /\ index < count - 1 /\ {index, index + 1} \cap highlighted = {}

RowModel(card, member) == CHOOSE r \in ToSet(card.rows) : r.member = member
Highlighted(rows, marked) ==
    {i \in 0..Len(rows) : IF i = 0 THEN "header" \in marked ELSE rows[i].member \in marked}
RowViewsIn(in, rows, glyphs, highlighted) ==
    [i \in DOMAIN rows |->
        [row |-> RowModel(in.card, rows[i].member),
         y |-> rows[i].bounds.y - in.geometry.bounds.y,
         selected |-> rows[i].member = in.selected,
         hovered |-> rows[i].member = in.hovered,
         separator |-> glyphs /\ ShowSeparator(i, Len(rows) + 1, highlighted)]]
RowViews(in) ==
    RowViewsIn(in, in.geometry.rows, CardMetrics(in.card, in.lod).glyphs,
               Highlighted(in.geometry.rows, {in.selected, in.hovered}))

\* What a card's surface is drawn again for.
PillsIn(card, rows) == SelectSeq(rows, LAMBDA r : HasPill(RowModel(card, r.member)))
ChromeKeyOf(in, g, pills) ==
    [w |-> g.bounds.w, h |-> g.bounds.h, lod |-> in.lod,
     header |-> <<in.selected = "header", in.hovered = "header">>,
     first |-> g.rows # <<>> /\ g.rows[1].member \in {in.selected, in.hovered},
     window |-> IF g.viewport = None THEN None ELSE <<g.viewport.first, g.viewport.end>>,
     pills |-> [i \in DOMAIN pills |->
                  <<pills[i].member, pills[i].bounds.y - g.bounds.y,
                    RowModel(in.card, pills[i].member).branch>>],
     content |-> [in.card EXCEPT !.rows = <<>>, !.position = None, !.pinned = FALSE,
                                 !.width = None, !.collection = None]]
ChromeKey(in) == ChromeKeyOf(in, in.geometry, PillsIn(in.card, in.geometry.rows))

CardView(in, key, old) ==
    [input |-> in, at |-> [x |-> in.geometry.bounds.x, y |-> in.geometry.bounds.y],
     rows |-> RowViews(in),
     chrome |-> IF old # None /\ old.chrome.key = key THEN old.chrome
                ELSE [key |-> key, scrollbar |-> RowScrollbar(in.card, in.geometry)]]
\* Mutant: the pointer is not compared.
SyncCardUnhovered(in, old) ==
    IF old # None /\ [old.input EXCEPT !.hovered = in.hovered] = in THEN old
    ELSE CardView(in, ChromeKey(in), old)
SyncCard(in, old) ==
    IF old # None /\ old.input = in THEN old ELSE CardView(in, ChromeKey(in), old)

\* What is on the screen, with a margin.
InSight ==
    LET scaled(length) == (length * 100) \div camera.zoom
    IN Rect(scaled(-120 - camera.x), scaled(-120 - camera.y),
            scaled(Screen.w + 240), scaled(Screen.h + 240))
Found(index) == LET found == IndexQuery(index, InSight) IN {found[i].id : i \in DOMAIN found}

SyncCards(g) ==
    [id \in Found(g.cardIndex) |->
        SyncCard(CardInput(g, id), IF id \in DOMAIN views THEN views[id] ELSE None)]

\* From afar, the connections of the same cards are one.
GroupKey(g, c) == IF g.lod = "overview" THEN <<c.source, c.target, c.kind>> ELSE <<c.id>>
Dashed(g, c) == c.state = "unloaded" \/ c.kind = "preview" \/ g.edges[c.id].hidden
Group(g, of) ==
    [geometry |-> g.edges[of[1].id], count |-> Len(of), ids |-> {c.id : c \in ToSet(of)},
     selected |-> \E c \in ToSet(of) : Selects(model, c),
     dashed |-> \E c \in ToSet(of) : Dashed(g, c)]
Groups(g) ==
    LET drawn == SelectSeq(g.connections, LAMBDA c : c.id \in DOMAIN g.edges)
    IN [key \in {GroupKey(g, c) : c \in ToSet(drawn)} |->
            Group(g, SelectSeq(drawn, LAMBDA c : GroupKey(g, c) = key))]
LinesOf(g, grouped) ==
    LET found == Found(g.edgeIndex)
    IN {grouped[key] : key \in {key \in DOMAIN grouped : grouped[key].ids \cap found # {}}}

Sync(g) ==
    /\ views' = SyncCards(g)
    /\ groups' = IF news THEN Groups(g) ELSE groups
    /\ lines' = LinesOf(g, groups')
    /\ news' = FALSE

\* schedule: a frame is asked for once, and only of a board that stands.
Ask == frame' = (frame \/ (stage = "mounted" /\ ~destroyed))

Frame ==
    /\ frame
    /\ frame' = FALSE
    /\ Sync(geo)
    /\ UNCHANGED <<setup, given, camera, hover, geo, pointer, events>>

-----------------------------------------------------------------------------
(* The start and the end.                                                    *)

Init ==
    /\ stage = "app" /\ app = "none" /\ destroyed = FALSE
    /\ source \in Models /\ arranged = Nothing /\ model = source
    /\ camera \in {view \in Views : LevelOfDetail(view.zoom) = "working"} /\ hover = None
    /\ geo = EmptyGeometry /\ frame = FALSE /\ news = TRUE
    /\ views = Nothing /\ groups = Nothing /\ lines = {}
    /\ dragged = None /\ vanished = {}
    /\ events = 0

\* The drawing application is there; a board that was destroyed meanwhile gives it back.
InitApp ==
    /\ stage = "app"
    /\ IF destroyed THEN stage' = "over" /\ app' = "gone"
       ELSE stage' = "fonts" /\ app' = "alive"
    /\ UNCHANGED <<destroyed, given, camera, hover, geo, frame, news, canvas, pointer, events>>

\* The fonts are there: the board is built and drawn at once.
Mount ==
    /\ geo' = Rebuild(geo, model, LevelOfDetail(camera.zoom))
    /\ Sync(geo')
FontsReady ==
    /\ stage = "fonts"
    /\ IF destroyed
       THEN stage' = "over" /\ UNCHANGED <<geo, news, canvas>>
       ELSE stage' = "mounted" /\ Mount
    /\ UNCHANGED <<app, destroyed, given, camera, hover, frame, pointer, events>>

\* The board is given up; so is the drawing application, if it is there.
GiveUp ==
    /\ destroyed' = TRUE
    /\ stage' = IF stage = "mounted" THEN "over" ELSE stage
    /\ app' = IF app = "alive" THEN "gone" ELSE app
    /\ frame' = FALSE
Destroy ==
    /\ ~destroyed
    /\ GiveUp
    /\ source' = EmptyModel /\ arranged' = Nothing /\ model' = EmptyModel
    /\ geo' = [EmptyGeometry EXCEPT !.lod = geo.lod]
    /\ views' = Nothing /\ groups' = Nothing /\ lines' = {}
    /\ hover' = None /\ dragged' = None /\ vanished' = {}
    /\ UNCHANGED <<camera, news, events>>

-----------------------------------------------------------------------------
(* What the editor and the pointer ask for.                                  *)

Event == ~destroyed /\ events < MaxEvents /\ events' = events + 1
Mounted == stage = "mounted" /\ ~destroyed

\* Whether a card or a connection came, went or is another; not their order.
Differs(a, b) ==
    ToSet(a.cards) # ToSet(b.cards) \/ ToSet(a.connections) # ToSet(b.connections)

\* setModel of the renderer: what it makes of the geometry.  Mutant: the selected row is
\* brought into sight before the cards are there.
RenderedLast(next) ==
    LET lod == LevelOfDetail(camera.zoom)
        chosen == next.selection
        revealed == IF chosen # model.selection /\ chosen # None /\ chosen[2] # None
                    THEN RevealMember(geo, chosen[1], chosen[2]) ELSE geo
    IN IF Mounted /\ (Differs(model, next) \/ lod # geo.lod)
       THEN Rebuild(revealed, next, lod) ELSE IF Mounted THEN revealed ELSE geo
Rendered(next) ==
    LET lod == LevelOfDetail(camera.zoom)
        built == IF Differs(model, next) \/ lod # geo.lod THEN Rebuild(geo, next, lod) ELSE geo
        chosen == next.selection
    IN CASE ~Mounted -> geo
         [] Mounted /\ chosen # model.selection /\ chosen # None /\ chosen[2] # None ->
              RevealMember(built, chosen[1], chosen[2])
         [] OTHER -> built

\* A drag of a card that is gone ends; what it showed of it does not, for the renderer
\* has no such card any more.
SetModel(m) ==
    /\ Event
    /\ source' = m
    /\ arranged' = [id \in DOMAIN arranged \cap Ids(m) |-> arranged[id]]
    /\ model' = [m EXCEPT !.cards = [i \in DOMAIN @ |->
                    IF @[i].id \in DOMAIN arranged /\ ~@[i].pinned
                    THEN [@[i] EXCEPT !.position = arranged[m.cards[i].id]] ELSE @[i]]]
    /\ geo' = Rendered(model')
    /\ news' = TRUE
    /\ Ask
    /\ IF dragged \in Ids(m) \/ dragged = None THEN UNCHANGED pointer
       ELSE dragged' = None /\ vanished' = vanished \cup {dragged}
    /\ UNCHANGED <<setup, camera, hover, canvas>>

\* Every card that is not pinned goes where there is place for it, and stays there.
Arrange ==
    /\ Event
    /\ model' = [source EXCEPT !.cards = [i \in DOMAIN @ |->
                    IF @[i].pinned THEN @[i] ELSE [@[i] EXCEPT !.position = None]]]
    /\ geo' = Rendered(model')
    /\ LET free == {id \in DOMAIN geo'.cards : ~CardOf(source, id).pinned}
       IN arranged' = [id \in DOMAIN arranged \cup free |->
              IF id \in free THEN [x |-> geo'.cards[id].bounds.x, y |-> geo'.cards[id].bounds.y]
              ELSE arranged[id]]
    /\ news' = TRUE
    /\ Ask
    /\ UNCHANGED <<setup, source, camera, hover, canvas, pointer>>

SetViewport(view) ==
    /\ Event
    /\ view # camera
    /\ camera' = view
    /\ LET lod == LevelOfDetail(view.zoom) IN
       IF Mounted /\ lod # geo.lod
       THEN geo' = Rebuild(geo, model, lod) /\ news' = (news \/ model.connections # <<>>)
       ELSE UNCHANGED <<geo, news>>
    /\ Ask
    /\ UNCHANGED <<setup, given, hover, canvas, pointer>>

\* The pointer is over a row, or over nothing.
SetHover(h) ==
    /\ Event
    /\ Mounted /\ dragged = None
    /\ h # hover
    /\ h # None => h[1] \in DOMAIN geo.cards /\ h[2] \in Members(geo.cards[h[1]].rows)
    /\ hover' = h
    /\ Ask
    /\ UNCHANGED <<setup, given, camera, geo, news, canvas, pointer>>

\* The geometry of a card changed, and with it its connections'.
Changed(id, g) ==
    /\ geo' = g
    /\ news' = (news \/ Adjacent(geo, id) # <<>>)
    /\ Ask
    /\ UNCHANGED <<setup, source, model, camera, canvas>>

Scroll(id, delta) ==
    /\ Event
    /\ dragged = None
    /\ Scrollable(geo, id)
    /\ IF ScrollSteps(geo, id, delta) = 0
       THEN /\ geo' = ScrollRows(geo, id, delta)
            /\ UNCHANGED <<setup, source, model, camera, canvas, news, frame>>
       ELSE Changed(id, ScrollRows(geo, id, delta))
    /\ UNCHANGED <<arranged, hover, pointer>>

\* The strip of a card that stands for a row that does not show is clicked.
Reveal(id, member) ==
    /\ Event
    /\ dragged = None
    /\ id \in DOMAIN geo.cards
    /\ <<"boundary", id, member>> \in {r.target : r \in ToSet(geo.cards[id].regions)}
    /\ Changed(id, RevealMember(geo, id, member))
    /\ UNCHANGED <<arranged, hover, pointer>>

DragCard(id, spot) ==
    /\ Event
    /\ id \in DOMAIN geo.cards
    /\ dragged \in {None, id}
    /\ dragged' = id
    /\ hover' = None
    /\ Changed(id, PreviewCard(geo, id, spot))
    /\ UNCHANGED <<arranged, vanished>>

\* The card is dropped, or the drag is cancelled; in either case the editor decides where
\* the card goes, and until then it stands where it was.
EndDrag(dropped) ==
    /\ Event
    /\ dragged # None
    /\ dragged' = None
    /\ vanished' = vanished \ {dragged}
    /\ arranged' = IF dropped THEN [id \in DOMAIN arranged \ {dragged} |-> arranged[id]]
                   ELSE arranged
    /\ Changed(dragged, PreviewCard(geo, dragged, None))
    /\ UNCHANGED hover

Next ==
    \/ InitApp \/ FontsReady \/ Destroy \/ Frame
    \/ \E m \in Models : SetModel(m)
    \/ Arrange
    \/ \E view \in Views : SetViewport(view)
    \/ \E h \in Hovers \cup {None} : SetHover(h)
    \/ \E id \in DOMAIN geo.models :
          \/ \E delta \in Deltas : Scroll(id, delta)
          \/ \E member \in ToSet(geo.hidden[id]) : Reveal(id, member)
          \/ \E spot \in Spots : DragCard(id, spot)
    \/ \E dropped \in BOOLEAN : EndDrag(dropped)

Spec == Init /\ [][Next]_vars

-----------------------------------------------------------------------------
\* Every view is what would be drawn anew, when no frame is awaited: whatever was skipped
\* because its inputs had not changed had not changed (createBoardRenderer.ts:56-92,
\* cardLayer.ts:79-136, cardView.ts:56-102, edgeLayer.ts:60-101).
NothingStale ==
    Mounted /\ ~frame =>
        /\ DOMAIN views = Found(geo.cardIndex)
        /\ \A id \in DOMAIN views : views[id] = SyncCard(CardInput(geo, id), None)
        /\ lines = LinesOf(geo, Groups(geo))

\* The geometry is the one of the model: whatever changed only a part of it, every card,
\* connection and hidden row is where a calculation from nothing puts it, and the indices
\* find exactly what is in sight (sceneGeometry.ts:69-365).
GeometryHolds ==
    LET sight(box) == Intersects(box, InSight)
        hidden == Hidden(geo, model, geo.lod)
    IN Mounted =>
        /\ geo.models = [id \in Ids(model) |-> CardOf(model, id)]
        /\ geo.lod = LevelOfDetail(camera.zoom)
        /\ \A id \in Ids(model) :
              /\ ToSet(geo.hidden[id]) = ToSet(hidden[id])
              /\ geo.cards[id] = Placed(geo, CardOf(model, id))
        /\ geo.edges = [id \in {c.id : c \in {c \in ToSet(model.connections) :
                                 {c.source, c.target} \subseteq Ids(model)}} |->
              LET c == CHOOSE c \in ToSet(model.connections) : c.id = id
              IN ConnectionGeometry(c, geo.cards[c.source], geo.cards[c.target], geo.lod)]
        /\ Found(geo.cardIndex) = {id \in Ids(model) : sight(geo.cards[id].visibility)}
        /\ Found(geo.edgeIndex) = {id \in DOMAIN geo.edges : sight(geo.edges[id].bounds)}

\* A connection starts at the row it is about or, when that row does not show, at the strip
\* that stands for it: of cards that show their rows (cardGeometry.ts:105-145, 627-664).
EdgesMeet ==
    Mounted /\ geo.lod # "overview" => \A c \in ToSet(model.connections) :
        c.id \in DOMAIN geo.edges /\ geo.models[c.source].display # "summary"
        /\ geo.cards[c.source].viewport # None =>
            LET from == geo.cards[c.source]
                rows == {r.bounds : r \in {r \in ToSet(from.rows) : r.member = c.member}}
                strips == {r.bounds : r \in {r \in ToSet(from.regions) :
                              r.target = <<"boundary", c.source, c.member>>}}
            IN /\ (rows = {}) = geo.edges[c.id].hidden
               /\ \E box \in rows \cup strips : geo.edges[c.id].source.y = box.y + box.h \div 2

\* A card that the board finds a place for covers no other one: while nothing is dragged,
\* at the level where every row has the same height or while no rows were scrolled
\* (treeLayout.ts:29-177).
CardsApart ==
    Mounted => \A a, b \in Ids(model) :
        a # b /\ {a, b} \cap DOMAIN geo.previews = {} /\ geo.models[a].position = None
        /\ (geo.lod = "working" \/ {a, b} \cap DOMAIN geo.anchors = {}) =>
            ~Intersects(geo.cards[a].visibility, geo.cards[b].bounds)

\* What is hit at a point is the last that is there of the last card that is there, pills
\* outside the card included: the index hides nothing from the pointer
\* (sceneGeometry.ts:287-298, hitTest.ts:6-34).
HitsAgree ==
    LET cards == [i \in DOMAIN geo.order |-> geo.cards[geo.order[i]]]
        centre(box) == [x |-> box.x + box.w \div 2, y |-> box.y + box.h \div 2]
        points == {centre(r.bounds) : r \in UNION {ToSet(cards[i].regions) : i \in DOMAIN cards}}
        near(p) == LET found == IndexQuery(geo.cardIndex, Rect(p.x, p.y, 0, 0))
                       ids == {found[i].id : i \in DOMAIN found}
                   IN SelectSeq(cards, LAMBDA card : card.id \in ids)
    IN Mounted => \A p \in points :
          LET hit == HitTest(cards, p) IN hit # None /\ HitTest(near(p), p) = hit

\* Every row can be shown, from wherever the rows were scrolled to, and the thumb beside
\* them stays on its track, at the end of it when the last row shows
\* (cardGeometry.ts:45-87, 586-625, sceneGeometry.ts:215-243).
RowsReachable ==
    Mounted /\ geo.lod # "overview" => \A id \in Ids(model) :
        LET card == geo.models[id]
            bar == RowScrollbar(card, geo.cards[id])
            view == geo.cards[id].viewport
        IN ~card.collapsed =>
            /\ \A m \in Members(card.rows) \ Members(geo.cards[id].rows) :
                  m \in Members(RevealMember(geo, id, m).cards[id].rows)
            /\ bar # None =>
                  /\ bar.trackTop <= bar.thumbTop
                  /\ bar.thumbTop + bar.thumbHeight <= bar.trackTop + bar.trackHeight
                  /\ view.end = view.total /\ card.loaded = None =>
                        bar.thumbTop + bar.thumbHeight = bar.trackTop + bar.trackHeight

\* What is shown of a drag ends with it, except when the card itself went away
\* (sceneGeometry.ts:302-335, pointerController.ts:39-47).
PreviewsEnd == DOMAIN geo.previews = ({dragged} \ {None}) \cup vanished

\* A board that was destroyed draws no more and gives its application back, however far its
\* start had come (sceneLifecycle.ts:40-98, 148-176).
Disposed == destroyed => ~frame /\ app # "alive" /\ stage # "mounted" /\ views = Nothing

SceneHolds ==
    /\ NothingStale /\ GeometryHolds /\ EdgesMeet /\ CardsApart
    /\ HitsAgree /\ RowsReachable /\ PreviewsEnd /\ Disposed

\* A row that is selected shows from then on, until the rows are scrolled
\* (createBoardRenderer.ts:142-144).
SelectedShows ==
    [][Mounted' /\ model'.selection # model.selection /\ model'.selection # None =>
          LET id == model'.selection[1]
              member == model'.selection[2]
          IN id \in Ids(model') /\ geo'.lod # "overview" /\ ~geo'.models[id].collapsed
             /\ member \in Members(geo'.models[id].rows) =>
                 member \in Members(geo'.cards[id].rows)]_<<model, geo>>
=============================================================================
