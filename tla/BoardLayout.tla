----------------------------- MODULE BoardLayout -----------------------------
(***************************************************************************)
(* Where everything on the editor's board is: the part of a card's rows      *)
(* that shows at once, the regions of a card that can be hit, the columns    *)
(* that contained cards are arranged in, and the index that finds what is    *)
(* in a rectangle.                                                          *)
(*                                                                         *)
(* Lengths are the code's pixels, halves rounded down; of a label only its   *)
(* measured width is kept.  Of what a card may override of its metrics only  *)
(* its limit of rows is kept: the others are set by pictures of the          *)
(* documentation, never by the editor.                                       *)
(***************************************************************************)
EXTENDS Integers, Sequences, FiniteSets, SequencesExt, FiniteSetsExt, Functions

CONSTANTS
    None,
    RowLimit,       \* rows that a card shows at most
    CellSize,       \* side of a cell of the index
    MaxCells        \* cells that an entry of the index takes at most

Nothing == [x \in {} |-> None]
With(f, x, y) == [z \in DOMAIN f \cup {x} |-> IF z = x THEN y ELSE f[z]]
Low(a, b) == IF a <= b THEN a ELSE b
High(a, b) == IF a >= b THEN a ELSE b
Distinct(s) == FoldLeft(LAMBDA t, e : IF Contains(t, e) THEN t ELSE Append(t, e), <<>>, s)

Rect(x, y, w, h) == [x |-> x, y |-> y, w |-> w, h |-> h]
Right(r) == r.x + r.w
Bottom(r) == r.y + r.h
Intersects(a, b) ==
    a.x <= Right(b) /\ Right(a) >= b.x /\ a.y <= Bottom(b) /\ Bottom(a) >= b.y
Covers(r, p) == p.x \in r.x..Right(r) /\ p.y \in r.y..Bottom(r)

-----------------------------------------------------------------------------
(* The index: a grid of cells, and apart what would take too many of them.   *)

EmptyIndex == [entries |-> <<>>, cells |-> Nothing, memberships |-> Nothing,
               spanning |-> <<>>]

Columns(r) == (r.x \div CellSize)..(Right(r) \div CellSize)
Lines(r) == (r.y \div CellSize)..(Bottom(r) \div CellSize)
TooLarge(r) == Cardinality(Columns(r)) * Cardinality(Lines(r)) > MaxCells
CellsOf(r) == Columns(r) \X Lines(r)

IndexDelete(index, id) ==
    LET left == [c \in DOMAIN index.cells |->
                    IF id \in DOMAIN index.memberships /\ c \in index.memberships[id]
                    THEN Remove(index.cells[c], id) ELSE index.cells[c]]
    IN [entries |-> SelectSeq(index.entries, LAMBDA e : e.id # id),
        cells |-> [c \in {c \in DOMAIN left : left[c] # <<>>} |-> left[c]],
        memberships |-> [i \in DOMAIN index.memberships \ {id} |-> index.memberships[i]],
        spanning |-> Remove(index.spanning, id)]

Inserted(rest, id, r) ==
    IF TooLarge(r)
    THEN [rest EXCEPT !.entries = Append(@, [id |-> id, bounds |-> r]), !.spanning = Append(@, id)]
    ELSE [rest EXCEPT
             !.entries = Append(@, [id |-> id, bounds |-> r]),
             !.cells = [c \in DOMAIN @ \cup CellsOf(r) |->
                           (IF c \in DOMAIN @ THEN @[c] ELSE <<>>)
                           \o (IF c \in CellsOf(r) THEN <<id>> ELSE <<>>)],
             !.memberships = With(@, id, CellsOf(r))]
IndexSet(index, id, r) == Inserted(IndexDelete(index, id), id, r)

\* The cells are searched column by column.
CellsIn(index, r) ==
    SetToSortSeq(CellsOf(r) \cap DOMAIN index.cells,
                 LAMBDA c, d : c[1] < d[1] \/ (c[1] = d[1] /\ c[2] < d[2]))
Entries(index, ids) ==
    FlattenSeq([i \in DOMAIN ids |-> SelectSeq(index.entries, LAMBDA e : e.id = ids[i])])
Near(index, r) ==
    IF TooLarge(r) THEN index.entries
    ELSE Entries(index, Distinct(FoldLeft(LAMBDA ids, c : ids \o index.cells[c],
                                          index.spanning, CellsIn(index, r))))
IndexQuery(index, r) == SelectSeq(Near(index, r), LAMBDA e : Intersects(e.bounds, r))

-----------------------------------------------------------------------------
(* Cards and the window of their rows.                                       *)

Padding == 4
VariantHeight == 47
GapX == 80
GapY == 44

CardWidth(card) == IF card.width = None THEN 248 ELSE card.width
CardMetrics(card, lod) ==
    LET detailed == lod = "detailed" IN
    [header |-> IF detailed THEN 44 ELSE 34, row |-> IF detailed THEN 38 ELSE 28,
     boundary |-> IF detailed THEN 32 ELSE 28, footer |-> IF detailed THEN 36 ELSE 28,
     warning |-> IF detailed THEN 52 ELSE 44, note |-> IF detailed THEN 40 ELSE 28,
     glyphs |-> card.display # "summary" /\ ~detailed /\ CardWidth(card) > 190]

RowHeight(card, lod, i) ==
    CardMetrics(card, lod).row
    + IF lod = "detailed" /\ card.rows[i + 1].warning
      THEN CardMetrics(card, lod).warning ELSE 0

\* Rows are counted from 0; a window shows the rows first .. end - 1.
Height(card, lod, first, end) ==
    SumFunction([i \in first..end - 1 |-> RowHeight(card, lod, i)])

RowsAtMost(card) == High(1, Low(RowLimit, IF card.limit = None THEN RowLimit ELSE card.limit))
Fits(card, lod, first, end) ==
    /\ end - first <= RowsAtMost(card)
    /\ Height(card, lod, first, end) <= CardMetrics(card, lod).row * RowsAtMost(card)

\* The first row from which on all the others fit; and where the rows that fit end.
LastStart(card, lod) == Min({s \in 0..Len(card.rows) : Fits(card, lod, s, Len(card.rows))})
WindowEnd(card, lod, first) ==
    Max({e \in first..Len(card.rows) : e = first + 1 \/ Fits(card, lod, first, e)})
Window(card, lod, first, end, lastStart) ==
    [first |-> first, end |-> end, lastStart |-> lastStart,
     height |-> Height(card, lod, first, end), rows |-> SubSeq(card.rows, first + 1, end)]
WindowFrom(card, lod, first, lastStart) ==
    Window(card, lod, first, WindowEnd(card, lod, first), lastStart)
WindowAfter(card, lod, offset, lastStart) ==
    WindowFrom(card, lod, Low(High(0, offset), lastStart), lastStart)
RowWindow(card, lod, offset) == WindowAfter(card, lod, offset, LastStart(card, lod))

NeedsFooter(card, lod) ==
    \/ card.state # "complete" \/ card.more \/ card.loaded # None
    \/ card.rows = <<>>
    \/ Len(RowWindow(card, lod, 0).rows) < Len(card.rows)

FooterHeight(card, lod) ==
    LET footer == CardMetrics(card, lod).footer IN
    IF card.rows = <<>> /\ card.state = "complete" THEN High(49, footer) ELSE footer

Members(rows) == {rows[i].member : i \in DOMAIN rows}

\* The members that connections start from and that do not show, card by card.
HiddenSources(model, visible) ==
    LET shown(card) == IF card.collapsed THEN {} ELSE visible[card.id]
        sources(card) ==
            LET from == SelectSeq(model.connections, LAMBDA c :
                            c.source = card.id /\ c.member \notin shown(card))
            IN Distinct([i \in DOMAIN from |-> from[i].member])
    IN [id \in {card.id : card \in ToSet(model.cards)} |->
            sources(CHOOSE card \in ToSet(model.cards) : card.id = id)]

Size(w, h) == [w |-> w, h |-> h]
When(condition, h) == IF condition THEN h ELSE 0
SizeOf(card, lod, hidden, window, m) ==
    CASE lod = "overview" ->
           Size(IF card.width = None THEN 138 ELSE card.width,
                IF CardWidth(card) <= 90 THEN 52 ELSE 56)
      [] lod # "overview" /\ card.state = "loading" /\ card.rows = <<>> ->
           Size(CardWidth(card), 54)
      [] OTHER ->
           Size(CardWidth(card),
                IF card.display = "summary" THEN 8 + High(1, Len(window.rows)) * m.row
                ELSE 2 * Padding + m.header
                     + When(~card.collapsed, window.height)
                     + When(card.variants > 0, VariantHeight)
                     + When(NeedsFooter(card, lod) \/ card.collapsed, FooterHeight(card, lod))
                     + When(hidden > 0, m.boundary)
                     + When(card.note # None, m.note))
CardSize(card, lod, hidden, offset) ==
    SizeOf(card, lod, hidden, RowWindow(card, lod, offset), CardMetrics(card, lod))

-----------------------------------------------------------------------------
(* The columns of a row: the name on the left, what it holds on the right.   *)

Narrow(width, glyphs) == ~glyphs /\ width < 150
NameX(row, width, glyphs, hovered) ==
    IF glyphs \/ hovered \/ row.changed THEN 32 ELSE IF Narrow(width, glyphs) THEN 6 ELSE 10
TypeWidth(row, width, nameX, right, observed, gap, narrow) ==
    Low(row.typeWidth,
        Low(IF narrow THEN width ELSE (width * 48) \div 100,
            High(0, right - observed - nameX - gap
                    - IF narrow THEN row.nameWidth
                      ELSE High(0, 90 - (width - right) - gap - nameX))))
\* On the right, kept free from the name: the variants, or observations and the type.
Ends(row, nameX, right, observed, gap, typeWidth) ==
    LET reserve == CASE row.variants > 0 -> row.variants + 22
                     [] row.variants = 0 /\ row.typeWidth > 0 -> observed + typeWidth + gap
                     [] OTHER -> observed
    IN [right |-> right, nameX |-> nameX, nameWidth |-> High(0, right - reserve - nameX),
        typeWidth |-> IF row.variants > 0 THEN 0 ELSE typeWidth, reserve |-> reserve]
Laid(row, width, nameX, right, observed, gap, narrow) ==
    Ends(row, nameX, right, observed, gap,
         TypeWidth(row, width, nameX, right, observed, gap, narrow))
RowColumns(row, width, lod, glyphs, hovered) ==
    LET narrow == Narrow(width, glyphs)
    IN Laid(row, width, NameX(row, width, glyphs, hovered), width - IF narrow THEN 6 ELSE 10,
            IF lod = "detailed" /\ row.observed > 0 THEN row.observed + 12 ELSE 0,
            IF narrow THEN 8 ELSE 12, narrow)

Named(columns, r) ==
    LET inset == High(4, columns.nameX - 8)
    IN Rect(r.x + inset, r.y + 4,
            High(0, columns.nameX + columns.nameWidth + 4 - inset), High(1, r.h - 8))
NameBounds(card, lod, row, r) ==
    Named(RowColumns(row, r.w, IF card.display = "summary" THEN "working" ELSE lod,
                     CardMetrics(card, lod).glyphs, FALSE), r)

-----------------------------------------------------------------------------
(* The geometry of a card: its rows, and the regions that can be hit.        *)

Region(r, target) == [bounds |-> r, target |-> target]
Slice(r, i, n) == Rect(r.x + ((i - 1) * r.w) \div n, r.y, r.w \div n, r.h)

\* Beyond the card's edge a pill tells what an expandable row would show.
HasPill(row) == row.expandable /\ ~row.expanded /\ row.branch # None
PillGap(card) == IF card.display = "summary" THEN 28 ELSE 32
PillWidth(card, row) ==
    IF card.display = "summary" THEN (IF row.branch.total = None THEN 160 ELSE 123)
    ELSE (IF row.branch.total = None THEN 200 ELSE 180)
Pill(card, row, r) ==
    Rect(Right(r) + Padding + PillGap(card),
         IF card.display = "summary" THEN r.y ELSE r.y + (r.h - 28) \div 2,
         PillWidth(card, row), 28)

RowRegions(card, row, r) ==
    LET expand == <<"expand", card.id, row.member>>
    IN <<Region(r, <<"row", card.id, row.member>>)>>
       \o (IF row.expandable THEN <<Region(Rect(Right(r) - 24, r.y, 24, r.h), expand)>>
           ELSE <<>>)
       \o (IF HasPill(row) THEN <<Region(Pill(card, row, r), expand)>> ELSE <<>>)

FooterRegions(card, lod, r) ==
    LET footer == FooterHeight(card, lod)
        empty == card.rows = <<>>
        needed == NeedsFooter(card, lod)
        below == Rect(r.x, r.y + (IF needed THEN footer ELSE 0), r.w, CardMetrics(card, lod).note)
        half == Rect(r.x, r.y + footer \div 2, r.w, footer \div 2)
        more == Region([r EXCEPT !.h = footer], <<"more", card.id, card.collection>>)
        add == Region(IF empty THEN half ELSE below, <<"add", card.id, card.collection>>)
    IN IF card.collection = None THEN <<>>
       ELSE (IF (needed \/ card.collapsed) /\ card.state # "loading" THEN <<more>> ELSE <<>>)
            \o (IF (empty /\ card.state = "complete") \/ card.note = "add" THEN <<add>> ELSE <<>>)

Box(p, size) == Rect(p.x, p.y, size.w, size.h)
Line(bounds, y, h) == Rect(bounds.x + 4, y, bounds.w - 8, h)
IsStub(card, lod) == lod = "overview" \/ (card.rows = <<>> /\ card.state = "loading")
IsSummary(card) == card.display = "summary"

\* Below the header come the variants, the strip of hidden rows, and the rows.
VariantsTop(bounds, m) == bounds.y + 4 + m.header
HiddenTop(card, bounds, m) == VariantsTop(bounds, m) + When(card.variants > 0, VariantHeight)
RowsTop(card, hidden, bounds, m) ==
    IF IsSummary(card) THEN bounds.y + 4
    ELSE HiddenTop(card, bounds, m) + When(hidden # <<>>, m.boundary)

ShownOf(card, lod, window) ==
    IF IsStub(card, lod) \/ (card.collapsed /\ ~IsSummary(card)) THEN <<>> ELSE window.rows
RowsHeight(card, window, m, count) ==
    CASE IsSummary(card) -> count * m.row
      [] ~IsSummary(card) /\ card.collapsed -> 0
      [] OTHER -> window.height

RowBox(card, lod, row, r) ==
    [member |-> row.member, bounds |-> r, name |-> NameBounds(card, lod, row, r)]
RowBoxes(card, lod, bounds, window, m, shown, top) ==
    LET y(i) == top + IF IsSummary(card) THEN (i - 1) * m.row
                      ELSE Height(card, lod, window.first, window.first + i - 1)
    IN [i \in DOMAIN shown |-> RowBox(card, lod, shown[i], Line(bounds, y(i), m.row))]

TitleRegion(card, lod, bounds, m) ==
    Region(IF (IsSummary(card) /\ ~IsStub(card, lod)) \/ lod = "overview" THEN bounds
           ELSE Line(bounds, bounds.y + 4, m.header), <<"header", card.id>>)
VariantRegions(card, bounds, m) ==
    LET strip == Rect(bounds.x + 8, VariantsTop(bounds, m), bounds.w - 16, VariantHeight)
    IN [i \in 1..card.variants |->
            Region(Slice(strip, i, card.variants), <<"variant", card.id, i>>)]
BoundaryRegions(card, hidden, bounds, m) ==
    LET strip == Line(bounds, HiddenTop(card, bounds, m), m.boundary)
    IN [i \in DOMAIN hidden |->
            Region(Slice(strip, i, Len(hidden)), <<"boundary", card.id, hidden[i]>>)]
RequestRegion(card, bounds) ==
    IF card.rows = <<>> /\ card.collection # None /\ card.state = "notRequested"
    THEN <<Region([bounds EXCEPT !.x = @ + bounds.w \div 2, !.w = @ \div 2],
                  <<"more", card.id, card.collection>>)>> ELSE <<>>

Regions(card, lod, hidden, bounds, m, shown, rows, bottom) ==
    LET inside == FlattenSeq([i \in DOMAIN shown |-> RowRegions(card, shown[i], rows[i].bounds)])
    IN <<TitleRegion(card, lod, bounds, m)>>
       \o CASE IsStub(card, lod) -> <<>>
            [] ~IsStub(card, lod) /\ IsSummary(card) -> inside \o RequestRegion(card, bounds)
            [] OTHER -> VariantRegions(card, bounds, m)
                        \o BoundaryRegions(card, hidden, bounds, m) \o inside
                        \o FooterRegions(card, lod, Line(bounds, bottom, 0))

\* Pills stand out of the card.
Visible(card, bounds, shown) ==
    LET pills == {PillWidth(card, shown[i]) : i \in {i \in DOMAIN shown : HasPill(shown[i])}}
    IN IF pills = {} THEN bounds ELSE [bounds EXCEPT !.w = @ + PillGap(card) + Max(pills)]

Filled(card, lod, hidden, bounds, window, m, shown, rows, top, height) ==
    [id |-> card.id, bounds |-> bounds,
     header |-> Line(bounds, bounds.y + 4,
                     IF IsSummary(card) /\ ~IsStub(card, lod) THEN m.row ELSE m.header),
     rows |-> rows,
     regions |-> Regions(card, lod, hidden, bounds, m, shown, rows, top + height),
     visibility |-> Visible(card, bounds, shown),
     viewport |-> IF IsStub(card, lod) THEN None
                  ELSE [first |-> window.first, end |-> window.end,
                        total |-> Len(card.rows), bounds |-> Line(bounds, top, height)]]
Stacked(card, lod, hidden, bounds, window, m, shown, top) ==
    Filled(card, lod, hidden, bounds, window, m, shown,
           RowBoxes(card, lod, bounds, window, m, shown, top), top,
           RowsHeight(card, window, m, Len(shown)))
Framed(card, lod, hidden, bounds, window, m) ==
    Stacked(card, lod, hidden, bounds, window, m, ShownOf(card, lod, window),
            RowsTop(card, hidden, bounds, m))
CardGeometry(card, position, lod, hidden, offset) ==
    Framed(card, lod, hidden, Box(position, CardSize(card, lod, Len(hidden), offset)),
           RowWindow(card, lod, offset), CardMetrics(card, lod))

\* The thumb beside the rows, over what was loaded.
Loaded(card) == IF card.loaded = None THEN Len(card.rows) ELSE High(Len(card.rows), card.loaded)
Before(card) == IF Loaded(card) > Len(card.rows) /\ card.first # None THEN card.first ELSE 0
Bar(top, height, thumb, first, maximum) ==
    [trackTop |-> top, trackHeight |-> height, thumbHeight |-> thumb,
     thumbTop |-> top + ((height - thumb) * first) \div High(1, maximum)]
Sized(card, view, top, height, visible, maximum) ==
    Bar(top, height, Low(height, High(18, (height * visible) \div High(1, Loaded(card)))),
        Low(maximum, High(0, Before(card) + view.first)), maximum)
RowScrollbar(card, geometry) ==
    LET view == geometry.viewport
        visible == Len(geometry.rows)
    IN IF view = None THEN None
       ELSE IF view.bounds.h <= 0 \/ (card.first = None /\ view.total <= visible) THEN None
       ELSE Sized(card, view, view.bounds.y - geometry.bounds.y + 2, High(3, view.bounds.h - 4),
                  visible, High(0, Loaded(card) - visible))

\* From the row, or what stands for it, to the header of the other card.
RowOf(card, member) == SelectSeq(card.rows, LAMBDA r : r.member = member)
StripOf(card, member) ==
    SelectSeq(card.regions, LAMBDA r : r.target = <<"boundary", card.id, member>>)
StartBox(source, rows, strips, lod) ==
    CASE lod # "overview" /\ rows # <<>> -> rows[1].bounds
      [] lod # "overview" /\ rows = <<>> /\ strips # <<>> -> strips[1].bounds
      [] OTHER -> source.header
Distance(a, b) == High(a - b, b - a)
Curve(id, from, to, hidden, bend) ==
    [id |-> id, source |-> from, target |-> to, hidden |-> hidden,
     bounds |-> Rect(Low(from.x, to.x - bend), Low(from.y, to.y) - 2,
                     High(to.x, from.x + bend) - Low(from.x, to.x - bend),
                     Distance(from.y, to.y) + 4)]
Curved(id, from, to, hidden) ==
    Curve(id, from, to, hidden, High(40, Distance(to.x, from.x) \div 2))
ConnectionGeometry(c, source, target, lod) ==
    LET start == StartBox(source, RowOf(source, c.member), StripOf(source, c.member), lod)
    IN Curved(c.id, [x |-> Right(source.bounds), y |-> start.y + start.h \div 2],
              [x |-> target.bounds.x, y |-> target.header.y + target.header.h \div 2],
              lod # "overview" /\ RowOf(source, c.member) = <<>>)

\* The last region of the last card: what is drawn above the others.
HitTest(geometries, p) ==
    LET regions(g) == Append(SelectSeq(Reverse(g.regions), LAMBDA r : Covers(r.bounds, p)),
                             Region(g.bounds, <<"header", g.id>>))
        hit(g) == Covers(g.bounds, p) \/ \E r \in ToSet(g.regions) : Covers(r.bounds, p)
        under == SelectSeq(Reverse(geometries), hit)
    IN IF under = <<>> THEN None ELSE regions(under[1])[1].target

-----------------------------------------------------------------------------
(* The arrangement: a column per depth of containment, cards with a position
   where they are, the others below one another and below what is in the way. *)

PillsOf(card) ==
    {PillGap(card) + PillWidth(card, card.rows[i]) :
        i \in {i \in DOMAIN card.rows : HasPill(card.rows[i])}}
LayoutSize(card, lod, hidden) ==
    LET size == CardSize(card, lod, hidden, 0)
    IN IF lod = "overview" \/ card.collapsed \/ PillsOf(card) = {} THEN size
       ELSE [size EXCEPT !.w = @ + Max(PillsOf(card))]

Children(model, ids) ==
    UNION {{c.target : c \in {c \in ToSet(model.connections) :
                c.kind = "containment" /\ c.source = id}} : id \in ids}
    \cap {card.id : card \in ToSet(model.cards)}

\* Breadth first from the cards inside no other, then from what is in a circle.
Levels(model, from, seen) ==
    LET at[n \in 0..Len(model.cards)] ==
            IF n = 0 THEN from \ seen
            ELSE Children(model, at[n - 1]) \ (seen \cup UNION {at[k] : k \in 0..n - 1})
    IN at
Visit(model, depth, from) ==
    LET at == Levels(model, from, DOMAIN depth)
    IN [id \in DOMAIN depth \cup UNION {at[n] : n \in DOMAIN at} |->
            IF id \in DOMAIN depth THEN depth[id] ELSE CHOOSE n \in DOMAIN at : id \in at[n]]
Depth(model) ==
    LET ids == {card.id : card \in ToSet(model.cards)}
    IN FoldLeft(LAMBDA depth, from : Visit(model, depth, from), Nothing,
                <<ids \ Children(model, ids)>>
                \o [i \in DOMAIN model.cards |-> {model.cards[i].id}])

\* Down to where nothing is in the way.
RECURSIVE Settled(_, _)
Settled(occupied, r) ==
    LET hits == IndexQuery(occupied, [r EXCEPT !.h = @ + GapY]) IN
    IF hits = <<>> THEN r
    ELSE Settled(occupied, [r EXCEPT !.y = Bottom(hits[1].bounds) + GapY])

Column(n, depth, sizes) ==
    300 + SumFunction([k \in 0..n - 1 |->
              GapX + Max({0} \cup {sizes[id].w : id \in {id \in DOMAIN sizes : depth[id] = k}})])

\* Cards with a position are in the way of those without, whose turn it is in order.
SettledAt(acc, id, n, r) ==
    [positions |-> With(acc.positions, id, [x |-> r.x, y |-> r.y]),
     occupied |-> IndexSet(acc.occupied, id, r),
     bottoms |-> With(acc.bottoms, n, Bottom(r) + GapY)]
Place(acc, card, depth, sizes) ==
    LET n == depth[card.id]
        top == [x |-> Column(n, depth, sizes),
                y |-> IF n \in DOMAIN acc.bottoms THEN acc.bottoms[n] ELSE 110]
    IN IF card.position # None
       THEN [acc EXCEPT !.positions = With(@, card.id, card.position)]
       ELSE SettledAt(acc, card.id, n, Settled(acc.occupied, Box(top, sizes[card.id])))
Arranged(model, depth, sizes) ==
    LET keep(index, card) == IndexSet(index, card.id, Box(card.position, sizes[card.id]))
        fixed == SelectSeq(model.cards, LAMBDA card : card.position # None)
    IN FoldLeft(LAMBDA acc, card : Place(acc, card, depth, sizes),
                [positions |-> Nothing, bottoms |-> Nothing,
                 occupied |-> FoldLeft(keep, EmptyIndex, fixed)], model.cards).positions
LayoutCards(model, lod, hidden) ==
    Arranged(model, Depth(model),
             [id \in {card.id : card \in ToSet(model.cards)} |->
                 LayoutSize(CHOOSE card \in ToSet(model.cards) : card.id = id, lod,
                            Len(hidden[id]))])
=============================================================================
