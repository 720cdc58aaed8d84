------------------------------ MODULE BoardGestures ------------------------------
(***************************************************************************)
(* The gestures on the editor's board: fingers that press, drag cards and   *)
(* fields, pan and pinch; the wheel; keys; renaming in place; and the model *)
(* and the viewport that the editor changes meanwhile.                       *)
(*                                                                         *)
(* The board is a line.  What stands at a place of it is a card's header or *)
(* a field; the viewport is an offset: zooming moves the same number.       *)
(***************************************************************************)
EXTENDS Integers, FiniteSets

CONSTANTS
    Fingers,
    Places,         \* points of the screen, and places of the board
    Item,           \* Item[w]: what stands at the place w: [kind, card, field]
    Branch(_),      \* the card that shows the inside of a field, or None
    None,
    MaxModels,      \* bound: models that the editor sets
    Reach           \* bound: offsets of the viewport are within -Reach..Reach

Offsets == -Reach..Reach
Fields == {Item[w].field : w \in Places} \ {None}

VARIABLES
    viewport, told,     \* the offset, and the one that was announced last
    loose,              \* history: a cancelled gesture put back what was not announced
    wheel,              \* a wheel's move that is not announced yet
    pointers,           \* pointers[f]: where the finger f is, or None
    gesture, pinch, space,
    preview,            \* what is shown of a drag: "none", "card" or "field"
    fields, opened,     \* fields of the model, and fields whose branch it shows
    models,
    selected, renamed,  \* the selected field and the one whose name is being typed
    emitted,            \* what the last event asked the editor for
    disposed

model == <<fields, opened, models>>
vars == <<viewport, told, loose, wheel, pointers, gesture, pinch, space, preview, model,
          selected, renamed, emitted, disposed>>

Down == {f \in Fingers : pointers[f] # None}
Quiet == [kind |-> "none"]
Present(item) == item.kind # "background" /\ (item.field # None => item.field \in fields)
At(point) ==
    LET w == point - viewport IN
    IF w \in Places /\ Present(Item[w]) THEN Item[w]
    ELSE [kind |-> "background", card |-> None, field |-> None]

Init ==
    /\ viewport = 0 /\ told = 0
    /\ loose = FALSE /\ wheel = FALSE
    /\ pointers = [f \in Fingers |-> None]
    /\ gesture = None /\ pinch = None
    /\ space = FALSE
    /\ preview = "none"
    /\ fields = Fields /\ opened = {} /\ models = 0
    /\ selected = None /\ renamed = None
    /\ emitted = Quiet
    /\ disposed = FALSE

\* emit of viewportChange.
Tell == told' = viewport' /\ loose' = FALSE
\* flushWheel.  Mutant: what is pending is dropped.
FlushNothing == wheel' = FALSE /\ UNCHANGED <<told, loose>>
Flush ==
    /\ wheel' = FALSE
    /\ IF wheel THEN told' = viewport /\ loose' = FALSE ELSE UNCHANGED <<told, loose>>

\* cancel of pointerController: a pan or a pinch is undone.
Cancelled ==
    /\ pointers' = [f \in Fingers |-> None]
    /\ gesture' = None /\ pinch' = None
    /\ space' = FALSE
    /\ preview' = "none"
    /\ viewport' = IF pinch # None THEN pinch.viewport
                   ELSE IF gesture # None /\ gesture.kind = "pan" THEN gesture.viewport
                   ELSE viewport

\* Whether a cancelled gesture leaves an offset that was not announced.
Loosened ==
    loose' = (loose \/ (viewport' # told /\ (pinch # None \/ (gesture # None /\ gesture.kind = "pan"))))

-----------------------------------------------------------------------------
(* Fingers                                                                  *)

Sum == LET f == CHOOSE f \in Down : TRUE
           g == CHOOSE g \in Down : g # f IN pointers[f] + pointers[g]

PointerDown(f, point) ==
    /\ ~ disposed
    /\ pointers[f] = None
    /\ Flush
    /\ renamed' = None
    /\ pointers' = [pointers EXCEPT ![f] = point]
    /\ emitted' = Quiet
    /\ LET item == At(point) IN
       CASE Cardinality(Down) = 0 ->
               /\ gesture' = [finger |-> f, start |-> point, viewport |-> viewport, item |-> item,
                              kind |-> IF item.kind = "background" \/ space THEN "pan"
                                       ELSE item.kind,
                              moved |-> FALSE, blocked |-> None]
               /\ UNCHANGED <<pinch, preview>>
         [] Cardinality(Down) = 1 ->
               LET other == CHOOSE g \in Down : TRUE IN
               /\ gesture' = None
               /\ preview' = "none"
               /\ pinch' = [viewport |-> viewport, sum |-> pointers[other] + point]
         [] OTHER -> UNCHANGED <<gesture, pinch, preview>>
    /\ UNCHANGED <<viewport, space, model, selected, disposed>>

\* memberDropAt: the first drag over a target works out what lies inside the dragged field,
\* and the gesture remembers it.
BlockedCards(g) ==
    IF g.blocked # None THEN g.blocked
    ELSE IF g.item.field \in opened THEN {Branch(g.item.field)} ELSE {}
Drop(g, point) ==
    LET item == At(point) IN
    IF item.kind = "background" \/ g.item.field \notin fields \/ item.field = g.item.field
       \/ item.card \in BlockedCards(g)
    THEN Quiet ELSE [kind |-> "field", field |-> g.item.field, card |-> item.card]
Remembered(g, point) ==
    IF At(point).kind = "background" THEN g ELSE [g EXCEPT !.blocked = BlockedCards(g)]

PointerMove(f, point) ==
    /\ ~ disposed
    /\ pointers[f] # None /\ pointers[f] # point
    /\ pointers' = [pointers EXCEPT ![f] = point]
    /\ emitted' = Quiet
    /\ IF pinch # None
       THEN LET sum == Sum - pointers[f] + point IN
            /\ Cardinality(Down) = 2
            /\ pinch.viewport + sum - pinch.sum \in Offsets
            /\ viewport' = pinch.viewport + sum - pinch.sum
            /\ UNCHANGED <<gesture, preview>>
       ELSE IF gesture = None \/ gesture.finger # f
       THEN UNCHANGED <<viewport, gesture, preview>>
       ELSE LET g == [gesture EXCEPT !.moved = @ \/ point # gesture.start] IN
            CASE g.kind = "pan" ->
                    /\ g.viewport + point - g.start \in Offsets
                    /\ viewport' = IF g.moved THEN g.viewport + point - g.start ELSE viewport
                    /\ gesture' = g
                    /\ UNCHANGED preview
              [] g.kind = "header" ->
                    preview' = "card" /\ gesture' = g /\ UNCHANGED viewport
              [] g.kind = "row" ->
                    /\ preview' = "field"
                    /\ gesture' = Remembered(g, point)
                    /\ UNCHANGED viewport
    /\ UNCHANGED <<told, loose, wheel, pinch, space, model, selected, renamed, disposed>>

PointerUp(f) ==
    /\ ~ disposed
    /\ pointers[f] # None
    /\ IF pinch # None
       THEN /\ pinch' = None
            /\ pointers' = [g \in Fingers |-> None]
            /\ emitted' = Quiet
            /\ told' = viewport /\ loose' = FALSE
            /\ UNCHANGED <<gesture, preview, selected>>
       ELSE /\ pointers' = [pointers EXCEPT ![f] = None]
            /\ IF gesture = None \/ gesture.finger # f
               THEN /\ emitted' = Quiet
                    /\ UNCHANGED <<gesture, preview, selected, told, loose>>
               ELSE /\ gesture' = None
                    /\ preview' = "none"
                    /\ IF gesture.kind = "pan" /\ gesture.moved
                       THEN told' = viewport /\ loose' = FALSE ELSE UNCHANGED <<told, loose>>
                    /\ emitted' = CASE ~ gesture.moved -> Quiet
                                    [] gesture.kind = "header" ->
                                          [kind |-> "card", card |-> gesture.item.card]
                                    [] gesture.kind = "row" -> Drop(gesture, pointers[f])
                                    [] OTHER -> Quiet
                    /\ selected' = IF ~ gesture.moved /\ ~ space /\ At(pointers[f]) = gesture.item
                                   THEN gesture.item.field ELSE selected
            /\ UNCHANGED pinch
    /\ UNCHANGED <<viewport, wheel, space, model, renamed, disposed>>

\* pointercancel, lostpointercapture and Escape.
Cancel ==
    /\ ~ disposed
    /\ Cancelled
    /\ Loosened
    /\ emitted' = Quiet
    /\ UNCHANGED <<told, wheel, model, selected, renamed, disposed>>

-----------------------------------------------------------------------------
(* The wheel and the keys                                                   *)

Wheel(v) ==
    /\ ~ disposed
    /\ Down = {}
    /\ v # viewport
    /\ viewport' = v
    /\ wheel' = TRUE
    /\ emitted' = Quiet
    /\ UNCHANGED <<told, loose, pointers, gesture, pinch, space, preview, model, selected,
                   renamed, disposed>>

WheelTimer ==
    /\ wheel
    /\ Flush
    /\ emitted' = Quiet
    /\ UNCHANGED <<viewport, pointers, gesture, pinch, space, preview, model, selected, renamed,
                   disposed>>

Space(pressed) ==
    /\ ~ disposed
    /\ space' = pressed
    /\ emitted' = Quiet
    /\ UNCHANGED <<viewport, told, loose, wheel, pointers, gesture, pinch, preview, model,
                   selected, renamed, disposed>>

\* Arrows, Home and End: another field is selected and moved into view.
Select(field) ==
    /\ ~ disposed
    /\ Down = {}
    /\ field \in fields
    /\ selected' = field
    /\ \E w \in Places : Item[w].field = field /\
          IF w + viewport \in Places THEN UNCHANGED <<viewport, told, loose>>
          ELSE /\ \E v \in Offsets : w + v \in Places /\ viewport' = v
               /\ Tell
    /\ emitted' = Quiet
    /\ UNCHANGED <<wheel, pointers, gesture, pinch, space, preview, model, renamed, disposed>>

\* F2 and the double click.
OpenRename(field) ==
    /\ ~ disposed
    /\ Down = {}
    /\ field \in fields
    /\ renamed' = field
    /\ emitted' = Quiet
    /\ UNCHANGED <<viewport, told, loose, wheel, pointers, gesture, pinch, space, preview, model,
                   selected, disposed>>

CloseRename(confirmed) ==
    /\ renamed # None
    /\ renamed' = None
    /\ emitted' = IF confirmed THEN [kind |-> "rename", field |-> renamed] ELSE Quiet
    /\ UNCHANGED <<viewport, told, loose, wheel, pointers, gesture, pinch, space, preview, model,
                   selected, disposed>>

-----------------------------------------------------------------------------
(* The editor                                                               *)

\* modelChanged: renaming and dragging end with what they are about, and what the gesture
\* remembered of the branches is forgotten.  Mutant: it stays.
Kept(g) == g
Reset(g) == [g EXCEPT !.blocked = None]
SetModel(present, shown) ==
    /\ ~ disposed
    /\ models < MaxModels
    /\ models' = models + 1
    /\ fields' = present
    /\ opened' = shown
    /\ emitted' = Quiet
    /\ renamed' = IF renamed \in present THEN renamed ELSE None
    /\ selected' = IF selected \in present THEN selected ELSE None
    /\ IF gesture # None /\ gesture.item.field # None /\ gesture.item.field \notin present
       THEN Cancelled /\ Loosened
       ELSE /\ gesture' = IF gesture = None THEN None ELSE Reset(gesture)
            /\ UNCHANGED <<viewport, loose, pointers, pinch, space, preview>>
    /\ UNCHANGED <<told, wheel, disposed>>

\* publishViewport: fitAll, zoomTo and set.
Publish(v) ==
    /\ ~ disposed
    /\ v # viewport
    /\ viewport' = v
    /\ Tell
    /\ emitted' = Quiet
    /\ UNCHANGED <<wheel, pointers, gesture, pinch, space, preview, model, selected, renamed,
                   disposed>>

\* The board or its window loses the focus.
Blur ==
    /\ ~ disposed
    /\ Cancelled
    /\ wheel' = FALSE
    /\ IF wheel THEN Tell ELSE Loosened /\ UNCHANGED told
    /\ renamed' = None
    /\ emitted' = Quiet
    /\ UNCHANGED <<model, selected, disposed>>

Destroy ==
    /\ ~ disposed
    /\ disposed' = TRUE
    /\ Cancelled
    /\ wheel' = FALSE
    /\ renamed' = None
    /\ emitted' = Quiet
    /\ UNCHANGED <<told, loose, model, selected>>

Next ==
    \/ \E f \in Fingers :
          (\E point \in Places : PointerDown(f, point) \/ PointerMove(f, point)) \/ PointerUp(f)
    \/ Cancel
    \/ \E v \in Offsets : Wheel(v) \/ Publish(v)
    \/ WheelTimer
    \/ \E pressed \in BOOLEAN : Space(pressed)
    \/ \E field \in fields : Select(field) \/ OpenRename(field)
    \/ \E confirmed \in BOOLEAN : CloseRename(confirmed)
    \/ \E present \in SUBSET Fields : \E shown \in SUBSET {x \in present : Branch(x) # None} :
          SetModel(present, shown)
    \/ Blur \/ Destroy

Spec == Init /\ [][Next]_vars

-----------------------------------------------------------------------------
\* When no finger is down nothing is dragged, panned, pinched or shown as dragged; and a
\* finger that drags is one that is down (pointerController.ts:39-78, 200-287).
GesturesEnd ==
    /\ Down = {} => gesture = None /\ pinch = None /\ preview = "none"
    /\ gesture # None => pointers[gesture.finger] # None /\ pinch = None
    /\ disposed => Down = {} /\ renamed = None

\* What is dragged, renamed or asked for is there: the editor takes fields away at any time
\* (pointerController.ts:329-349, renameController.ts:46-58).
HeldIsThere ==
    /\ gesture # None /\ gesture.item.field # None => gesture.item.field \in fields
    /\ renamed # None => renamed \in fields
    /\ emitted.kind \in {"field", "rename"} => emitted.field \in fields

\* A field is never dropped inside itself, although its branch may be opened while it is
\* dragged (memberDrop.ts:50-77).
DropsOutside ==
    emitted.kind = "field" /\ emitted.field \in opened => emitted.card # Branch(emitted.field)

\* When the board is at rest, the viewport is the one it announced; except that a cancelled
\* pan or pinch puts back the viewport it began with, which may not have been announced: the
\* pan had become a pinch, or the editor had moved the viewport meanwhile
\* (viewportController.ts:24-34, pointerController.ts:49-78).
ViewportTold == ~ disposed /\ Down = {} /\ ~ wheel /\ ~ loose => viewport = told

GesturesHold == GesturesEnd /\ HeldIsThere /\ DropsOutside
=============================================================================
