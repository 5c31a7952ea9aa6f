------------------------------ MODULE Pointer ------------------------------
(***************************************************************************)
(* Pointer capture (tui/drag.go), the floating panel of a plugin           *)
(* (ui/plugin_viewport.go over widget/modal.go) and the routing of         *)
(* tui/app.go and ui/shell.go between the panel and the widget under it.   *)
(*                                                                         *)
(* A press that starts a drag owns every pointer event until the release.  *)
(* A plugin may reopen its panel at any moment: the new panel takes over   *)
(* the place of the old one, but a drag in progress still moves the old.   *)
(***************************************************************************)
EXTENDS Integers, FiniteSetsExt

CONSTANTS
  Screens,   \* the sizes of the terminal, as <<w, h>>
  PanelHeights,   \* the heights a plugin's lines ask for
  Width,     \* the width of a new panel (54 in the code)
  Points,    \* the cells the pointer visits
  Nil

VARIABLES
  avail,  \* the size of the screen
  panel,  \* the panel, or Nil
  lastDrawn,   \* its rectangle in the last frame
  dragged,   \* the drag that owns the pointer, or Nil
  finished,  \* FALSE from a cancelled drag to the next frame
  due   \* a frame is due before the next event
panelVars == <<avail, panel, lastDrawn, dragged, finished, due>>

Sizes == Nat \ {0, 1}
PanelStates == [w : Sizes, h : Sizes, x : Nat, y : Nat, placed : BOOLEAN, collapsed : BOOLEAN, kept : BOOLEAN]
Rects == [x : Nat, y : Nat, w : Nat, h : Nat]
Drags == [kind : {"move", "resize", "under"}, at : Int \X Int, from : Int \X Int, live : BOOLEAN,
          was : Rects, on : Nat \X Nat]

ASSUME PanelAssumption ==
  /\ Screens \subseteq Nat \X Nat /\ Points \subseteq Int \X Int
  /\ Width \in Sizes /\ PanelHeights \subseteq Sizes
  /\ Nil \notin PanelStates /\ Nil \notin Drags /\ Nil \notin Nat \X Nat

Nowhere == [x |-> 0, y |-> 0, w |-> 0, h |-> 0]

\* clampInt: an upper bound of 0 is none, so what fills the screen may be moved off it.
Within(v, lo, hi) == IF v < lo THEN lo ELSE IF hi > 0 /\ v > hi THEN hi ELSE v

inside(r, p) == p[1] >= r.x /\ p[2] >= r.y /\ p[1] < r.x + r.w /\ p[2] < r.y + r.h

(* ------------------------------- the modal ----------------------------- *)

NewPanel(h) == [w |-> Width, h |-> h, x |-> 0, y |-> 0, placed |-> FALSE, collapsed |-> FALSE, kept |-> FALSE]

\* Modal.Bounds: where the panel is drawn on a screen of this size.
Bounds(p, s) ==
  LET width == Min({p.w, s[1]})
      full == Min({p.h, s[2]})
      height == IF p.collapsed THEN Min({1, s[2]}) ELSE full
      x == IF p.placed THEN p.x ELSE Max({(s[1] - width) \div 2, 0})
      y == IF p.placed THEN p.y ELSE Max({(s[2] - full) \div 2, 0})
  IN [x |-> Within(x, 0, s[1] - width), y |-> Within(y, 0, s[2] - height), w |-> width, h |-> height]

SetSize(p, w, h) == [p EXCEPT !.w = Max({w, 2}), !.h = Max({h, 2})]

\* The screen is the one of the panel's last frame; a panel never drawn has none.
SetPosition(p, x, y, s) ==
  [p EXCEPT !.placed = TRUE,
            !.x = IF s = Nil THEN Max({x, 0}) ELSE Within(x, 0, Max({s[1] - p.w, 0})),
            !.y = IF s = Nil THEN Max({y, 0}) ELSE Within(y, 0, Max({s[2] - p.h, 0}))]

PanelToggle == [x |-> lastDrawn.x + lastDrawn.w - 4, y |-> lastDrawn.y, w |-> 3, h |-> 1]
OnPanelToggle(pt) == lastDrawn.w >= 5 /\ inside(PanelToggle, pt)
OnTitle(pt) == pt[2] = lastDrawn.y /\ pt[1] \in lastDrawn.x..(lastDrawn.x + lastDrawn.w - 1) /\ ~OnPanelToggle(pt)
OnCorner(pt) == ~panel.collapsed /\ pt = <<lastDrawn.x + lastDrawn.w - 1, lastDrawn.y + lastDrawn.h - 1>>

(* -------------------------------- opening ------------------------------ *)

\* OpenPluginViewport over the panel that is already there.
Reopen(old, h) ==
  LET new == NewPanel(h)
      size == IF old.kept THEN [SetSize(new, old.w, old.h) EXCEPT !.kept = TRUE] ELSE new
  IN IF old = Nil \/ lastDrawn.w = 0 THEN new
     ELSE [SetPosition(size, lastDrawn.x, lastDrawn.y, Nil) EXCEPT !.collapsed = old.collapsed]

\* A plugin's posted call opens or refreshes its panel: the one being dragged
\* is no longer the one on the screen.
OpenPluginViewport(h) ==
  /\ panel' = Reopen(panel, h) /\ lastDrawn' = Nowhere /\ due' = TRUE
  /\ dragged' = IF dragged = Nil THEN Nil ELSE [dragged EXCEPT !.live = FALSE]
  /\ UNCHANGED <<avail, finished>>

(* ------------------------------- the pointer --------------------------- *)

\* The drag a press on the panel starts: its title bar moves it, its lower right
\* corner resizes it.
Handles(pt) ==
  (IF OnTitle(pt) THEN {[kind |-> "move", at |-> pt, from |-> <<lastDrawn.x, lastDrawn.y>>, live |-> TRUE, was |-> lastDrawn, on |-> avail]} ELSE {})
  \cup (IF ~OnTitle(pt) /\ OnCorner(pt)
        THEN {[kind |-> "resize", at |-> pt, from |-> <<panel.w, panel.h>>, live |-> TRUE, was |-> lastDrawn, on |-> avail]} ELSE {})

OnPanel(pt) == panel # Nil /\ inside(lastDrawn, pt)

\* A press with the left button while nothing is dragged.
Grab(pt) ==
  /\ ~due /\ dragged = Nil /\ inside([x |-> 0, y |-> 0, w |-> avail[1], h |-> avail[2]], pt)
  /\ \/ /\ OnPanel(pt) /\ \E op \in Handles(pt) : dragged' = op
        /\ UNCHANGED panel
     \/ /\ OnPanel(pt) /\ Handles(pt) = {}
        /\ panel' = IF OnPanelToggle(pt) THEN [panel EXCEPT !.collapsed = ~@] ELSE panel
        /\ UNCHANGED dragged
     \/ /\ ~OnPanel(pt)
        /\ dragged' = [kind |-> "under", at |-> pt, from |-> pt, live |-> TRUE, was |-> lastDrawn, on |-> avail]
        /\ UNCHANGED panel
  /\ due' = TRUE /\ UNCHANGED <<avail, lastDrawn, finished>>

\* Mutant: each motion starts from where the last frame drew the panel.
MovedFromLast(p, op, pt) ==
  LET d == <<pt[1] - op.at[1], pt[2] - op.at[2]>>
  IN IF op.kind = "move" THEN SetPosition(p, lastDrawn.x + d[1], lastDrawn.y + d[2], avail)
     ELSE SetSize(p, op.from[1] + d[1], op.from[2] + d[2])

\* The delta is that from the press.
Moved(p, op, pt) ==
  LET d == <<pt[1] - op.at[1], pt[2] - op.at[2]>>
  IN IF op.kind = "move" THEN SetPosition(p, op.from[1] + d[1], op.from[2] + d[2], avail)
     ELSE SetSize(p, op.from[1] + d[1], op.from[2] + d[2])

\* The panel of the screen follows only the drag that started on it.
OnItsPanel == dragged.live /\ dragged.kind # "under"

Motion(pt) ==
  /\ ~due /\ dragged # Nil
  /\ panel' = IF OnItsPanel THEN Moved(panel, dragged, pt) ELSE panel
  /\ due' = TRUE /\ UNCHANGED <<avail, lastDrawn, dragged, finished>>

\* DragEnd without a commit puts things back as they were at the press.
PutBack(p, op) ==
  IF op.kind = "move" THEN SetPosition(p, op.from[1], op.from[2], avail) ELSE SetSize(p, op.from[1], op.from[2])

Committed(p, op) == IF op.kind = "resize" THEN [p EXCEPT !.kept = TRUE] ELSE p

\* The release commits the drag, Escape cancels it; either way it is over.
End(commit) ==
  /\ ~due /\ dragged # Nil
  /\ panel' = IF ~OnItsPanel THEN panel ELSE IF commit THEN Committed(panel, dragged) ELSE PutBack(panel, dragged)
  /\ dragged' = Nil /\ finished' = commit
  /\ due' = TRUE /\ UNCHANGED <<avail, lastDrawn>>

(* ------------------------------- the frame ----------------------------- *)

DrawPanel ==
  /\ due /\ due' = FALSE
  /\ lastDrawn' = IF panel = Nil THEN Nowhere ELSE Bounds(panel, avail)
  /\ finished' = TRUE /\ UNCHANGED <<avail, panel, dragged>>

ResizeScreen ==
  /\ \E s \in Screens : s # avail /\ avail' = s
  /\ due' = TRUE /\ UNCHANGED <<panel, lastDrawn, dragged, finished>>

PanelInit ==
  /\ avail \in Screens /\ panel = Nil /\ lastDrawn = Nowhere /\ dragged = Nil
  /\ finished = TRUE /\ due = TRUE

PanelNext ==
  \/ DrawPanel \/ ResizeScreen
  \/ \E h \in PanelHeights : OpenPluginViewport(h)
  \/ \E pt \in Points : Grab(pt) \/ Motion(pt)
  \/ \E commit \in BOOLEAN : End(commit)

PanelSpec == PanelInit /\ [][PanelNext]_panelVars

(* ------------------------------ properties ----------------------------- *)

PanelTypeOK ==
  /\ avail \in Screens /\ panel \in PanelStates \cup {Nil} /\ lastDrawn \in Rects
  /\ dragged \in Drags \cup {Nil} /\ finished \in BOOLEAN /\ due \in BOOLEAN

\* What the pointer hits is what the panel's state says: the frame is up to date
\* when an event is handled.
FrameFresh == ~due /\ panel # Nil => lastDrawn = Bounds(panel, avail)

\* A place that needs no clamping.
Fits(v, hi) == hi > 0 => v <= hi

\* A drag of the panel of the screen keeps the size the panel had, or the place.
GrabKept ==
  dragged # Nil /\ OnItsPanel =>
    /\ panel # Nil
    /\ dragged.kind = "move" =>
         /\ dragged.from = <<dragged.was.x, dragged.was.y>>
         /\ Bounds(panel, dragged.on).w = dragged.was.w /\ Bounds(panel, dragged.on).h = dragged.was.h
         /\ Fits(dragged.was.x, dragged.on[1] - dragged.was.w) /\ Fits(dragged.was.y, dragged.on[2] - dragged.was.h)
    /\ dragged.kind = "resize" =>
         /\ dragged.from \in Sizes \X Sizes
         /\ Bounds([panel EXCEPT !.w = dragged.from[1], !.h = dragged.from[2]], dragged.on) = dragged.was

\* The inductive invariant.
PanelInv == PanelTypeOK /\ FrameFresh /\ GrabKept

\* Escape in the middle of a drag of the open panel puts it back where the press
\* found it, unless the terminal was resized meanwhile. (A collapsed panel is put
\* back no lower than its full height allows.)
CancelPutsBack ==
  [][dragged # Nil /\ dragged' = Nil /\ ~finished' /\ OnItsPanel /\ dragged.on = avail /\ ~panel.collapsed =>
       Bounds(panel', avail) = dragged.was]_panelVars

\* While the title bar is dragged, the cell that was grabbed stays under the pointer, up to
\* the edges of a screen that is larger than the panel.
DragFollows ==
  [][dragged # Nil /\ dragged.kind = "move" /\ OnItsPanel /\ ~panel.collapsed =>
       \A pt \in Points : Motion(pt) =>
       LET b == Bounds(panel', avail)
       IN /\ b.x = Within(dragged.from[1] + pt[1] - dragged.at[1], 0, avail[1] - b.w)
          /\ b.y = Within(dragged.from[2] + pt[2] - dragged.at[2], 0, avail[2] - b.h)]_panelVars

\* A plugin that refreshes a panel the user has sized leaves it where and as it
\* was drawn, collapsed or not.
RefreshKeepsPlace ==
  [][panel # Nil /\ panel' # Nil /\ lastDrawn.w > 0 /\ lastDrawn' = Nowhere /\ panel.kept /\ dragged = Nil /\ ~due =>
       Bounds(panel', avail) = lastDrawn]_panelVars

\* A drag moves and resizes a plugin's panel by what the pointer moved, its cancellation puts
\* the panel back, and a refresh of its contents leaves it where the user put it
\* (ui/plugin_viewport.go, tui/widget/draggable.go).
Panels == CancelPutsBack /\ DragFollows /\ RefreshKeepsPlace
=============================================================================
