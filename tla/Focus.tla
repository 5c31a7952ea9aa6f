------------------------------- MODULE Focus -------------------------------
(***************************************************************************)
(* The keyboard focus ring of tui/focus.go and the routing of tui/app.go   *)
(* that drives it: the ring a frame rebuilds, the owner, the visit history *)
(* behind Alt+Left and Alt+Right, and what the root widget is told.        *)
(*                                                                         *)
(* The ring belongs to the last frame. An event may hide or disable a      *)
(* widget, and until the next frame the ring still lists it.               *)
(***************************************************************************)
EXTENDS Integers, SequencesExt, FiniteSetsExt

CONSTANTS
  Tree,         \* the focusable widgets in tree order
  Preferred,    \* the widgets that take the initial focus
  Paths,        \* the widgets under each place of the screen, outermost first
  HistoryLimit, \* focusHistoryLimit
  None

VARIABLES
  shown,  \* the widgets with a visible rectangle in the next frame
  able,   \* the widgets whose CanFocus says yes
  sized,  \* the screen has any cells
  hits,   \* the widgets the last frame laid out
  m,      \* the FocusManager, and the owner the root was last told of
  dirty   \* a frame is due before the next event
vars == <<shown, able, sized, hits, m, dirty>>

Widgets == ToSet(Tree)
Manager == [ring : Seq(Widgets), current : Nat, history : Seq(Widgets), cursor : Nat,
            told : Widgets \cup {None}]

index(f, w) == SelectInSeq(f.ring, LAMBDA x : x = w)
Focused(f) == IF f.current \in 1..Len(f.ring) THEN f.ring[f.current] ELSE None

(* ------------------------------- the manager --------------------------- *)

\* The root is not told when a frame keeps the owner.
notify(f, prev, w, passive) == IF prev = w /\ passive THEN f ELSE [f EXCEPT !.told = w]

\* A visit replaces those the cursor had gone back over.
recordVisit(f, w) ==
  IF f.cursor \in 1..Len(f.history) /\ f.history[f.cursor] = w THEN f
  ELSE LET long == Append(SubSeq(f.history, 1, f.cursor), w)
           kept == SubSeq(long, Max({1, Len(long) - HistoryLimit + 1}), Len(long))
       IN [f EXCEPT !.history = kept, !.cursor = Len(kept)]

pruneHistory(f) ==
  LET listed(w) == w \in ToSet(f.ring)
  IN [f EXCEPT !.history = SelectSeq(f.history, listed),
               !.cursor = Len(SelectSeq(SubSeq(f.history, 1, f.cursor), listed))]

Own(f, i, passive) == notify(recordVisit([f EXCEPT !.current = i], f.ring[i]), Focused(f), f.ring[i], passive)

\* Mutant: a frame always starts from the first or the preferred widget.
ReplaceAfresh(f, widgets) ==
  LET g == pruneHistory([f EXCEPT !.ring = widgets, !.current = 0])
      wanted == SelectInSeq(widgets, LAMBDA w : w \in Preferred)
      next == IF wanted > 0 THEN wanted ELSE 1
  IN IF widgets = <<>> THEN notify(g, Focused(f), None, TRUE)
     ELSE notify(recordVisit([g EXCEPT !.current = next], widgets[next]), Focused(f), widgets[next], TRUE)

Replace(f, widgets) ==
  LET g == pruneHistory([f EXCEPT !.ring = widgets, !.current = 0])
      kept == index(g, Focused(f))
      wanted == SelectInSeq(widgets, LAMBDA w : w \in Preferred)
      next == IF kept > 0 THEN kept ELSE IF wanted > 0 THEN wanted ELSE 1
  IN IF widgets = <<>> THEN notify(g, Focused(f), None, TRUE)
     ELSE notify(recordVisit([g EXCEPT !.current = next], widgets[next]), Focused(f), widgets[next], TRUE)

Clear(f) ==
  notify([f EXCEPT !.ring = <<>>, !.history = <<>>, !.current = 0, !.cursor = 0], Focused(f), None, TRUE)

\* Set, SetFromPointer: a widget outside the ring or one that no longer wants it is refused.
CanSet(f, w) == w \in able /\ index(f, w) > 0
set(f, w) == Own(f, index(f, w), FALSE)

\* The next widget in that direction that wants the focus, round the ring.
step(f, delta) ==
  LET n == Len(f.ring)
      start == IF f.current \in 1..n THEN f.current ELSE IF delta < 0 THEN n ELSE 1
      at(k) == ((start - 1 + delta * k) % n) + 1
      ways == {k \in (IF f.current \in 1..n THEN 1 ELSE 0)..n : f.ring[at(k)] \in able}
  IN IF n = 0 \/ ways = {} THEN f ELSE Own(f, at(Min(ways)), FALSE)

\* Back and Forward: the visits that are still in the ring and want the focus.
Usable(f, i) == CanSet(f, f.history[i])
Earlier(f) == {i \in 1..Len(f.history) : i < f.cursor /\ Usable(f, i)}
Later(f) == {i \in 1..Len(f.history) : i > f.cursor /\ Usable(f, i)}

MoveTo(f, i) ==
  notify([f EXCEPT !.current = index(f, f.history[i]), !.cursor = i], Focused(f), f.history[i], FALSE)
Back(f) == IF f.ring = <<>> \/ Earlier(f) = {} THEN f ELSE MoveTo(f, Max(Earlier(f)))
Forward(f) == IF f.ring = <<>> \/ Later(f) = {} THEN f ELSE MoveTo(f, Min(Later(f)))

(* -------------------------------- the app ------------------------------ *)

NewManager == [ring |-> <<>>, current |-> 0, history |-> <<>>, cursor |-> 0, told |-> None]

Init ==
  /\ shown \in SUBSET Widgets /\ able \in SUBSET Widgets /\ sized \in BOOLEAN
  /\ hits = {} /\ m = NewManager /\ dirty = TRUE

\* App.Render: the ring of a frame holds what it shows and what wants the focus.
Render ==
  /\ dirty /\ dirty' = FALSE
  /\ IF sized THEN /\ m' = Replace(m, SelectSeq(Tree, LAMBDA w : w \in shown \cap able))
                   /\ hits' = shown
     ELSE m' = Clear(m) /\ hits' = {}
  /\ UNCHANGED <<shown, able, sized>>

\* Tab, Shift+Tab and the vim traversal keys, and traversal the root asks for.
Traverse(delta) == ~dirty /\ m' = step(m, delta) /\ dirty' = TRUE /\ UNCHANGED <<shown, able, sized, hits>>

\* Alt+Left and Alt+Right; without a visit to go to, the focused widget gets the key.
History(f) == ~dirty /\ f # m /\ m' = f /\ dirty' = TRUE /\ UNCHANGED <<shown, able, sized, hits>>

\* The innermost widget under the press that wants the focus gets it.
focusDeepest(path) ==
  LET takes == {i \in 1..Len(path) : CanSet(m, path[i])}
  IN IF takes = {} THEN m ELSE set(m, path[Max(takes)])

\* A press goes to the widgets the last frame drew there.
Press(p) ==
  /\ ~dirty /\ m' = focusDeepest(SelectSeq(Paths[p], LAMBDA w : w \in hits))
  /\ dirty' \in BOOLEAN /\ UNCHANGED <<shown, able, sized, hits>>

\* A widget shows, hides, enables or disables another one while it handles an
\* event or a posted closure. An event nobody claims draws no frame.
Change(w) ==
  /\ ~dirty
  /\ \/ shown' = SymDiff(shown, {w}) /\ UNCHANGED able
     \/ able' = SymDiff(able, {w}) /\ UNCHANGED shown
  /\ dirty' \in BOOLEAN /\ UNCHANGED <<sized, hits, m>>

Resize == ~dirty /\ sized' = ~sized /\ dirty' = TRUE /\ UNCHANGED <<shown, able, hits, m>>

Next ==
  \/ Render \/ Resize
  \/ \E d \in {1, -1} : Traverse(d)
  \/ History(Back(m)) \/ History(Forward(m))
  \/ \E p \in DOMAIN Paths : Press(p)
  \/ \E w \in Widgets : Change(w)

Spec == Init /\ [][Next]_vars

(* ------------------------------ properties ----------------------------- *)

\* The root hears of every change of owner, whatever path it came by: the last
\* owner it was told of is the owner.
OwnerTold == m.told = Focused(m)

\* The history's cursor is at the visit of the widget that has the focus, through
\* new visits, pruning and the limit.
CursorAtOwner ==
  /\ Len(m.history) <= HistoryLimit
  /\ Focused(m) # None => m.cursor \in 1..Len(m.history) /\ m.history[m.cursor] = Focused(m)

\* Alt+Right undoes Alt+Left, skipped widgets included.
BackForth ==
  Focused(m) \in able /\ Earlier(m) # {} => Forward(Back(m)) = [m EXCEPT !.told = Focused(m)]

\* Tab reaches every widget of the ring that wants the focus, and Shift+Tab goes
\* back the way Tab came.
TabReachesAll ==
  LET walk[k \in 0..Len(m.ring)] == IF k = 0 THEN m ELSE step(walk[k - 1], 1)
  IN Focused(m) \in able =>
       /\ {Focused(walk[k]) : k \in 1..Len(m.ring)} = ToSet(m.ring) \cap able
       /\ Focused(step(step(m, 1), -1)) = Focused(m)

\* A frame takes the focus only from a widget it no longer shows or that no
\* longer wants it, and leaves it nowhere only when nothing can have it.
FrameKeepsOwner ==
  [][dirty /\ ~dirty' => /\ Focused(m') \in (shown \cap able) \cup {None}
                         /\ sized /\ Focused(m) \in shown \cap able => Focused(m') = Focused(m)
                         /\ sized /\ shown \cap able # {} => Focused(m') # None]_vars
=============================================================================
