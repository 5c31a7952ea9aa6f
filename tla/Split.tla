------------------------------- MODULE Split -------------------------------
(***************************************************************************)
(* Two panes and the divider between them (tui/widget/split.go), laid out  *)
(* by the flexbox solver of tui/layout, under pointer drags, clicks, keys  *)
(* and terminal resizes.  One axis is modelled: a row and a column differ  *)
(* in nothing else.                                                        *)
(***************************************************************************)
EXTENDS Integers, SequencesExt

CONSTANTS
  Splits, \* the splits of the program, as records: basis, min, max, minSecond, collapsible, hideBelow, hides
  Widths, \* the sizes the terminal may have
  Widest, \* bound: the size a pane may ask for
  None

VARIABLES
  split,    \* the split that is watched
  width,    \* its size, as drawn last (main)
  hidden,   \* "first", "second" or "none": what the configuration hides
  basis,    \* the size wanted for the first pane
  expanded, \* expandedBasis
  collapsed,\* "first", "second" or "none"
  drag,     \* the drag in progress: start, from, moved; or None
  last      \* the arrangement the user last saw with both panes open
vars == <<split, width, hidden, basis, expanded, collapsed, drag, last>>

LOCAL Larger(a, b) == IF a > b THEN a ELSE b
LOCAL Smaller(a, b) == IF a < b THEN a ELSE b

(* -------------------------- the flexbox solver ------------------------- *)

\* A child is a record of basis, min, max (0: no limit), grow and hidden.

\* clamp: the maximum wins over the minimum, and no size is negative.
Clamp(v, least, most) ==
  LET up == Larger(v, least) IN Larger(IF most > 0 THEN Smaller(up, most) ELSE up, 0)

AtMax(size, most) == most > 0 /\ size >= most

Total(sizes) == FoldFunction(+, 0, sizes)

\* Rounds in which each child that can gives a cell, until there is no need or none can;
\* the first ones give what is left to a last round.
Given(slack, k) == [i \in DOMAIN slack |-> Smaller(k, slack[i])]
Rounds(slack, most) == Max({k \in 0 .. most : Total(Given(slack, k)) <= most})
LastRound(slack, given, rounds, rest) ==
  LET before(i) == Cardinality({j \in 1 .. i - 1 : slack[j] > rounds})
  IN [i \in DOMAIN slack |-> given[i] + IF slack[i] > rounds /\ before(i) < rest THEN 1 ELSE 0]
GivenAll(slack, most, rounds) ==
  LET given == Given(slack, rounds) IN LastRound(slack, given, rounds, most - Total(given))
Even(slack, need) ==
  LET most == Smaller(need, Total(slack)) IN GivenAll(slack, most, Rounds(slack, most))

Less(sizes, given) == [i \in DOMAIN sizes |-> sizes[i] - given[i]]

\* shrink: children give way down to their minimums, and below them if they must.
Shrink(children, sizes, need) ==
  LET slack == [i \in DOMAIN sizes |-> Larger(sizes[i] - Larger(children[i].min, 0), 0)]
      polite == Less(sizes, Even(slack, need))
  IN Less(polite, Even(polite, need - Smaller(need, Total(slack))))

\* The shares of the free cells, rounded down; what rounding leaves goes round.
Grow(children, sizes, free) ==
  LET grow == Total([i \in DOMAIN children |-> children[i].grow])
      shared == [i \in DOMAIN sizes |-> IF children[i].grow = 0 THEN sizes[i]
                   ELSE Clamp(sizes[i] + (free * children[i].grow) \div grow, children[i].min, children[i].max)]
      left == free + Total(sizes) - Total(shared)
      room == [i \in DOMAIN sizes |-> IF children[i].grow = 0 \/ AtMax(shared[i], children[i].max) THEN 0
                   ELSE IF children[i].max > 0 THEN children[i].max - shared[i] ELSE left]
      more == Even(room, left)
  IN [i \in DOMAIN sizes |-> shared[i] + more[i]]

\* distribute: what is free goes to the children that grow, what lacks is taken from all.
Distribute(children, available) ==
  LET sizes == [i \in DOMAIN children |-> Clamp(children[i].basis, children[i].min, children[i].max)]
      free == available - Total(sizes)
  IN IF free > 0 /\ \E i \in DOMAIN children : children[i].grow > 0 THEN Grow(children, sizes, free)
     ELSE IF free < 0 THEN Shrink(children, sizes, 0 - free) ELSE sizes

\* The places of the children that are shown; one without a cell is not.
Places(children, shown, sizes, gap) ==
  LET at(k) == gap * (k - 1) + Total([j \in 1 .. k - 1 |-> sizes[j]])
  IN [i \in DOMAIN children |->
        IF \E k \in DOMAIN shown : shown[k] = i /\ sizes[k] > 0
        THEN LET k == CHOOSE j \in DOMAIN shown : shown[j] = i IN [at |-> at(k), size |-> sizes[k]]
        ELSE [at |-> 0, size |-> 0]]

\* solve: sizes for the children that are not hidden, and their places.
SolveShown(children, shown, size, gap) ==
  LET kept == [k \in DOMAIN shown |-> children[shown[k]]]
  IN Places(children, shown, Distribute(kept, Larger(size - gap * Larger(Len(shown) - 1, 0), 0)), gap)
Solve(children, size, gap) ==
  SolveShown(children, SelectSeq([i \in DOMAIN children |-> i], LAMBDA i : ~children[i].hidden), size, gap)

(* ------------------------------- geometry ------------------------------ *)

Node(b, least, most, grow, hide) == [basis |-> b, min |-> least, max |-> most, grow |-> grow, hidden |-> hide]

\* rebuild: the nodes of the panes, for a split s of which h is hidden.
Nodes(s, h, b, c, w) ==
  LET narrow == w < s.hideBelow
  IN CASE c = "first" -> <<Node(1, 1, 1, 0, h = "first"), Node(0, s.minSecond, 0, 1, narrow)>>
       [] c = "second" -> <<Node(0, 1, 0, 1, FALSE), Node(1, 1, 1, 0, h = "second" \/ narrow)>>
       [] c = "none" -> <<Node(Clamp(b, s.min, s.max), s.min, s.max, 0, h = "first"),
                          Node(0, s.minSecond, 0, 1, h = "second" \/ narrow)>>

Gap(c) == IF c = "none" THEN 1 ELSE 0
Sides == {"none", "first", "second"}

\* How a split is laid out: a function, for every size is looked up many times.
Arranged ==
  [s \in Splits, h \in Sides, b \in 0 .. Widest, c \in Sides, w \in Widths |->
     Solve(Nodes(s, h, b, c, w), w, Gap(c))]
Panes == Arranged[split, hidden, basis, collapsed, width]

\* clampDivider: where the divider is drawn and can be grabbed.
Divider == Smaller(Larger(basis, 0), Larger(width - 1, 0))

\* hitCollapsedToggle.
OnToggle(x) == \/ collapsed = "first" /\ x = 0
               \/ collapsed = "second" /\ x = width - 1

(* ------------------------------ operations ----------------------------- *)

Unchanged(keep) == UNCHANGED <<split, hidden>> /\ UNCHANGED keep

\* Mutant: the size to come back to is not remembered.
CollapseForgets(which) ==
  /\ collapsed' = which /\ UNCHANGED <<basis, expanded>>

\* collapseFirst and collapseSecond.
Collapse(which) ==
  /\ collapsed' = which /\ UNCHANGED basis
  /\ expanded' = IF collapsed = which THEN expanded ELSE Larger(basis, 1)

\* expand.
Expand ==
  /\ collapsed' = "none" /\ UNCHANGED expanded
  /\ basis' = Clamp(IF expanded <= 0 THEN basis ELSE expanded, split.min, split.max)

\* Basis: the size of the first pane, or its collapse at the ends.
Basis(cells) ==
  IF split.collapsible = "first" /\ cells <= 0 THEN Collapse("first")
  ELSE IF split.collapsible = "second" /\ width > 0 /\ cells >= width - 1 THEN Collapse("second")
  ELSE basis' = Clamp(cells, split.min, split.max) /\ collapsed' = "none" /\ UNCHANGED expanded

\* toggleCollapse.
ToggleCollapse ==
  IF collapsed # "none" THEN Expand
  ELSE IF split.collapsible # "none" THEN Collapse(split.collapsible)
  ELSE UNCHANGED <<basis, expanded, collapsed>>

\* What the next frame shows is remembered, when both panes are open.
Seen == last' = IF collapsed' = "none" THEN [width |-> width', panes |-> Panes'] ELSE last

(* -------------------------------- actions ------------------------------ *)

Resize(w) ==
  /\ w # width /\ width' = w /\ Unchanged(<<basis, expanded, collapsed, drag>>) /\ Seen

\* Alt and an arrow.
AltArrow(d) ==
  /\ drag = None /\ basis + d <= Widest /\ Basis(basis + d) /\ Unchanged(<<width, drag>>) /\ Seen

\* Enter and Space, when the split has the keyboard focus.
Enter ==
  /\ drag = None /\ collapsed # "none" /\ Expand /\ Unchanged(<<width, drag>>) /\ Seen
Space ==
  /\ drag = None /\ ToggleCollapse /\ Unchanged(<<width, drag>>) /\ Seen

\* DragStart, and the press a collapsed pane takes.
Press(x) ==
  /\ drag = None
  /\ \/ /\ collapsed = "none" /\ x = Divider
        /\ drag' = [start |-> basis, from |-> x, moved |-> FALSE, width |-> width, panes |-> Panes]
        /\ UNCHANGED <<basis, expanded, collapsed>>
     \/ /\ OnToggle(x) /\ Expand /\ UNCHANGED drag
  /\ Unchanged(width) /\ Seen

DragMove(x) ==
  /\ drag # None /\ drag' = [drag EXCEPT !.moved = @ \/ x # drag.from]
  /\ drag.start + x - drag.from <= Widest /\ Basis(drag.start + x - drag.from) /\ Unchanged(width) /\ Seen

\* DragEnd: a click toggles, a cancelled drag goes back.
DragEnd(commit) ==
  /\ drag # None /\ drag' = None /\ Unchanged(width)
  /\ IF ~commit THEN Basis(drag.start)
     ELSE IF ~drag.moved THEN ToggleCollapse ELSE UNCHANGED <<basis, expanded, collapsed>>
  /\ Seen

\* NewSplit and the policies of the program that builds it.
Init ==
  /\ split \in Splits /\ width \in Widths /\ hidden \in {"none", split.hides}
  /\ basis = Clamp(split.basis, split.min, split.max) /\ expanded = split.basis /\ collapsed = "none" /\ drag = None
  /\ last = [width |-> width, panes |-> Panes]

Next ==
  \/ \E w \in Widths : Resize(w)
  \/ \E d \in {-1, 1} : AltArrow(d)
  \/ Enter \/ Space
  \/ \E x \in 0 .. width - 1 : Press(x) \/ DragMove(x)
  \/ \E commit \in BOOLEAN : DragEnd(commit)

Spec == Init /\ [][Next]_vars

(* ------------------------------ properties ----------------------------- *)

Shown == {i \in {1, 2} : Panes[i].size > 0}

\* Panes that are shown lie side by side inside the split, the gap between them.
NoOverlap ==
  /\ \A i \in Shown : Panes[i].at + Panes[i].size <= width
  /\ Shown = {1, 2} => Panes[2].at = Panes[1].size + Gap(collapsed)

\* Between them they fill it; and where there is room for both minimums, both are kept.
PanesFit ==
  /\ NoOverlap
  /\ Shown = {1, 2} => Panes[2].at + Panes[2].size = width
  /\ Shown = {1, 2} /\ collapsed = "none" /\ width > split.min + split.minSecond =>
       Panes[1].size >= split.min /\ Panes[2].size >= split.minSecond

\* The divider is in the gap, wherever the first pane has the size it asks for.
DividerInGap == Shown = {1, 2} /\ collapsed = "none" /\ Panes[1].size = basis => Divider = Panes[1].size

\* A pane that comes back from its strip has the size it had.
StripBringsBack ==
  [][collapsed # "none" /\ collapsed' = "none" /\ drag = None /\ width = last.width
       => Panes' = last.panes \/ AltArrow(-1) \/ AltArrow(1)]_vars

\* A cancelled drag leaves the panes as they were when it began, if the split has the
\* size it had, and a divider that collapses the second pane was not at its very end.
Returned ==
  drag # None /\ drag' = None /\ drag.moved /\ width = drag.width
  /\ (split.collapsible = "second" => drag.start < width - 1)
CancelRestores == [][Returned /\ DragEnd(FALSE) => Panes' = drag.panes]_vars
=============================================================================
