------------------------------ MODULE Transcript ------------------------------
(***************************************************************************)
(* Reading and moving in the message list: ui/chatview.go (Draw, Handle),  *)
(* ui/chatview_focus.go, ui/chat_anchor.go, the focus index of             *)
(* ui/chatview_transcript.go and tui/widget/bottom_scroll.go.              *)
(*                                                                         *)
(* Messages arrive, grow, shrink and go while the user reads.  The scroll  *)
(* offset is counted from the newest line; an anchor, a pin for a toggled  *)
(* fold and the stick of gg correct it at every draw; the keyboard focus   *)
(* is a stop, found again by its key.  Posted changes run before a draw,   *)
(* an event is handled right after one.                                    *)
(***************************************************************************)
EXTENDS Integers, FiniteSets, SequencesExt

CONSTANTS
  Home, Away,  \* two channels; Away is the one visited
  Ids,         \* messages of Home, numbered in their order
  Visitor,     \* the one message of Away
  Author,      \* the author of each message
  Foldable,    \* messages with a fold: a markdown header or an expandable select
  Edited,      \* bound: messages whose lines change
  MaxRows,     \* bound: lines of text of a message
  MaxMsgs,     \* the history limit
  Heights,     \* heights of the viewport
  Follow,      \* SetCursorFollowsScroll
  None         \* no key, no pin

Msgs == Ids \cup {Visitor}

VARIABLES
  chan,      \* the active channel
  msgs,      \* the messages of Home, oldest first
  rows,      \* lines of text of each message
  collapsed, \* collapsedHeaders
  height,    \* of the region to draw in
  scroll,    \* BottomScroll
  anchor,    \* the message line that was at the top, and the offset it had
  pin,       \* the toggled fold and the row it must keep, or None
  stick,     \* vimStickOldest
  owner,     \* keyboardFocused; bound: it does not change
  focus,     \* the focused stop and its message
  stops,     \* focusStops
  stale,     \* the transcript must be rendered again
  last,      \* channel and edges of the last draw
  drawn,     \* the lines of the last draw, and the first visible
  moved,     \* history: the last event moved the focus from a stop the user chose
  dirty      \* posted changes or an event since the last draw

vars == <<chan, msgs, rows, collapsed, height, scroll, anchor, pin, stick, owner, focus,
          stops, stale, last, drawn, moved, dirty>>
content == <<chan, msgs, rows, collapsed, height>>

Larger(a, b) == IF a > b THEN a ELSE b
Smaller(a, b) == IF a < b THEN a ELSE b

(* ----------------------------- BottomScroll ---------------------------- *)

maxOffset(s) == Larger(s.content - s.viewport, 0)
Clamped(s, o) == [s EXCEPT !.offset = Larger(0, Smaller(o, maxOffset(s)))]
SetOffset(s, o) == IF s.known THEN Clamped(s, o) ELSE [s EXCEPT !.offset = Larger(o, 0)]
UpdatePrepend(s, n, h) == Clamped([s EXCEPT !.content = n, !.viewport = h, !.known = TRUE], s.offset)
Update(s, n, h) ==
  Clamped([s EXCEPT !.content = n, !.viewport = h, !.known = TRUE],
          IF s.offset > 0 /\ n > s.content THEN s.offset + n - s.content ELSE s.offset)

(* ------------------------------- rendering ----------------------------- *)

Shown == IF chan = Home THEN msgs ELSE <<Visitor>>

\* A message's lines; the author's is shown when another author's came before.
Block(s, i) ==
  LET m == s[i]
      line(k) == [msg |-> m, part |-> k]
      text == [k \in 1..rows[m] |-> line("text")]
  IN (IF i = 1 \/ Author[s[i - 1]] # Author[m] THEN <<line("author")>> ELSE <<>>)
     \o (IF m \in Foldable
         THEN <<line("text"), line("fold")>> \o (IF m \in collapsed THEN <<>> ELSE text)
         ELSE text)

Render == FlattenSeq([i \in DOMAIN Shown |-> Block(Shown, i)])

\* The first line of a message, and where its lines end.
Start(ls, m) == CHOOSE i \in DOMAIN ls : ls[i].msg = m /\ \A j \in 1..(i - 1) : ls[j].msg # m
Rows(ls, m) == Cardinality({i \in DOMAIN ls : ls[i].msg = m})
Has(ls, m) == \E i \in DOMAIN ls : ls[i].msg = m

\* buildFocusIndex: a stop at the first line of a body and at each fold.
Stops(ls) ==
  LET first(i) == ls[i].part # "author" /\ (i = 1 \/ ls[i - 1].msg # ls[i].msg \/ ls[i - 1].part = "author")
      at == {i \in DOMAIN ls : first(i) \/ ls[i].part = "fold"}
      key(i) == <<ls[i].msg, IF first(i) THEN "first" ELSE "fold">>
  IN [k \in 1..Cardinality(at) |->
        LET i == CHOOSE i \in at : Cardinality({j \in at : j < i}) = k - 1
        IN [key |-> key(i), msg |-> ls[i].msg, line |-> i, fold |-> ls[i].part = "fold"]]

FirstLine(h, s) == Larger(s.content - h - s.offset, 0) + 1

(* --------------------------------- focus ------------------------------- *)

NoFocus == [set |-> FALSE, explicit |-> FALSE, msg |-> None, key |-> None, stop |-> 0]

\* ensureInitialFocusedMessage: until the user chooses, the newest message.
InitialFocus ==
  IF owner /\ Shown # <<>> /\ ~(focus.set /\ (focus.explicit \/ focus.msg = Last(Shown)))
  THEN [focus EXCEPT !.set = TRUE, !.msg = Last(Shown), !.key = None]
  ELSE focus

\* The stop with the old key, else the first of its message, else the newest.
Refocus(f, st) ==
  LET keyed == {i \in DOMAIN st : st[i].key = f.key}
      same == {i \in DOMAIN st : f.set /\ st[i].msg = f.msg}
      i == IF keyed # {} THEN CHOOSE k \in keyed : TRUE
           ELSE IF same # {} THEN CHOOSE k \in same : \A j \in same : k <= j ELSE Len(st)
  IN IF st = <<>> THEN [NoFocus EXCEPT !.explicit = f.explicit]
     ELSE [f EXCEPT !.set = TRUE, !.msg = st[i].msg, !.key = st[i].key, !.stop = i]

Focused(i) == [set |-> TRUE, explicit |-> TRUE, msg |-> stops[i].msg, key |-> stops[i].key, stop |-> i]

\* setFocusStop: the two messages whose looks change are rendered again.
setFocusStop(i) ==
  /\ focus' = Focused(i)
  /\ stale' = (stale \/ stops[i].msg # focus.msg)

(* --------------------------------- draw -------------------------------- *)

\* History came above, and nothing below.
Sized(s, ls, edges) ==
  IF /\ last.chan = chan /\ last.first # None /\ edges.first # None
     /\ edges.first # last.first /\ edges.last = last.last
  THEN UpdatePrepend(s, Len(ls), height) ELSE Update(s, Len(ls), height)

Pinned(ls) == {i \in DOMAIN ls : pin # None /\ ls[i].part = "fold" /\ ls[i].msg = pin.msg}

\* Mutant: the anchor counts from the top of the transcript.
AnchorByIndex(s, ls, pre) ==
  IF anchor.set /\ pre > 0 /\ pre = anchor.offset /\ last.chan = chan /\ Has(ls, anchor.msg)
  THEN SetOffset(s, Len(ls) - height - anchor.intra) ELSE s

\* The message that was at the top stays there, when the user has not moved.
Anchored(s, ls, pre) ==
  IF anchor.set /\ pre > 0 /\ pre = anchor.offset /\ last.chan = chan /\ Has(ls, anchor.msg)
  THEN SetOffset(s, Len(ls) - height
                      - (Start(ls, anchor.msg) + Smaller(anchor.intra, Rows(ls, anchor.msg) - 1) - 1))
  ELSE s

\* A toggled fold keeps its row; it goes before the anchor.
Placed(s, ls, pre) ==
  IF Pinned(ls) # {}
  THEN SetOffset(s, Len(ls) - height - ((CHOOSE i \in Pinned(ls) : TRUE) - 1 - pin.row))
  ELSE Anchored(s, ls, pre)

\* applyVimBoundaryFocus.
Stuck(s) == IF stick /\ last.chan \in {None, chan} THEN SetOffset(s, maxOffset(s)) ELSE s

\* captureAnchor.
Capture(ls, top, offset) ==
  IF top \in DOMAIN ls
  THEN [set |-> TRUE, msg |-> ls[top].msg, intra |-> top - Start(ls, ls[top].msg), offset |-> offset]
  ELSE [set |-> FALSE, msg |-> None, intra |-> 0, offset |-> 0]

Edges == [chan |-> chan,
          first |-> IF Shown = <<>> THEN None ELSE Head(Shown),
          last |-> IF Shown = <<>> THEN None ELSE Last(Shown)]

Draw ==
  /\ dirty
  /\ \E ls \in {Render}, f \in {InitialFocus} :
     \E st \in {IF stale \/ f # focus THEN Stops(ls) ELSE stops},
        g \in {IF stale \/ f # focus THEN Refocus(f, Stops(ls)) ELSE f},
        s \in {Stuck(Placed(Sized(scroll, ls, Edges), ls, scroll.offset))} :
       LET held == stick /\ last.chan \in {None, chan}
           move == held /\ st # <<>> /\ g.stop # 1
           top == FirstLine(height, s)
       IN /\ scroll' = s /\ stops' = st
          /\ focus' = IF move THEN [set |-> TRUE, explicit |-> TRUE, msg |-> st[1].msg, key |-> st[1].key, stop |-> 1] ELSE g
          /\ stale' = (move /\ st[1].msg # g.msg)
          /\ stick' = held /\ pin' = None /\ last' = Edges
          /\ anchor' = Capture(ls, top, s.offset)
          /\ drawn' = [lines |-> ls, top |-> top, height |-> height]
  /\ dirty' = FALSE /\ moved' = FALSE
  /\ UNCHANGED <<content, owner>>

(* --------------------- changes posted to the loop ---------------------- *)

Posted == dirty' = TRUE
Rest == UNCHANGED <<scroll, anchor, pin, stick, owner, focus, stops, last, drawn, moved>>

\* A page of older messages, a message at the end (the ring drops its oldest),
\* a delete, and an edit or an embed that arrives.
Prepend(k) ==
  /\ Posted /\ Rest /\ stale' = TRUE
  /\ msgs # <<>> /\ k \in 1..(Head(msgs) - 1) /\ Len(msgs) + Head(msgs) - k <= MaxMsgs
  /\ msgs' = [i \in 1..(Head(msgs) - k) |-> k + i - 1] \o msgs
  /\ UNCHANGED <<chan, rows, collapsed, height>>

Arrive(m) ==
  /\ Posted /\ Rest /\ stale' = TRUE
  /\ m \in Ids /\ \A i \in DOMAIN msgs : msgs[i] < m
  /\ msgs' = Append(IF Len(msgs) = MaxMsgs THEN Tail(msgs) ELSE msgs, m)
  /\ UNCHANGED <<chan, rows, collapsed, height>>

Delete(m) ==
  /\ Posted /\ Rest /\ stale' = TRUE
  /\ m \in ToSet(msgs) /\ msgs' = SelectSeq(msgs, LAMBDA x : x # m)
  /\ UNCHANGED <<chan, rows, collapsed, height>>

Relayout(m) ==
  /\ Posted /\ Rest /\ stale' = TRUE
  /\ m \in Edited \cap ToSet(msgs)
  /\ \E n \in (1..MaxRows) \ {rows[m]} : rows' = [rows EXCEPT ![m] = n]
  /\ UNCHANGED <<chan, msgs, collapsed, height>>

SwitchChannel ==
  /\ Posted /\ Rest /\ stale' = TRUE
  /\ chan' = IF chan = Home THEN Away ELSE Home
  /\ UNCHANGED <<msgs, rows, collapsed, height>>

Resize ==
  /\ Posted /\ Rest
  /\ \E h \in Heights \ {height} : height' = h
  /\ UNCHANGED <<chan, msgs, rows, collapsed, stale>>

(* --------------------------------- events ------------------------------ *)

\* An event meets a view that has just been drawn.
Event == ~dirty /\ dirty' = TRUE /\ UNCHANGED <<chan, msgs, rows, height, anchor, owner, stops, last, drawn>>

Lines == Len(drawn.lines)
Window(s) == LET top == Larger(Lines - drawn.height - s.offset, 0)
             IN (top + 1)..Smaller(top + drawn.height, Lines)

\* A target above the window comes to its top, one below to its bottom.
Reveal(i) ==
  LET l == stops[i].line - 1
      top == Larger(Lines - drawn.height - scroll.offset, 0)
  IN CASE l < top -> SetOffset(scroll, Lines - drawn.height - l)
       [] l >= top + drawn.height -> SetOffset(scroll, Lines - 1 - l)
       [] OTHER -> scroll

\* focusLatestStop: a move starts at the first stop of the focused message.
Base ==
  IF focus.explicit \/ ~focus.set THEN focus.stop
  ELSE LET own == {i \in DOMAIN stops : stops[i].msg = focus.msg}
       IN IF own = {} THEN focus.stop ELSE CHOOSE i \in own : \A j \in own : i <= j

ScrollBy(d) == scroll' = SetOffset(scroll, scroll.offset + d)

\* Up and Down, k and j: the next stop, or a row at either end.
moveFocus(d) ==
  /\ Event /\ stick' = FALSE
  /\ LET i == IF Base \in DOMAIN stops THEN Base ELSE 1
     IN IF stops # <<>> /\ i + d \in DOMAIN stops
        THEN setFocusStop(i + d) /\ scroll' = Reveal(i + d) /\ moved' = TRUE
        ELSE /\ ScrollBy(-d) /\ moved' = FALSE
             /\ IF stops # <<>> /\ ~focus.explicit /\ focus.set THEN setFocusStop(i) ELSE UNCHANGED <<focus, stale>>
  /\ UNCHANGED <<collapsed, pin>>

\* The wheel, and the Vim keys that scroll a row.
Wheel(d) ==
  /\ Event /\ moved' = FALSE /\ stick' = FALSE /\ ScrollBy(d)
  /\ UNCHANGED <<collapsed, pin, focus, stale>>

\* pageUp and pageDown, and the stop at the edge that came into view.
Page(d) ==
  /\ Event /\ moved' = FALSE /\ stick' = FALSE /\ ScrollBy(d * Larger(drawn.height, 1))
  /\ LET in == {i \in DOMAIN stops : IF d = 1 THEN stops[i].line \geq FirstLine(drawn.height, scroll')
                                     ELSE stops[i].line < FirstLine(drawn.height, scroll') + drawn.height}
         edge == CHOOSE i \in in : \A j \in in : IF d = 1 THEN i <= j ELSE i >= j
     IN IF Follow /\ in # {} THEN setFocusStop(edge) ELSE UNCHANGED <<focus, stale>>
  /\ UNCHANGED <<collapsed, pin>>

\* gg; the first g only waits for the second.
scrollToOldest ==
  /\ Event /\ moved' = FALSE /\ stick' = TRUE
  /\ scroll' = SetOffset(scroll, Larger(Lines - drawn.height, 0))
  /\ IF stops # <<>> THEN setFocusStop(1) ELSE UNCHANGED <<focus, stale>>
  /\ UNCHANGED <<collapsed, pin>>

scrollToNewest ==
  /\ Event /\ moved' = FALSE /\ stick' = FALSE /\ scroll' = SetOffset(scroll, 0)
  /\ IF stops # <<>> THEN setFocusStop(Len(stops)) ELSE UNCHANGED <<focus, stale>>
  /\ UNCHANGED <<collapsed, pin>>

\* Esc lets go of the chosen stop and returns to the live edge.
Esc ==
  /\ Event /\ moved' = FALSE /\ stick' = FALSE /\ scroll' = SetOffset(scroll, 0)
  /\ focus' = [focus EXCEPT !.explicit = FALSE] /\ stale' = TRUE
  /\ UNCHANGED <<collapsed, pin>>

\* A fold by key, by h and l, or by a click: its row is kept if it has one.
Toggle(m, row) ==
  /\ collapsed' = IF m \in collapsed THEN collapsed \ {m} ELSE collapsed \cup {m}
  /\ pin' = IF row >= 0 THEN [msg |-> m, row |-> row] ELSE pin

foldFocusedHeader ==
  /\ Event /\ moved' = FALSE /\ owner /\ focus.stop \in DOMAIN stops /\ stops[focus.stop].fold
  /\ Toggle(stops[focus.stop].msg, stops[focus.stop].line - drawn.top)
  /\ stick' = FALSE /\ stale' = TRUE
  /\ UNCHANGED <<scroll, focus>>

\* focusAtVisible: the stop on that line, else the first of its message.
At(y) ==
  LET l == drawn.top + y
      on == {i \in DOMAIN stops : stops[i].line = l}
      own == {i \in DOMAIN stops : stops[i].msg = drawn.lines[l].msg}
      pick == IF on # {} THEN on ELSE own
  IN IF drawn.lines[l].part = "author" \/ pick = {} THEN 0 ELSE CHOOSE i \in pick : \A j \in pick : i <= j

Click(y) ==
  /\ Event /\ moved' = FALSE /\ y \in 0..(drawn.height - 1) /\ drawn.top + y <= Lines /\ At(y) # 0
  /\ focus' = Focused(At(y))
  /\ LET l == drawn.lines[drawn.top + y]
     IN IF l.part = "fold" THEN Toggle(l.msg, y) /\ stale' = TRUE
        ELSE stale' = (stale \/ l.msg # focus.msg) /\ UNCHANGED <<collapsed, pin>>
  /\ UNCHANGED <<scroll, stick>>

(* ---------------------------- specification ---------------------------- *)

Init ==
  /\ chan = Home /\ msgs = <<Cardinality(Ids) - 1>> /\ rows = [m \in Msgs |-> MaxRows] /\ collapsed = {}
  /\ height \in Heights /\ scroll = [offset |-> 0, content |-> 0, viewport |-> 0, known |-> FALSE]
  /\ anchor = [set |-> FALSE, msg |-> None, intra |-> 0, offset |-> 0]
  /\ pin = None /\ stick = FALSE /\ owner \in BOOLEAN /\ focus = NoFocus /\ stops = <<>>
  /\ stale = TRUE /\ moved = FALSE
  /\ last = [chan |-> None, first |-> None, last |-> None]
  /\ drawn = [lines |-> <<>>, top |-> 1, height |-> 0] /\ dirty = TRUE

Change ==
  \/ \E m \in Ids : Prepend(m) \/ Arrive(m) \/ Delete(m) \/ Relayout(m)
  \/ SwitchChannel \/ Resize

Next ==
  \/ Draw \/ Change
  \/ \E d \in {-1, 1} : moveFocus(d) \/ Wheel(d) \/ Page(d)
  \/ scrollToOldest \/ scrollToNewest \/ Esc \/ foldFocusedHeader
  \/ \E y \in 0..(height - 1) : Click(y)

Spec == Init /\ [][Next]_vars

(* ------------------------------ properties ----------------------------- *)

\* A frame was drawn: nothing else makes the view clean.
Frame == dirty /\ ~dirty'

\* The last line a window can begin at.
LastTop(ls, h) == Larger(Len(ls) - h, 0) + 1

\* While the user reads older messages and does not move, the line at the top
\* keeps its place, whatever arrives, goes or changes height above and below,
\* unless too little is left under it (chat_anchor.go:16, chatview.go:294).
ReadingKept ==
  [][ Frame /\ anchor.set /\ scroll.offset > 0 /\ scroll.offset = anchor.offset /\ pin = None
           /\ ~stick /\ last.chan = chan /\ Has(drawn'.lines, anchor.msg)
      => LET ls == drawn'.lines
             same == SelectSeq(ls, LAMBDA l : l.msg = anchor.msg) = SelectSeq(drawn.lines, LAMBDA l : l.msg = anchor.msg)
         IN \/ drawn'.top = LastTop(ls, height)
            \/ /\ ls[drawn'.top].msg = anchor.msg
               /\ same => drawn'.top = Start(ls, anchor.msg) + anchor.intra ]_vars

\* A reader at the newest line follows it (bottom_scroll.go:3).
FollowsLive ==
  [][ Frame /\ scroll.offset = 0 /\ pin = None /\ ~stick => drawn'.top = LastTop(drawn'.lines, height) ]_vars

\* A fold stays on the row it was toggled at, unless the end of the transcript
\* comes in the way (chat_anchor.go:71).
FoldStays ==
  [][ Frame /\ pin # None /\ ~stick /\ Pinned(drawn'.lines) # {}
      => LET i == CHOOSE i \in Pinned(drawn'.lines) : TRUE
             row == i - drawn'.top
         IN row = pin.row \/ drawn'.top \in {1, LastTop(drawn'.lines, height)} ]_vars

\* The focus of a drawn view is a stop of a message that is still there, and the
\* message actions of the keyboard act on that message (chatview.go:694).
FocusTruthful ==
  ~dirty => IF stops = <<>> THEN ~focus.set
            ELSE /\ focus.set /\ focus.stop \in DOMAIN stops
                 /\ stops[focus.stop].msg = focus.msg /\ focus.msg \in ToSet(Shown)
                 /\ stops = Stops(drawn.lines)

\* A step of the focus brings its stop into the window (chatview_focus.go:270).
MoveReveals == moved => stops[focus.stop].line \in Window(scroll)

\* gg holds the oldest message while older pages arrive (chatview_focus.go:425).
GgHolds == ~dirty /\ stick => drawn.top = 1 /\ (stops # <<>> => focus.stop = 1)
=============================================================================
