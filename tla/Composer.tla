------------------------------ MODULE Composer ------------------------------
(***************************************************************************)
(* The composer: the text input with its wrapped rows, cursor and scroll   *)
(* (tui/widget/textinput.go), and the menu that opens over the token being *)
(* typed and writes its query and its choice back into the text            *)
(* (ui/shell.go, ui/inline_picker.go).                                     *)
(*                                                                         *)
(* The text is a sequence of clusters, each a cell wide.                   *)
(***************************************************************************)
EXTENDS Integers, SequencesExt

CONSTANTS
  Width, Height, \* of the input, in cells
  MaxText,       \* bound: the clusters of the text
  None

Letter == "x"    \* a cluster of a word
Space == " "
NewLine == "\n"
Trigger == ":"
Choice == "e"    \* what a pick inserts
Clusters == {Letter, Space, NewLine, Trigger}

VARIABLES
  text, cursor, \* value and cursor
  scrollRow,    \* the first row drawn
  menu          \* the open menu: start, query, synced, and the text around; or None
vars == <<text, cursor, scrollRow, menu>>

LOCAL Larger(a, b) == IF a > b THEN a ELSE b
LOCAL Smaller(a, b) == IF a < b THEN a ELSE b

(* -------------------------------- the rows ----------------------------- *)

\* wrappedInputRows: from where to where each row goes.
Rows(t) ==
  LET Wrap(acc, i) ==
        IF t[i] = NewLine THEN [rows |-> Append(acc.rows, [start |-> acc.start, end |-> i - 1]), start |-> i]
        ELSE IF i - 1 - acc.start = Width
        THEN [rows |-> Append(acc.rows, [start |-> acc.start, end |-> i - 1]), start |-> i - 1] ELSE acc
      all == FoldLeft(Wrap, [rows |-> <<>>, start |-> 0], [i \in DOMAIN t |-> i])
  IN Append(all.rows, [start |-> all.start, end |-> Len(t)])

\* cursorInputPosition: a cursor at the start of a row belongs to the row before, or to the last.
PositionIn(rows, c) ==
  LET here(i) == rows[i].start <= c /\ c <= rows[i].end /\ ~(c = rows[i].start /\ i > 1)
      at == {i \in DOMAIN rows : here(i)}
      i == IF at = {} THEN Len(rows) ELSE CHOOSE k \in at : \A j \in at : k <= j
  IN [row |-> i, x |-> IF at = {} THEN rows[i].end - rows[i].start ELSE c - rows[i].start]
Position(t, c) == PositionIn(Rows(t), c)

\* drawMultiline: the first row drawn next, for a cursor in the given row.
Scrolled(row, s) ==
  LET up == Smaller(row, s) IN IF row >= up + Height THEN row - Height + 1 ELSE up

\* drawMultiline: the cell of the cursor, on the rows drawn; past a full row there is none.
Drawn ==
  LET at == Position(text, cursor)
      row == IF text = <<>> THEN 0 ELSE at.row - scrollRow
  IN IF row \in 0 .. Height - 1 /\ at.x < Width THEN {[row |-> row, x |-> at.x]} ELSE {}

\* A change of the text or of the cursor, and the frame after it.
Edit(t, c) ==
  /\ Len(t) <= MaxText /\ text' = t /\ cursor' = c
  /\ scrollRow' = IF t = <<>> THEN scrollRow ELSE Scrolled(Position(t, c).row, scrollRow)

(* ------------------------------- completion ---------------------------- *)

\* completionToken: the word before the cursor, if it begins with a trigger.
Token(t, c) ==
  LET starts == {i \in 0 .. c : \A k \in i + 1 .. c : t[k] \notin {Space, NewLine}}
      start == CHOOSE i \in starts : \A j \in starts : i <= j
  IN IF start < c /\ t[start + 1] = Trigger THEN [start |-> start, query |-> SubSeq(t, start + 2, c)] ELSE None

\* composerChanged: the menu opens over such a token.
Opened(t, c) ==
  LET token == Token(t, c)
  IN IF token = None THEN None
     ELSE [start |-> token.start, query |-> token.query, synced |-> TRUE,
           before |-> SubSeq(t, 1, token.start), after |-> SubSeq(t, c + 1, Len(t))]

\* Replace: the offsets are brought inside the text.
Replaced(t, from, to, s) ==
  LET start == Smaller(from, Len(t))
      end == Smaller(to, Len(t))
  IN [text |-> SubSeq(t, 1, start) \o s \o SubSeq(t, end + 1, Len(t)), cursor |-> start + Len(s)]

Write(from, to, s) == LET r == Replaced(text, from, to, s) IN Edit(r.text, r.cursor)

(* -------------------------------- the keys ----------------------------- *)

\* Handle, of a key that changes the text.
Typed(c) ==
  /\ menu = None
  /\ LET t == SubSeq(text, 1, cursor) \o <<c>> \o SubSeq(text, cursor + 1, Len(text))
     IN Edit(t, cursor + 1) /\ menu' = Opened(t, cursor + 1)

Removed(from, to) ==
  LET t == SubSeq(text, 1, from) \o SubSeq(text, to + 1, Len(text))
  IN menu = None /\ from < to /\ Edit(t, from) /\ menu' = Opened(t, from)
Backspace == Removed(Larger(cursor - 1, 0), cursor)
Delete == Removed(cursor, Smaller(cursor + 1, Len(text)))

\* previousWordBoundary and nextWordBoundary: over spaces and then a word, or the reverse.
Blank(t, i) == t[i] \in {Space, NewLine}
PreviousWord(t, c) ==
  LET begins == {i \in 0 .. c : i = 0 \/ (i < c /\ Blank(t, i) /\ ~Blank(t, i + 1))}
  IN CHOOSE i \in begins : \A j \in begins : j <= i
NextWord(t, c) ==
  LET begins == {i \in c .. Len(t) : i = Len(t) \/ (i > c /\ Blank(t, i) /\ ~Blank(t, i + 1))}
  IN CHOOSE i \in begins : \A j \in begins : i <= j
CtrlBackspace == Removed(PreviousWord(text, cursor), cursor)

Moved(c) == menu = None /\ c # cursor /\ Edit(text, c) /\ UNCHANGED menu
Left == Moved(Larger(cursor - 1, 0))
Right == Moved(Smaller(cursor + 1, Len(text)))
Home == Moved(0)
End == Moved(Len(text))
CtrlLeft == Moved(PreviousWord(text, cursor))
CtrlRight == Moved(NextWord(text, cursor))

\* moveVertical: the column is kept, or the end of a shorter row is taken.
Vertical(delta) ==
  LET rows == Rows(text)
      at == Position(text, cursor)
      target == at.row + delta
  IN IF target \notin DOMAIN rows THEN cursor ELSE Smaller(rows[target].start + at.x, rows[target].end)
Up == Moved(Vertical(-1))
Down == Moved(Vertical(1))

\* SetValue: a message is sent, or a composer mode ends; it tells no one.
Clear ==
  /\ text # <<>> /\ Edit(<<>>, 0)
  /\ menu' = IF menu = None THEN None ELSE [menu EXCEPT !.synced = FALSE]

(* -------------------------------- the menu ----------------------------- *)

\* SetQueryChange: the token in the text follows the query of the menu.
Query(q) ==
  /\ menu # None /\ Write(menu.start, menu.start + Len(menu.query) + 1, <<Trigger>> \o q)
  /\ menu' = [menu EXCEPT !.query = q]

MenuType(c) == menu # None /\ Query(Append(menu.query, c))
MenuBackspace == menu # None /\ menu.query # <<>> /\ Query(SubSeq(menu.query, 1, Len(menu.query) - 1))

\* SetTriggerDelete: Backspace in an empty query.
MenuLeave ==
  /\ menu # None /\ menu.query = <<>> /\ Write(menu.start, menu.start + 1, <<>>) /\ menu' = None

\* Mutant: the query is replaced and its trigger stays.
PickQuery ==
  /\ menu # None /\ Write(menu.start + 1, menu.start + Len(menu.query) + 1, <<Choice>>) /\ menu' = None

\* replaceCompletion, of a pick.
Pick ==
  /\ menu # None /\ Write(menu.start, menu.start + Len(menu.query) + 1, <<Choice>>) /\ menu' = None

\* Esc, or the pick of a sticker, which is sent on its own.
Dismiss == menu # None /\ menu' = None /\ UNCHANGED <<text, cursor, scrollRow>>

Init == text = <<>> /\ cursor = 0 /\ scrollRow = 1 /\ menu = None

Next ==
  \/ \E c \in Clusters : Typed(c)
  \/ Backspace \/ Delete \/ CtrlBackspace \/ Left \/ Right \/ Home \/ End \/ CtrlLeft \/ CtrlRight \/ Up \/ Down
  \/ Clear \/ \E c \in {Letter, Space} : MenuType(c)
  \/ MenuBackspace \/ MenuLeave \/ Pick \/ Dismiss

Spec == Init /\ [][Next]_vars

(* ------------------------------ properties ----------------------------- *)

\* The cursor is drawn in the cell of the next letter typed, which stays there, and
\* is missing only past the end of a full row.  The exception: a cursor at the start
\* of a row below the first is drawn elsewhere.
AtRowStart == \E i \in 2 .. Len(Rows(text)) : Rows(text)[i].start = cursor
CursorShown ==
  LET typed == SubSeq(text, 1, cursor) \o <<Letter>> \o SubSeq(text, cursor + 1, Len(text))
      after == Position(typed, cursor + 1)
      row == after.row - Scrolled(after.row, scrollRow)
  IN /\ Drawn = {} => Position(text, cursor).x = Width
     /\ ~AtRowStart => \A cell \in Drawn : [row |-> row, x |-> after.x] = [cell EXCEPT !.x = @ + 1]

\* While the menu is open the text holds its trigger and query, and what was typed
\* around them; a pick puts the choice in their place and changes nothing else.
Around(s) == menu.before \o s \o menu.after
TokenFollows == menu # None /\ menu.synced => text = Around(<<Trigger>> \o menu.query)
PickReplaces == [][menu # None /\ menu.synced /\ menu' = None => text' \in {text, Around(<<>>), Around(<<Choice>>)}]_vars
=============================================================================
