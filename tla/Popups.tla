------------------------------- MODULE Popups -------------------------------
(***************************************************************************)
(* The popup over the screen: the context menus (tui/widget/menu.go, with  *)
(* the items ui/shell.go gives them) and the profile card                  *)
(* (ui/profile_popup.go), whose details and picture arrive after it has    *)
(* opened. The shell has one popup at a time, and the loop draws a frame   *)
(* after every event and after every batch of posted closures.             *)
(*                                                                         *)
(* The toasts lie over the screen too: their module is extended for what   *)
(* both promise, and neither component touches the other's state.          *)
(*                                                                         *)
(* Rows only: of a pointer's column only whether it is within the popup.   *)
(***************************************************************************)
EXTENDS Notices

CONSTANTS
  Heights,  \* the rows the terminal can have
  Users,
  Known,    \* what can be known of a user: the lines above the DMs, and the DMs
  MaxCards  \* bound: how many cards are opened

ASSUME PopupsAssumption == Heights \subseteq Nat /\ \A d \in Known : Len(d.dms) \in Nat

VARIABLES
  height,  \* the rows of the screen
  popup,   \* the menu or card shown, or Absent
  dirty,   \* the frame is older than the state
  dmRow,   \* the row of the card its first DM was drawn at
  fetches, \* details and pictures being fetched, each for a card
  cards,   \* how many cards have been opened
  did      \* what the last event did: an item of a menu, a DM opened, or Absent
popupsVars == <<height, popup, dirty, dmRow, fetches, cards, did>>

Larger(a, b) == IF a > b THEN a ELSE b
Smaller(a, b) == IF a < b THEN a ELSE b

(* ------------------------------- the menus ----------------------------- *)

Item(name, enabled) == [name |-> name, enabled |-> enabled]
Separator == Item("separator", FALSE)

MessageItems(own, manage) ==
  <<Item("reply", TRUE), Item("reply_quietly", TRUE), Item("edit", own), Item("thread", TRUE), Separator,
    Item("pin", manage), Item("delete", own \/ manage), Separator, Item("copy", TRUE)>>
ConfirmItems == <<Item("delete_confirmed", TRUE), Item("cancel", TRUE)>>
RoleItems(can) ==
  <<Item("role", FALSE), Item("create", can), Item("rename", can), Item("color", can), Item("hoist", can),
    Item("mentionable", can), Separator, Item("delete", can)>>
ChannelSettings(can, first) ==
  <<Item("create", can), Item("rename", can), Item("up", can /\ ~first), Item("down", can), Separator, Item("delete", can)>>
GuildItems(dm) ==
  <<Item("settings", TRUE), Item("group", ~dm), Separator, Item("pin", TRUE), Separator, Item("copy", TRUE)>>
ThreadItems(can) ==
  <<Item("join", TRUE), Item("archive", can), Separator, Item("pin", TRUE), Separator, Item("copy", TRUE)>>

Menus ==
  UNION {{MessageItems(a, b), ChannelSettings(a, b), RoleItems(a), GuildItems(a), ThreadItems(a)} : a, b \in BOOLEAN}

\* showPopupMenu: the first item that can be chosen is selected, drawn or not.
Menu(items) ==
  LET can == {i \in DOMAIN items : items[i].enabled}
  IN [kind |-> "menu", items |-> items, selected |-> IF can = {} THEN 0 ELSE CHOOSE i \in can : \A j \in can : i <= j]

\* drawnLen: the items within the borders.
DrawnLen(m) == Smaller(Len(m.items), Larger(Smaller(Len(m.items) + 2, height) - 2, 0))
Selectable(m) == {i \in 1 .. DrawnLen(m) : m.items[i].enabled}
FirstSelectable(m) == IF Selectable(m) = {} THEN 0 ELSE CHOOSE i \in Selectable(m) : \A j \in Selectable(m) : i <= j
LastSelectable(m) == IF Selectable(m) = {} THEN 0 ELSE CHOOSE i \in Selectable(m) : \A j \in Selectable(m) : j <= i

\* step: to the next item there is, if one is drawn; a step from below the last row goes nowhere.
Step(m, dir) ==
  LET next == {i \in Selectable(m) : IF dir > 0 THEN i > m.selected ELSE i < m.selected}
  IN IF m.selected = 0 THEN FirstSelectable(m)
     ELSE IF next = {} \/ m.selected + dir > DrawnLen(m) THEN m.selected
     ELSE CHOOSE i \in next : \A j \in next : IF dir > 0 THEN i <= j ELSE j <= i

(* -------------------------------- the card ----------------------------- *)

\* dimensions and box.
BoxH(c) == Smaller(10 + c.details.above + Len(c.details.dms), height)
BoxY(c) ==
  IF c.y = Absent THEN Larger((height - BoxH(c)) \div 2, 0) ELSE Smaller(Larger(c.y, 0), Larger(height - BoxH(c), 0))

\* Draw: the rows of the DMs follow the identity, the roles and the servers.
Drawn(c) == 8 + c.details.above

(* ------------------------------ the event loop ------------------------- *)

\* Mutant: an event is handled before what was posted is drawn.
EventEarly(done) == dirty' = TRUE /\ did' = done /\ UNCHANGED <<height, dmRow, fetches, cards>>

\* An event, on what has been drawn.
Event(done) == ~dirty /\ dirty' = TRUE /\ did' = done /\ UNCHANGED <<height, dmRow, fetches, cards>>

Frame ==
  /\ dirty /\ dirty' = FALSE /\ did' = Absent
  /\ dmRow' = IF popup # Absent /\ popup.kind = "card" THEN Drawn(popup) ELSE dmRow
  /\ UNCHANGED <<height, popup, fetches, cards>>

ResizeRows(h) ==
  /\ ~dirty /\ h # height /\ height' = h /\ dirty' = TRUE /\ did' = Absent
  /\ UNCHANGED <<popup, dmRow, fetches, cards>>

(* ------------------------------ opening a popup ------------------------ *)

OpenMenu(items) == popup = Absent /\ Event(Absent) /\ popup' = Menu(items)

\* openProfileWithFallback: what the caches know at once, the rest when it has been fetched.
OpenCard(u, d) ==
  /\ popup = Absent /\ cards < MaxCards /\ ~dirty /\ dirty' = TRUE /\ did' = Absent /\ cards' = cards + 1
  /\ popup' = [kind |-> "card", id |-> cards', user |-> u, details |-> d, of |-> u, picture |-> Absent,
               y |-> Absent, dragging |-> FALSE, selected |-> 1]
  /\ fetches' = fetches \cup {[what |-> w, id |-> cards', user |-> u] : w \in {"details", "picture"}}
  /\ UNCHANGED <<height, dmRow>>

\* s.popup == popup, for the card an answer belongs to.
IsOpen(f) == popup # Absent /\ popup.kind = "card" /\ popup.id = f.id

\* SetDetails and SetAvatar, posted to the UI goroutine.
Arrive(f, d) ==
  /\ f \in fetches /\ fetches' = fetches \ {f}
  /\ popup' = IF ~IsOpen(f) THEN popup
              ELSE IF f.what = "picture" THEN [popup EXCEPT !.picture = f.user]
              ELSE [popup EXCEPT !.details = d, !.of = f.user]
  /\ dirty' = TRUE /\ UNCHANGED <<height, dmRow, cards, did>>

\* The fetch failed.
Fail(f) == f \in fetches /\ fetches' = fetches \ {f} /\ UNCHANGED <<height, popup, dirty, dmRow, cards, did>>

(* ------------------------------ menu input ----------------------------- *)

OnMenu == popup # Absent /\ popup.kind = "menu"

\* OnSelect: what the item does, and the popup it leaves; the callbacks close the menu, or
\* put the confirmation of a deletion in its place.
OnSelect(item) == IF item.name = "delete" THEN Menu(ConfirmItems) ELSE Absent

\* dismiss: closePopup, whatever the popup is by then.
Dismissed(p) == Absent

\* Mutant: the rows that are not drawn can be chosen too.
ActivateUndrawn(i) ==
  IF i # 0 /\ popup.items[i].enabled
  THEN Event(popup.items[i].name) /\ popup' = Dismissed(OnSelect(popup.items[i])) ELSE Event(Absent) /\ UNCHANGED popup

\* activate.
Activate(i) ==
  IF i \in Selectable(popup)
  THEN Event(popup.items[i].name) /\ popup' = Dismissed(OnSelect(popup.items[i])) ELSE Event(Absent) /\ UNCHANGED popup

MenuSelect(i) == OnMenu /\ i # popup.selected /\ Event(Absent) /\ popup' = [popup EXCEPT !.selected = i]
MenuStep(dir) == OnMenu /\ MenuSelect(Step(popup, dir))
MenuHome == OnMenu /\ MenuSelect(FirstSelectable(popup))
MenuEnd == OnMenu /\ MenuSelect(LastSelectable(popup))
MenuEnter == OnMenu /\ Activate(popup.selected)
MenuEsc == OnMenu /\ Event(Absent) /\ popup' = Dismissed(popup)

\* handleMouse, on the i-th row within the box, or outside of it.
MenuHover(i) == OnMenu /\ i \in Selectable(popup) /\ MenuSelect(i)
MenuClick(i) ==
  /\ OnMenu /\ i \in Selectable(popup) /\ Event(popup.items[i].name) /\ popup' = Dismissed(OnSelect(popup.items[i]))
MenuClickOutside == OnMenu /\ Event(Absent) /\ popup' = Dismissed(popup)

(* ------------------------------ card input ----------------------------- *)

OnCard == popup # Absent /\ popup.kind = "card"

CardUp == OnCard /\ Event(Absent) /\ popup' = [popup EXCEPT !.selected = Larger(popup.selected - 1, 1)]
CardDown ==
  OnCard /\ Event(Absent) /\ popup' = [popup EXCEPT !.selected = Smaller(popup.selected + 1, Larger(Len(popup.details.dms), 1))]

\* openSelectedDM: the card closes, and the channel is gone to.
CardEnter ==
  /\ OnCard /\ popup.selected \in DOMAIN popup.details.dms
  /\ Event(popup.details.dms[popup.selected]) /\ popup' = Absent
CardEsc == OnCard /\ Event(Absent) /\ popup' = Absent

\* handleMouse: the top border drags the card, a DM opens.
CardPress(row) ==
  LET i == row - BoxY(popup) - dmRow + 1
  IN /\ OnCard
     /\ IF row = BoxY(popup) THEN Event(Absent) /\ popup' = [popup EXCEPT !.dragging = TRUE]
        ELSE IF i \in DOMAIN popup.details.dms THEN Event(popup.details.dms[i]) /\ popup' = Absent
        ELSE Event(Absent) /\ UNCHANGED popup
CardMotion(row) == OnCard /\ popup.dragging /\ Event(Absent) /\ popup' = [popup EXCEPT !.y = row]
CardRelease == OnCard /\ popup.dragging /\ Event(Absent) /\ popup' = [popup EXCEPT !.dragging = FALSE]

PopupsInit ==
  /\ height \in Heights /\ popup = Absent /\ dirty = FALSE /\ dmRow = 0
  /\ fetches = {} /\ cards = 0 /\ did = Absent

Clicked == \E row \in 0 .. height - 1 : CardPress(row)

PopupsNext ==
  \/ Frame \/ \E h \in Heights : ResizeRows(h)
  \/ popup = Absent /\ \E items \in Menus : OpenMenu(items)
  \/ \E u \in Users, d \in Known : OpenCard(u, d)
  \/ \E f \in fetches : Fail(f) \/ \E d \in Known : Arrive(f, d)
  \/ \E dir \in {-1, 1} : MenuStep(dir)
  \/ MenuHome \/ MenuEnd \/ MenuEnter \/ MenuEsc \/ MenuClickOutside
  \/ OnMenu /\ \E i \in DOMAIN popup.items : MenuHover(i) \/ MenuClick(i)
  \/ CardUp \/ CardDown \/ CardEnter \/ CardEsc \/ CardRelease \/ Clicked
  \/ \E row \in 0 .. height - 1 : CardMotion(row)

PopupsSpec == PopupsInit /\ [][PopupsNext]_popupsVars

(* ------------------------------ properties ----------------------------- *)

\* The items within the box as it was last drawn: what the user can see of the menu.
Drawable == {popup.items[i].name : i \in {j \in DOMAIN popup.items : popup.items[j].enabled /\ j <= height - 2}}

\* Only an item that is on the screen is ever chosen, also after the terminal has shrunk
\* under the selection.
OnlyDrawnChosen == [][OnMenu /\ did' # Absent => did' \in Drawable]_popupsVars

\* What a card shows is its own user's, whatever was fetched for the cards before it.
OwnAnswers == OnCard => popup.of = popup.user /\ popup.picture \in {Absent, popup.user}

\* A popup is a menu, a card or none, and an answer is the one of the card of its number.
PopupsTypeOK ==
  /\ height \in Heights /\ cards \in Nat /\ dirty \in BOOLEAN
  /\ popup # Absent => popup.kind \in {"menu", "card"}
  /\ OnMenu => {"kind", "items"} \subseteq DOMAIN popup /\ popup.items \in Menus \cup {ConfirmItems}
  /\ OnCard => popup \in [kind : {"card"}, id : 1 .. cards, user : Users, details : Known, of : Users,
                          picture : Users \cup {Absent}, y : Int \cup {Absent}, dragging : BOOLEAN, selected : Int]
  /\ \A f \in fetches : f.id \in 1 .. cards /\ f.user \in Users

AnswersPlaced == OnCard => \A f \in fetches : f.id = popup.id => f.user = popup.user

\* The DMs are clicked where they were drawn.
DMsFresh == ~dirty /\ OnCard => dmRow = Drawn(popup)

\* What was done closed the popup, and is drawn before anything else is done.
DoneClosed == did # Absent => dirty /\ popup = Absent

\* The inductive invariant.
PopupsInv == PopupsTypeOK /\ AnswersPlaced /\ OwnAnswers /\ DMsFresh /\ DoneClosed

ShownDM(row) == LET i == row - BoxY(popup) - Drawn(popup) + 1 IN IF i \in DOMAIN popup.details.dms THEN popup.details.dms[i] ELSE Absent

\* A click on the card opens no DM but the one drawn on the row that is clicked, although
\* the rows move when the details arrive.
ClickOpensShown == [][OnCard /\ did' # Absent => \A row \in 0 .. height - 1 : CardPress(row) => did' = ShownDM(row)]_popupsVars

\* What the user acts on is what he sees: only an item that is drawn is chosen, a profile's
\* answers are its own user's and a click on it opens the DM drawn on its row whatever was
\* fetched since, and a click on a toast takes that toast and no other; and a burst of pings
\* loses none of them and pushes no error aside (tui/widget/menu.go, ui/shell.go).
ActsOnDrawn ==
  /\ []OwnAnswers /\ OnlyDrawnChosen /\ ClickOpensShown
  /\ []PingNotLost /\ ErrorsStay /\ ClickTakesShown

\* Choosing "Delete" asks for a confirmation.
ConfirmAsked == [][OnMenu /\ did' = "delete" => popup' # Absent /\ popup'.items = ConfirmItems]_popupsVars
=============================================================================
