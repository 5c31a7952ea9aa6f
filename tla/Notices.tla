------------------------------- MODULE Notices ------------------------------
(***************************************************************************)
(* Pings, errors and notices: the desktop notifier behind a bounded number *)
(* of goroutines, the toasts it falls back to (ui/shell.go), and the stack *)
(* of toasts with its expiry, keys and pointer (ui/toast.go).              *)
(*                                                                         *)
(* Time is abstract: the deadline of a toast passes at some moment, and    *)
(* the next tick finds it passed.                                          *)
(***************************************************************************)
EXTENDS Integers, SequencesExt, FiniteSets

CONSTANTS
  Pings,    \* the messages that ping, each once
  Errors,   \* the errors that are shown, as often as ErrorMax
  Slots,    \* maxConcurrentDesktopNotifications
  ScreenRows,     \* of the screen
  Lines,    \* of the text of a toast, when it is expanded
  ErrorMax, \* bound: how often errors are shown
  Absent

ASSUME NoticesAssumption == Pings \cap Errors = {}

VARIABLES
  unfocused, \* the terminal window does not have the focus
  arrived,   \* the pings so far
  slots,     \* the pings a goroutine is notifying of
  posts,     \* the pings posted to the UI goroutine for a toast
  toasts,    \* the stack, newest first
  bounds,    \* where each row's toast was last drawn: row -> toast, or Absent
  undrawn,     \* the frame is older than the state
  told,      \* the pings the desktop has shown
  ended,     \* the pings whose toast was activated, dismissed or expired
  errors     \* how many errors have been shown
noticesVars == <<unfocused, arrived, slots, posts, toasts, bounds, undrawn, told, ended, errors>>

Toasts == [what : Pings \cup Errors, old : BOOLEAN, expanded : BOOLEAN, repeats : Nat]
Toast(what) == [what |-> what, old |-> FALSE, expanded |-> FALSE, repeats |-> 1]
IsPing(t) == t.what \in Pings
IsError(t) == t.what \in Errors
Without(s, i) == SubSeq(s, 1, i - 1) \o SubSeq(s, i + 1, Len(s))

(* ----------------------------- notifications --------------------------- *)

\* NotifyIncomingMessage: a toast, or the desktop while the window has no focus.
ShowPing(p) ==
  /\ ~unfocused /\ toasts' = <<Toast(p)>> \o toasts
  /\ UNCHANGED <<slots, posts>>

\* Mutant: what the pool does not accept is dropped.
SaturatedDrops(p) ==
  /\ unfocused /\ Cardinality(slots) = Slots /\ UNCHANGED <<posts, slots, toasts>>

\* dispatchNotification refuses: every slot is taken.
Saturated(p) ==
  /\ unfocused /\ Cardinality(slots) = Slots /\ posts' = Append(posts, p)
  /\ UNCHANGED <<slots, toasts>>

Dispatched(p) ==
  /\ unfocused /\ Cardinality(slots) < Slots /\ slots' = slots \cup {p}
  /\ UNCHANGED <<posts, toasts>>

Ping(p) ==
  /\ p \notin arrived /\ arrived' = arrived \cup {p} /\ undrawn' = TRUE
  /\ ShowPing(p) \/ Saturated(p) \/ Dispatched(p)
  /\ UNCHANGED <<unfocused, bounds, told, ended, errors>>

\* notify: the desktop shows it; or it fails, or does not answer in time.
Notified(p) ==
  /\ p \in slots /\ slots' = slots \ {p} /\ told' = told \cup {p}
  /\ UNCHANGED <<unfocused, arrived, posts, toasts, bounds, undrawn, ended, errors>>
NotifyFails(p) ==
  /\ p \in slots /\ slots' = slots \ {p} /\ posts' = Append(posts, p)
  /\ UNCHANGED <<unfocused, arrived, toasts, bounds, undrawn, told, ended, errors>>

\* showIncomingMessageToast, posted.
ShowPosted ==
  /\ posts # <<>> /\ posts' = Tail(posts) /\ toasts' = <<Toast(Head(posts))>> \o toasts /\ undrawn' = TRUE
  /\ UNCHANGED <<unfocused, arrived, slots, bounds, told, ended, errors>>

\* ShowToast: an error that is shown already comes to the front, and counts.
ShowError(e) ==
  LET at == {i \in DOMAIN toasts : toasts[i].what = e}
  IN /\ errors < ErrorMax /\ errors' = errors + 1 /\ undrawn' = TRUE
     /\ toasts' = IF at = {} THEN <<Toast(e)>> \o toasts
                  ELSE LET i == CHOOSE k \in at : TRUE
                       IN <<[toasts[i] EXCEPT !.repeats = @ + 1]>> \o Without(toasts, i)
     /\ UNCHANGED <<unfocused, arrived, slots, posts, bounds, told, ended>>

(* -------------------------------- drawing ------------------------------ *)

\* The last row free under the i newest toasts: each takes four rows, or its text and two more.
Bottom(ts, i) ==
  ScreenRows - 1 - 4 * i - (IF Lines > 2 THEN Lines - 2 ELSE 0) * Cardinality({k \in 1 .. i : ts[k].expanded})

\* DrawOverlay: the newest at the bottom; a toast that has no row left is not drawn.
DrawnToasts(ts) ==
  [r \in 0 .. ScreenRows - 1 |->
     LET at == {i \in DOMAIN ts : Bottom(ts, i) < r /\ r <= Bottom(ts, i - 1)}
     IN IF at = {} THEN Absent ELSE ts[CHOOSE i \in at : TRUE].what]

DrawToasts ==
  /\ undrawn /\ undrawn' = FALSE /\ bounds' = DrawnToasts(toasts)
  /\ UNCHANGED <<unfocused, arrived, slots, posts, toasts, told, ended, errors>>

(* --------------------------------- input ------------------------------- *)

\* Mutant: an event is handled before the toasts are drawn where they are.
ToastEventEarly == undrawn' = TRUE /\ UNCHANGED <<arrived, slots, posts, bounds, told, errors>>
ToastEvent == ~undrawn /\ undrawn' = TRUE /\ UNCHANGED <<arrived, slots, posts, bounds, told, errors>>

WindowFocus(f) == f # ~unfocused /\ ToastEvent /\ unfocused' = ~f /\ UNCHANGED <<toasts, ended>>

\* The toasts that stay, in their order.
Staying(gone) ==
  LET kept == {i \in DOMAIN toasts : toasts[i] \notin gone}
  IN [k \in 1 .. Cardinality(kept) |-> toasts[CHOOSE i \in kept : Cardinality({j \in kept : j <= i}) = k]]

\* A toast goes: of a ping, that is the end of it.
TakeDown(gone) ==
  /\ toasts' = Staying(gone)
  /\ ended' = ended \cup {t.what : t \in {g \in gone : IsPing(g)}}
  /\ UNCHANGED unfocused

\* expired: nothing that has no deadline, or that is being read.
Expired(t) == t.old /\ ~t.expanded

\* The deadline of a toast passes; errors have none.
Age(i) ==
  /\ ~toasts[i].old /\ ~IsError(toasts[i]) /\ toasts' = [toasts EXCEPT ![i].old = TRUE]
  /\ UNCHANGED <<unfocused, arrived, slots, posts, bounds, undrawn, told, ended, errors>>

\* expireToasts, at a tick of the loop.
ExpireToasts == (\E t \in ToSet(toasts) : Expired(t)) /\ ToastEvent /\ TakeDown({t \in ToSet(toasts) : Expired(t)})

\* Handle and wantsDismiss, of a key the newest toast gets.
KeyDismiss == toasts # <<>> /\ ToastEvent /\ TakeDown({toasts[1]})
KeyEnter ==
  /\ toasts # <<>> /\ ToastEvent
  /\ IF IsPing(toasts[1]) THEN TakeDown({toasts[1]})
     ELSE toasts' = [toasts EXCEPT ![1].expanded = ~@] /\ UNCHANGED <<unfocused, ended>>
KeyToggle ==
  /\ toasts # <<>> /\ ToastEvent /\ toasts' = [toasts EXCEPT ![1].expanded = ~@] /\ UNCHANGED <<unfocused, ended>>

\* handleToastPointer: the toast drawn on that row, if it leads somewhere.
Click(row) ==
  LET hit == {t \in ToSet(toasts) : t.what = bounds[row]}
  IN /\ ToastEvent
     /\ IF hit # {} /\ (\A t \in hit : IsPing(t)) THEN TakeDown(hit) ELSE UNCHANGED <<toasts, ended, unfocused>>

NoticesInit ==
  /\ unfocused = FALSE /\ arrived = {} /\ slots = {} /\ posts = <<>> /\ toasts = <<>>
  /\ bounds = [r \in 0 .. ScreenRows - 1 |-> Absent] /\ undrawn = FALSE /\ told = {} /\ ended = {} /\ errors = 0

NoticesNext ==
  \/ \E p \in Pings : Ping(p) \/ Notified(p) \/ NotifyFails(p)
  \/ \E e \in Errors : ShowError(e)
  \/ ShowPosted \/ DrawToasts \/ ExpireToasts \/ KeyDismiss \/ KeyEnter \/ KeyToggle
  \/ \E f \in BOOLEAN : WindowFocus(f)
  \/ \E i \in DOMAIN toasts : Age(i)
  \/ \E r \in 0 .. ScreenRows - 1 : Click(r)

\* A notification ends, by its timeout if not before; the UI goroutine runs what is
\* posted and draws; deadlines pass and the ticker goes on.
NoticesFairness ==
  /\ WF_noticesVars(ShowPosted) /\ WF_noticesVars(DrawToasts) /\ SF_noticesVars(ExpireToasts)
  /\ \A p \in Pings : WF_noticesVars(Notified(p) \/ NotifyFails(p))

NoticesSpec == NoticesInit /\ [][NoticesNext]_noticesVars /\ NoticesFairness

(* ------------------------------ properties ----------------------------- *)

Toasted(p) == \E t \in ToSet(toasts) : t.what = p

\* No ping is lost: it is notified of, is about to be, or had its toast; also when the
\* notifier fails, hangs, or is not asked because a burst has taken every slot.
PingNotLost == \A p \in arrived : p \in slots \cup told \cup ended \/ p \in ToSet(posts) \/ Toasted(p)

\* The deadline of an error never passes.
ErrorsAgeless == \A t \in ToSet(toasts) : IsError(t) => ~t.old

\* The rows a click is looked up in are those of the toasts there are.
RowsFresh == ~undrawn => bounds = DrawnToasts(toasts)

NoticesTypeOK ==
  /\ toasts \in Seq(Toasts) /\ posts \in Seq(Pings)
  /\ arrived \subseteq Pings /\ slots \subseteq Pings /\ undrawn \in BOOLEAN

\* The inductive invariant.
NoticesInv == NoticesTypeOK /\ PingNotLost /\ ErrorsAgeless /\ RowsFresh

\* A ping is notified of or shown, whatever becomes of the notifier.
PingShown == \A p \in Pings : (p \in arrived) ~> (p \in told \cup ended \/ Toasted(p))

\* An error stays until it is dismissed as the newest toast: time does not remove it, nor
\* a click, nor the end of another toast.
ErrorsStay ==
  [][\A t \in ToSet(toasts) : IsError(t) /\ t # toasts[1] => \E s \in ToSet(toasts') : s.what = t.what]_noticesVars

\* A click opens the ping drawn on the row that is clicked, and removes no other toast,
\* although toasts come and go between the frames.
ClickTakesShown ==
  [][toasts' # toasts => \A r \in 0 .. ScreenRows - 1 : Click(r) => {t.what : t \in ToSet(toasts) \ ToSet(toasts')} \subseteq {DrawnToasts(toasts)[r]}]_noticesVars
=============================================================================
