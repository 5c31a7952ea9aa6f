------------------------------- MODULE Shell -------------------------------
(***************************************************************************)
(* Who gets the keys: the composer's input mode in ui/shell.go, the        *)
(* layers over it, the reply and edit modes of ui/main.go, and the focus   *)
(* ring of tui/focus.go and tui/app.go that carries focus requests out.    *)
(*                                                                         *)
(* The UI goroutine repeats: run posted closures, render, take one event.  *)
(* The shell cannot focus a widget the last frame did not show, so it      *)
(* files a request; the runtime takes it after the event, and when the     *)
(* widget is not yet in the ring keeps it for the next frame.  Everything  *)
(* that happens meanwhile (a closed overlay, another channel or account, a *)
(* plugin's panel, a lost permission) has to revoke it.                    *)
(*                                                                         *)
(* An image pasted from the clipboard is written to a temporary file by a  *)
(* worker; who deletes it is followed until the program ends.              *)
(***************************************************************************)
EXTENDS Naturals

CONSTANTS
  Accounts,  \* connected accounts
  Channels,  \* channels both accounts see
  Forums,    \* those that are forums
  MaxStaged, \* bound: pasted images in the composer
  PasteWith, \* bound: the values of vim with which pastes are followed
  None       \* no channel, no target, no request

\* None is no channel and no widget.
ASSUME ShellAssumption ==
  None \notin Channels \union {"composer", "chat", "forum", "side", "overlay"}

VARIABLES
  vim,    \* accessibility.vim_navigation
  acct,   \* the account on screen
  active, \* each account's selected channel
  locked, \* channels the user may not write to
  hidden, \* the terminal is too small to show the composer
  u,      \* shell and main view, a record (see Blank)
  focus,  \* the focused widget
  ring,   \* the widgets of the last frame that take focus
  dirty,  \* the loop has to render before the next event
  clip,   \* the clipboard worker and its closure
  disk,   \* temporary files that exist
  life    \* open, closing (Close waits for workers), closed, done

vars == <<vim, acct, active, locked, hidden, u, focus, ring, dirty, clip, disk, life>>

Widgets == {"composer", "chat", "forum", "side", "overlay"}

Here == active[acct]

NoTarget == <<None, None>>

(* --------------------------- composer status --------------------------- *)

editorStatusActive(v) == vim /\ v.phase # "normal"

Status(v) ==
  IF v.readOnly THEN [input |-> FALSE, mode |-> "normal", readOnly |-> TRUE]
  ELSE [input |-> editorStatusActive(v), mode |-> v.mode, readOnly |-> FALSE]

updateComposerStatus(v) == [v EXCEPT !.shown = Status(v)]

(* ------------------------ the editor's interaction --------------------- *)

\* A new generation: whatever the runtime still holds is stale.
cancelFocusRequest(v) == [v EXCEPT !.req = None, !.ready = FALSE, !.live = FALSE]

queueFocus(v, w) == [v EXCEPT !.req = w, !.ready = TRUE, !.live = FALSE]

exitEditor(v, c) ==
  updateComposerStatus(
    [cancelFocusRequest(v) EXCEPT !.phase = "normal", !.chan = c, !.repl = FALSE, !.owned = FALSE,
                                  !.enabled = ~vim])

leaveInputMode(v, c) == IF v.phase = "normal" THEN v ELSE queueFocus(exitEditor(v, c), "chat")

beginComposerInput(v, c, repl) ==
  IF ~vim \/ v.readOnly \/ v.overlay # "none" THEN v
  ELSE updateComposerStatus(
         queueFocus([v EXCEPT !.phase = "pending", !.chan = c, !.enabled = TRUE,
                              !.repl = repl \/ v.popup = "viewport"], "composer"))

focusComposer(v, c) ==
  CASE v.readOnly -> IF vim THEN exitEditor(v, c) ELSE v
    [] ~v.readOnly /\ vim -> beginComposerInput(v, c, FALSE)
    [] OTHER -> queueFocus(v, "composer")

(* ------------------------------- overlays ------------------------------ *)

Detach(v, c) == IF vim /\ v.phase # "normal" THEN exitEditor(v, c) ELSE cancelFocusRequest(v)

\* Mutant: a panel over the editor leaves the phase alone.
PanelOverInput(v, c) == [cancelFocusRequest(v) EXCEPT !.owned = FALSE, !.overlay = "panel"]

setIndependentOverlay(v, c) == [Detach(v, c) EXCEPT !.owned = FALSE, !.overlay = "panel"]

setComposerOverlay(v, kind) ==
  LET o == [cancelFocusRequest(v) EXCEPT !.owned = TRUE, !.overlay = kind]
  IN IF vim /\ v.phase \in {"input", "pending"}
     THEN updateComposerStatus([o EXCEPT !.phase = "suspended", !.repl = FALSE, !.enabled = FALSE])
     ELSE o

closeOverlay(v, c) ==
  LET resume == v.overlay # "none" /\ v.owned /\ v.phase = "suspended" /\ v.chan = c /\ ~v.readOnly
      o == [v EXCEPT !.overlay = "none", !.owned = FALSE]
  IN IF resume THEN beginComposerInput(o, c, TRUE)
     ELSE IF v.phase = "suspended" THEN exitEditor(o, c) ELSE o

setPopup(v, c) == [Detach(v, c) EXCEPT !.popup = "menu", !.menu = c]

closePopup(v) == [v EXCEPT !.popup = "none", !.menu = None]

(* ------------------------- reply, edit, channels ----------------------- *)

CancelComposerMode(v) ==
  IF v.mode = "normal" THEN v
  ELSE updateComposerStatus([v EXCEPT !.mode = "normal", !.target = NoTarget, !.draft = "empty"])

\* BeginReply and BeginEdit of a message in channel m, while c is selected.
BeginMode(v, c, m, mode) ==
  IF c # None /\ m # c THEN v
  ELSE updateComposerStatus([v EXCEPT !.mode = mode, !.target = <<acct, m>>,
                                      !.draft = IF mode = "edit" THEN "text" ELSE @])

\* Mutant: a selected channel keeps the reply begun in another one.
KeepMode(v, from, to) == IF from = to THEN v ELSE exitEditor(v, to)

handleActiveChannelChange(v, from, to) ==
  IF from = to THEN v
  ELSE LET x == exitEditor(v, to)
       IN IF x.mode # "normal" /\ x.target[2] # to THEN CancelComposerMode(x) ELSE x

channelReadOnly(c) == c \in locked \ Forums

updateChannelChrome(v, c) ==
  IF v.forum # None THEN v
  ELSE updateComposerStatus([v EXCEPT !.readOnly = channelReadOnly(c)])

openForum(v, c) == updateComposerStatus([v EXCEPT !.forum = c, !.readOnly = FALSE])

showChat(v) == [v EXCEPT !.forum = None]

onChannelSelected(v, from, to) ==
  LET x == handleActiveChannelChange(v, from, to)
  IN IF to \in Forums THEN openForum(x, to) ELSE updateChannelChrome(showChat(x), to)

\* The quick switchers do not leave the forum view.
switchTo(v, from, to) == updateChannelChrome(handleActiveChannelChange(v, from, to), to)

\* A refresh with no selected channel may pick the first one of the list.
Refreshed(v, from) ==
  {<<updateChannelChrome(v, from), from>>} \cup
  (IF from = None THEN {<<onChannelSelected(v, None, c), c>> : c \in Channels} ELSE {})

(* --------------------------- the focus runtime ------------------------- *)

composerWritable(v) == ~v.readOnly

canFocus(v, w) == w = "composer" => v.enabled /\ ~v.readOnly

\* Is the request for w, which is (cur) or is not of this generation, valid?
FocusRequestValid(v, w, cur) ==
  /\ cur
  /\ w = "composer" =>
       /\ composerWritable(v) /\ v.overlay = "none"
       /\ vim => v.phase = "pending" /\ v.chan = Here

FocusRequestDone(v, w, cur, applied) ==
  LET x == [v EXCEPT !.req = None, !.ready = FALSE, !.live = FALSE]
  IN CASE ~cur -> v
       [] cur /\ applied /\ w = "composer" /\ x.phase = "pending" ->
            updateComposerStatus([x EXCEPT !.phase = "input", !.repl = FALSE])
       [] cur /\ ~applied /\ x.phase = "pending" -> exitEditor(x, Here)
       [] OTHER -> x

Superseded(v, w) == IF v.req # None /\ w # v.req THEN cancelFocusRequest(v) ELSE v

FocusChanged(v, w, reason) ==
  CASE ~vim \/ v.phase = "normal" -> Superseded(v, w)
    [] vim /\ v.phase = "pending" /\ w = "composer" ->
         IF ~composerWritable(v) \/ v.overlay # "none" \/ v.chan # Here THEN exitEditor(v, Here)
         ELSE updateComposerStatus([v EXCEPT !.phase = "input", !.repl = FALSE])
    [] vim /\ v.phase = "pending" /\ w # "composer" ->
         IF reason = "replace" /\ v.repl THEN [v EXCEPT !.repl = FALSE] ELSE exitEditor(v, Here)
    [] vim /\ v.phase = "input" -> IF w # "composer" THEN exitEditor(v, Here) ELSE v
    [] OTHER -> v

\* What a step of the UI leaves behind: the shell and the focused widget.
At(v, w) == [v |-> v, w |-> w]

\* consumeFocusRequests and installFocusRequest, after an event.
consumeFocusRequests(v, w) ==
  LET t == [v EXCEPT !.ready = FALSE]
      d == FocusChanged(t, v.req, "direct")
      drop == [d EXCEPT !.pend = None]
  IN CASE ~v.ready -> At(v, w)
       [] v.ready /\ ~FocusRequestValid(t, v.req, TRUE) -> At(FocusRequestDone(t, v.req, TRUE, FALSE), w)
       [] v.ready /\ FocusRequestValid(t, v.req, TRUE) /\ v.req \in ring /\ canFocus(t, v.req) ->
            At(FocusRequestDone(drop, v.req, d.req # None, TRUE), v.req)
       [] OTHER -> At([t EXCEPT !.pend = v.req, !.live = TRUE], w)

applyPendingFocus(v, w, r) ==
  LET none == [v EXCEPT !.pend = None]
      d == [FocusChanged(v, v.pend, "direct") EXCEPT !.pend = None]
  IN CASE v.pend = None -> At(v, w)
       [] v.pend # None /\ ~FocusRequestValid(v, v.pend, v.live) ->
            At(FocusRequestDone(none, v.pend, v.live, FALSE), w)
       [] v.pend # None /\ FocusRequestValid(v, v.pend, v.live) /\ v.pend \in r /\ canFocus(v, v.pend) ->
            At(FocusRequestDone(d, v.pend, d.live, TRUE), v.pend)
       [] OTHER -> At(v, w)

\* The widgets of a frame, and the one that is focused when nothing else is.
visibleWidgets(v) ==
  IF v.overlay # "none" THEN {"overlay"}
  ELSE {"side", IF v.forum # None THEN "forum" ELSE "chat"}
       \cup (IF canFocus(v, "composer") /\ ~hidden THEN {"composer"} ELSE {})

Preferred(r) ==
  CASE "overlay" \in r -> "overlay"
    [] ~vim /\ "composer" \in r -> "composer"
    [] vim /\ "chat" \in r -> "chat"
    [] OTHER -> "side"

Render ==
  /\ dirty /\ life = "open"
  /\ LET r == visibleWidgets(u)
         w == IF focus \in r THEN focus ELSE Preferred(r)
         v == IF w = focus THEN u ELSE FocusChanged(u, w, "replace")
         n == applyPendingFocus(v, w, r)
     IN ring' = r /\ u' = n.v /\ focus' = n.w
  /\ dirty' = FALSE
  /\ UNCHANGED <<vim, acct, active, locked, hidden, clip, disk, life>>

(* -------------------------------- events ------------------------------- *)

\* The loop takes an event only when the frame is up to date, and asks the
\* shell for a focus request once the event has been handled.
Event(v, w) ==
  /\ ~dirty /\ life = "open"
  /\ LET n == consumeFocusRequests(v, w) IN u' = n.v /\ focus' = n.w
  /\ dirty' = TRUE
  /\ UNCHANGED <<vim, locked, hidden, ring, clip>>

Stay == UNCHANGED <<acct, active, disk, life>>

OnMain == u.overlay = "none" /\ u.popup # "menu"

Composing == focus = "composer" /\ canFocus(u, "composer") /\ OnMain

KeyEsc ==
  /\ u.popup # "menu" /\ Stay
  /\ LET Leave == CASE u.overlay # "none" -> closeOverlay(u, Here)
                    [] u.overlay = "none" /\ u.phase = "input" -> leaveInputMode(u, Here)
                    [] u.overlay = "none" /\ u.phase = "pending" -> exitEditor(u, Here)
                    [] OTHER -> CancelComposerMode(u)
     IN Event(Leave, focus)

KeyInsert ==
  /\ OnMain /\ vim /\ u.phase = "normal" /\ composerWritable(u)
  /\ Event(beginComposerInput(u, Here, FALSE), focus) /\ Stay

KeyFocusComposer ==
  /\ OnMain /\ composerWritable(u) /\ (vim => u.phase = "normal")
  /\ Event(focusComposer(u, Here), focus) /\ Stay

\* Tab, the panel keys, alt with an arrow, or a press of the mouse.
MoveFocus(w) ==
  /\ u.popup # "menu" /\ w \in ring /\ canFocus(u, w)
  /\ Event(FocusChanged(u, w, "direct"), w) /\ Stay

composerChanged(v, text) ==
  CASE text = "slash" -> [v EXCEPT !.draft = "slash",
                                   !.loading = IF @ = None THEN Here ELSE @]
    [] text = "trigger" -> setComposerOverlay([v EXCEPT !.draft = "text"], "completion")
    [] text = "quit" -> IF vim /\ v.phase # "normal" THEN leaveInputMode(v, Here) ELSE v
    [] OTHER -> [v EXCEPT !.draft = "text"]

Type(text) ==
  /\ Composing
  /\ text = "slash" => u.draft = "empty"
  /\ Event(composerChanged(u, text), focus) /\ Stay

clearAttachments(v) == [v EXCEPT !.staged = 0]

handleComposerBackspaceEmpty ==
  /\ Composing /\ u.draft = "empty"
  /\ Event(IF u.staged > 0 THEN clearAttachments(u) ELSE leaveInputMode(u, Here), focus)
  /\ disk' = disk - u.staged /\ UNCHANGED <<acct, active, life>>

\* Enter: the message, the reply or the edit goes out, or a forum post is begun.
onSend ==
  /\ Composing
  /\ u.mode = "normal" \/ u.target[2] = Here
  /\ u.draft # "empty" \/ u.staged > 0
  /\ LET sent == clearAttachments(CancelComposerMode([u EXCEPT !.draft = "empty"]))
     IN IF u.forum # None
        THEN /\ Event([setIndependentOverlay(u, Here) EXCEPT !.draft = "empty"], focus) /\ disk' = disk
        ELSE Event(sent, focus) /\ disk' = disk - u.staged
  /\ UNCHANGED <<acct, active, life>>

\* The guard of onSend: a target of another channel is dropped, not sent.
RefuseSend ==
  /\ Composing /\ u.mode # "normal" /\ u.target[2] # Here
  /\ Event(CancelComposerMode(u), focus) /\ Stay

\* ";switch" and ";settings" open a panel; the command's text is consumed.
runLocalCommand ==
  /\ Composing /\ u.draft = "text" /\ u.mode = "normal"
  /\ Event([setIndependentOverlay(u, Here) EXCEPT !.draft = "empty"], focus) /\ Stay

handleMessageAction(mode) ==
  /\ OnMain /\ focus = "chat" /\ Here # None
  /\ Event(focusComposer(BeginMode(u, Here, Here, mode), Here), focus) /\ Stay

\* The right button first focuses the transcript, then opens the menu.
openMessageMenu ==
  /\ OnMain /\ "chat" \in ring /\ Here # None
  /\ Event(setPopup(FocusChanged(u, "chat", "pointer"), Here), "chat") /\ Stay

MenuSelect(mode) ==
  /\ u.popup = "menu"
  /\ Event(focusComposer(BeginMode(closePopup(u), Here, u.menu, mode), Here), focus) /\ Stay

MenuDismiss == u.popup = "menu" /\ Event(closePopup(u), focus) /\ Stay

OpenPanel == OnMain /\ Event(setIndependentOverlay(u, Here), focus) /\ Stay

openPicker == OnMain /\ Event(setComposerOverlay(u, "picker"), focus) /\ Stay

Go(c) == active' = [active EXCEPT ![acct] = c]

\* An entry of a switcher: a channel is selected, then the overlay closes.
PickChannel(c) ==
  /\ u.overlay \in {"completion", "panel"} /\ u.popup # "menu"
  /\ Event(closeOverlay(switchTo(u, Here, c), c), focus)
  /\ Go(c) /\ UNCHANGED <<acct, disk, life>>

\* An entry that inserts text, or a slash command that is submitted.
PickInsert(draft) ==
  /\ u.overlay \in {"completion", "picker"} /\ u.popup # "menu"
  /\ Event(closeOverlay([u EXCEPT !.draft = draft], Here), focus) /\ Stay

SelectChannel(c) ==
  /\ OnMain /\ focus = "side"
  /\ Event(onChannelSelected(u, Here, c), focus)
  /\ Go(c) /\ UNCHANGED <<acct, disk, life>>

onOpenPost(c) ==
  /\ OnMain /\ focus = "forum" /\ c \notin Forums
  /\ Event(updateChannelChrome(showChat(handleActiveChannelChange(u, Here, c)), c), focus)
  /\ Go(c) /\ UNCHANGED <<acct, disk, life>>

\* A click on the toast of an incoming message of the account on screen.
ToastActivate(c) ==
  /\ Event(onChannelSelected(closeOverlay(closePopup(u), Here), Here, c), focus)
  /\ Go(c) /\ UNCHANGED <<acct, disk, life>>

\* A key nobody handles still lets the runtime take a waiting request.
UnboundKey == Event(u, focus) /\ Stay

Resize ==
  /\ hidden' = ~hidden /\ dirty' = TRUE /\ life = "open" /\ ~dirty
  /\ UNCHANGED <<vim, acct, active, locked, u, focus, ring, clip, disk, life>>

(* -------------------------- closures on the UI ------------------------- *)

\* Closures run before a frame; nobody takes the focus requests they file.
\* Of those that run after Close only the clipboard's is followed.
Post(v) ==
  /\ life = "open"
  /\ u' = v /\ dirty' = TRUE
  /\ UNCHANGED <<vim, hidden, focus, ring, clip, life>>

OpenPluginOverlay == Post(setIndependentOverlay(u, Here)) /\ UNCHANGED <<acct, active, locked, disk>>

OpenPluginViewport ==
  Post([u EXCEPT !.popup = "viewport", !.menu = None]) /\ UNCHANGED <<acct, active, locked, disk>>

\* The closure of openCommandPicker: the commands are there, or failed to load.
CommandsLoaded ==
  /\ u.loading # None
  /\ LET v == [u EXCEPT !.loading = None]
     IN \/ Post(v)
        \/ /\ v.overlay = "none" /\ Here = u.loading /\ v.draft = "slash"
           /\ vim => v.phase = "input"
           /\ Post(setComposerOverlay(v, "completion"))
  /\ UNCHANGED <<acct, active, locked, disk>>

\* A role or an overwrite changes what the user may do; a refresh follows.
PermissionChange(c) ==
  /\ c \notin Forums
  /\ \E n \in {IF c \in locked THEN locked \ {c} ELSE locked \cup {c}} :
    /\ locked' = n
    /\ LET ro(v) == IF v.forum # None THEN v
                    ELSE updateComposerStatus([v EXCEPT !.readOnly = Here \in n \ Forums])
       IN Post(ro(u))
    /\ UNCHANGED <<acct, active, disk>>

\* repairActiveChannel and the refresh that follows, for the account on screen.
ChannelRemoved ==
  /\ Here # None
  /\ \E n \in Refreshed(handleActiveChannelChange(u, Here, None), None) :
       /\ n[2] # Here
       /\ Post(n[1]) /\ Go(n[2])
  /\ UNCHANGED <<acct, locked, disk>>

\* The same in another account: its selection goes, the screen is not touched.
ChannelRemovedElsewhere(a) ==
  /\ a # acct /\ active[a] # None /\ life = "open"
  /\ active' = [active EXCEPT ![a] = None]
  /\ UNCHANGED <<vim, acct, locked, hidden, u, focus, ring, dirty, clip, disk, life>>

resetAccountState(v) ==
  clearAttachments(showChat([v EXCEPT !.mode = "normal", !.target = NoTarget, !.draft = "empty"]))

\* MainView.SetActiveAccount, then Shell.SetActiveAccount.
SetActiveAccount(a) ==
  /\ a # acct
  /\ \E n \in Refreshed(resetAccountState(u), active[a]) :
       /\ Post(exitEditor(closePopup([n[1] EXCEPT !.overlay = "none", !.owned = FALSE]), n[2]))
       /\ active' = [active EXCEPT ![a] = n[2]]
  /\ acct' = a /\ disk' = disk - u.staged
  /\ UNCHANGED locked

\* A video that ended by itself posts closeOverlay; the user may have closed
\* it in the meantime and opened something else.
EndedVideoCloses == Post(closeOverlay(u, Here)) /\ UNCHANGED <<acct, active, locked, disk>>

(* ------------------------ pasted clipboard images ---------------------- *)

tryPasteImage ==
  /\ clip = "idle" /\ life = "open" /\ ~dirty /\ OnMain /\ u.staged < MaxStaged /\ vim \in PasteWith
  /\ clip' = "reading" /\ dirty' = TRUE
  /\ UNCHANGED <<vim, acct, active, locked, hidden, u, focus, ring, disk, life>>

Worker == UNCHANGED <<vim, acct, active, locked, hidden, u, focus, ring, dirty, life>>

\* The clipboard tool is killed when its context ends, before it has data.
ReadImage == clip = "reading" /\ life = "open" /\ clip' = "written" /\ disk' = disk + 1 /\ Worker

ReadFails == clip = "reading" /\ clip' = "failed" /\ UNCHANGED disk /\ Worker

\* finishClipboardPaste on the worker: hand the file over, or delete it.
finishClipboardPaste ==
  /\ clip \in {"written", "failed"} /\ Worker
  /\ IF life = "open"
     THEN clip' = (IF clip = "written" THEN "filed" ELSE "erred") /\ UNCHANGED disk
     ELSE clip' = "idle" /\ disk' = disk - (IF clip = "written" THEN 1 ELSE 0)

\* Its closure: a live shell stages the file unless the channel is read-only
\* or the deadline passed, which deletes it.
StageTempImage ==
  /\ clip \in {"filed", "erred"} /\ life \in {"open", "closed"} /\ clip' = "idle" /\ dirty' = TRUE
  /\ \/ /\ clip = "filed" /\ life = "open" /\ ~u.readOnly
        /\ u' = [u EXCEPT !.staged = @ + 1] /\ UNCHANGED disk
     \/ /\ UNCHANGED u /\ disk' = disk - (IF clip = "filed" THEN 1 ELSE 0)
  /\ UNCHANGED <<vim, acct, active, locked, hidden, focus, ring, life>>

(* ------------------------------ shutdown ------------------------------- *)

\* ;quit, ctrl-c or the end of the terminal: Close cancels and waits.
BeginClose ==
  /\ life = "open" /\ ~dirty /\ life' = "closing"
  /\ UNCHANGED <<vim, acct, active, locked, hidden, u, focus, ring, dirty, clip, disk>>

Close ==
  /\ life = "closing" /\ clip \notin {"reading", "written", "failed"}
  /\ u' = [exitEditor(closePopup(clearAttachments(u)), Here) EXCEPT !.overlay = "none"]
  /\ disk' = disk - u.staged /\ life' = "closed"
  /\ UNCHANGED <<vim, acct, active, locked, hidden, focus, ring, dirty, clip>>

\* stopPosts and the last drainPosts: every accepted closure has run.
Stopped ==
  /\ life = "closed" /\ clip \notin {"filed", "erred"} /\ life' = "done"
  /\ UNCHANGED <<vim, acct, active, locked, hidden, u, focus, ring, dirty, clip, disk>>

(* ---------------------------- specification ---------------------------- *)

\* The shell and the main view when the program starts: the editor (its
\* phase, the channel it is for, whether a replaced focus is forgiven, whether
\* the composer accepts focus), the focus request of this generation and the
\* one the runtime holds (live: of this generation), the layers over the main
\* view, the reply or edit with its account and channel, and the composer.
Blank ==
  [phase |-> "normal", chan |-> None, repl |-> FALSE, enabled |-> ~vim,
   req |-> None, ready |-> FALSE, pend |-> None, live |-> FALSE,
   overlay |-> "none", owned |-> FALSE, popup |-> "none", menu |-> None,
   mode |-> "normal", target |-> NoTarget, readOnly |-> FALSE, forum |-> None,
   draft |-> "empty", loading |-> None, staged |-> 0,
   shown |-> [input |-> FALSE, mode |-> "normal", readOnly |-> FALSE]]

Init ==
  /\ vim \in BOOLEAN /\ acct \in Accounts /\ active = [a \in Accounts |-> None]
  /\ locked = {} /\ hidden = FALSE
  /\ u = Blank /\ focus = "side" /\ ring = {"side"} /\ dirty = TRUE
  /\ clip = "idle" /\ disk = 0 /\ life = "open"

Keys ==
  \/ KeyEsc \/ KeyInsert \/ KeyFocusComposer
  \/ \E w \in Widgets : MoveFocus(w)
  \/ \E text \in {"text", "slash", "trigger", "quit"} : Type(text)
  \/ handleComposerBackspaceEmpty \/ onSend \/ RefuseSend \/ runLocalCommand
  \/ \E mode \in {"reply", "edit"} : handleMessageAction(mode) \/ MenuSelect(mode)
  \/ openMessageMenu \/ MenuDismiss \/ OpenPanel \/ openPicker
  \/ \E c \in Channels : PickChannel(c) \/ SelectChannel(c) \/ onOpenPost(c) \/ ToastActivate(c)
  \/ \E draft \in {"text", "empty"} : PickInsert(draft)
  \/ UnboundKey \/ Resize

Closures ==
  \/ OpenPluginOverlay \/ OpenPluginViewport \/ CommandsLoaded \/ ChannelRemoved \/ EndedVideoCloses
  \/ \E c \in Channels : PermissionChange(c)
  \/ \E a \in Accounts : ChannelRemovedElsewhere(a) \/ SetActiveAccount(a)

Paste == tryPasteImage \/ ReadImage \/ ReadFails \/ finishClipboardPaste \/ StageTempImage

Next == Render \/ Keys \/ Closures \/ Paste \/ BeginClose \/ Close \/ Stopped

Spec == Init /\ [][Next]_vars

(* ------------------------------ properties ----------------------------- *)

\* With Vim keys, INPUT means the composer has the focus, in the channel
\* where the user began to type, and nothing lies over it; and once a frame
\* is up, a composer that has the focus shows INPUT, so that no key is taken
\* for text while the status line promises commands
\* (shell.go:991, the invariant FocusChanged enforces).
InputIffComposer ==
  vim => /\ u.phase = "input" => (focus = "composer" /\ u.overlay = "none" /\ u.chan = Here)
         /\ (~dirty /\ life = "open" /\ focus = "composer") => u.shown.input

\* An editor that waits for the focus has a request that is still valid in
\* its generation, either to be taken or held for the next frame; one that is
\* suspended has the overlay that will wake it.  Otherwise it would wait for
\* ever (shell.go:936-980, app.go:536).
PendingHasRequest ==
  /\ u.phase = "pending" =>
       u.req = "composer" /\ (u.ready \/ (u.live /\ u.pend = "composer"))
  /\ u.phase = "suspended" => (u.overlay # "none" /\ u.owned)
  /\ u.live => u.pend = u.req

\* The status line over the composer, which is only rewritten when somebody
\* remembers to, always names the mode and the permission that are in force
\* (main.go:1794).
StatusTruthful == u.shown = Status(u)

\* A reply or an edit in progress is for a message of the account and the
\* channel on screen, however they changed meanwhile (main.go:576, 691).
TargetOnScreen ==
  u.mode # "normal" => (u.target[1] = acct /\ (Here # None => u.target[2] = Here))

\* Every temporary file has exactly one owner, the worker, the closure it
\* posted or the composer, and none is left when the program has ended, not
\* even when it ends in the middle of a paste (shell.go:755, 2177).
FilesOwned ==
  /\ disk = u.staged + (IF clip \in {"written", "filed"} THEN 1 ELSE 0)
  /\ life = "done" => disk = 0

\* Keys go where the screen says they go: INPUT is shown just while the
\* composer has the focus and nothing lies over it, and an editor that waits
\* for the focus will be given it (shell.go:936-991, app.go:536).
FocusHonest == InputIffComposer /\ PendingHasRequest

\* What the composer claims is so, whatever account or channel was switched
\* to, and whatever was pasted or closed meanwhile: its status line, the
\* message it answers or edits, and the files it has staged
\* (main.go:576, 691, 1794; shell.go:755, 2177).
ComposerHonest == StatusTruthful /\ TargetOnScreen /\ FilesOwned

(* ------------------------- inductive invariant ------------------------- *)

ChannelOrNone == Channels \union {None}

WidgetOrNone == Widgets \union {None}

\* What a status line may read, and what shell and main view may hold.
Statuses == [input : BOOLEAN, mode : {"normal", "reply", "edit"}, readOnly : BOOLEAN]

Views ==
  [phase : {"normal", "pending", "input", "suspended"}, chan : ChannelOrNone,
   repl : BOOLEAN, enabled : BOOLEAN,
   req : WidgetOrNone, ready : BOOLEAN, pend : WidgetOrNone, live : BOOLEAN,
   overlay : {"none", "panel", "completion", "picker"}, owned : BOOLEAN,
   popup : {"none", "menu", "viewport"}, menu : ChannelOrNone,
   mode : {"normal", "reply", "edit"},
   target : (Accounts \union {None}) \X ChannelOrNone,
   readOnly : BOOLEAN, forum : ChannelOrNone, draft : {"empty", "text", "slash"},
   loading : ChannelOrNone, staged : Nat, shown : Statuses]

\* An editor that takes text has the focus w and the channel c, and one that is
\* suspended the layer that wakes it.
EditorPlaced(v, w, c) ==
  /\ v.phase # "normal" => vim /\ v.chan = c
  /\ vim => (v.enabled <=> v.phase \in {"pending", "input"})
  /\ v.phase = "input" => w = "composer" /\ v.overlay = "none"
  /\ v.phase = "suspended" => v.overlay # "none" /\ v.owned

\* One that waits for the focus has a request on its way.
RequestPlaced(v) ==
  /\ v.phase = "pending" => v.req = "composer" /\ (v.ready \/ (v.live /\ v.pend = "composer"))
  /\ v.live => v.pend = v.req

Placed(v, w, c) == EditorPlaced(v, w, c) /\ RequestPlaced(v)

\* A view that tells the truth while w has the focus and channel c is selected.
Sound(v, w, c) == v \in Views /\ v.shown = Status(v) /\ Placed(v, w, c)

\* Its reply or edit is for account a and, when one is selected, channel c.
Answers(v, a, c) ==
  v.mode # "normal" => v.target[1] = a /\ (c # None => v.target[2] = c)

ShellTypes ==
  /\ vim \in BOOLEAN /\ acct \in Accounts /\ active \in [Accounts -> ChannelOrNone]
  /\ locked \subseteq Channels /\ hidden \in BOOLEAN /\ dirty \in BOOLEAN
  /\ focus \in Widgets /\ ring \subseteq Widgets /\ disk \in Nat
  /\ clip \in {"idle", "reading", "written", "failed", "filed", "erred"}
  /\ life \in {"open", "closing", "closed", "done"}

\* Once the frame is up, a focused composer is where text goes.
DrawnHonest == vim /\ ~dirty /\ life = "open" /\ focus = "composer" => u.shown.input

\* Close empties the composer after the worker, the last closure after Close.
Unstaged ==
  /\ life \in {"closed", "done"} => u.staged = 0 /\ clip \in {"idle", "filed", "erred"}
  /\ life = "done" => clip = "idle"

ShellIInv ==
  /\ ShellTypes
  /\ Sound(u, focus, Here)
  /\ Answers(u, acct, Here)
  /\ DrawnHonest
  /\ FilesOwned /\ Unstaged
=============================================================================
