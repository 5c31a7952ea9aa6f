----------------------------- MODULE ShellProofs -----------------------------
(* Safety of the shell, for any accounts, channels and forums: every step   *)
(* leaves a view that tells the truth, whose reply or edit is for what is   *)
(* on screen, and whose files have one owner.                               *)
EXTENDS Shell, TLAPS

-----------------------------------------------------------------------------
(* What an operator of the view leaves alone.                               *)

SameWork(v, x) == x.mode = v.mode /\ x.target = v.target /\ x.staged = v.staged

SameLayers(v, x) == x.overlay = v.overlay /\ x.popup = v.popup /\ x.menu = v.menu

SameEditor(v, x) ==
  x.phase = v.phase /\ x.chan = v.chan /\ x.repl = v.repl /\ x.enabled = v.enabled /\ x.owned = v.owned

SameRequest(v, x) == x.req = v.req /\ x.ready = v.ready /\ x.pend = v.pend /\ x.live = v.live

SameChrome(v, x) == x.readOnly = v.readOnly /\ x.forum = v.forum /\ x.draft = v.draft

-----------------------------------------------------------------------------
(* The editor's interaction.                                                *)

\* The status line is rewritten from the view, and nothing else.
LEMMA StatusRewritten ==
  ASSUME NEW v \in Views, vim \in BOOLEAN
  PROVE  LET x == updateComposerStatus(v)
         IN  /\ x \in Views /\ x.shown = Status(x)
             /\ SameWork(v, x) /\ SameLayers(v, x) /\ SameEditor(v, x) /\ SameRequest(v, x)
             /\ SameChrome(v, x)
<1>1. Status(v) \in Statuses
  BY DEF Status, Statuses, Views, editorStatusActive
<1>2. updateComposerStatus(v) \in Views
  BY <1>1 DEF updateComposerStatus, Views
<1>3. updateComposerStatus(v).shown = Status(updateComposerStatus(v))
  BY <1>1 DEF updateComposerStatus, Status, Views, editorStatusActive
<1>. QED
  BY <1>2, <1>3 DEF updateComposerStatus, Views, SameWork, SameLayers, SameEditor, SameRequest,
                    SameChrome

\* So a view that is placed becomes one that also tells the truth.
LEMMA RewrittenSound ==
  ASSUME NEW v \in Views, NEW w, NEW c, vim \in BOOLEAN, Placed(v, w, c)
  PROVE  LET x == updateComposerStatus(v)
         IN  Sound(x, w, c) /\ SameWork(v, x) /\ SameLayers(v, x) /\ SameChrome(v, x)
                            /\ SameRequest(v, x) /\ SameEditor(v, x)
<1>. DEFINE x == updateComposerStatus(v)
<1>1. /\ x \in Views /\ x.shown = Status(x)
      /\ SameWork(v, x) /\ SameLayers(v, x) /\ SameEditor(v, x) /\ SameRequest(v, x)
      /\ SameChrome(v, x)
  BY StatusRewritten
<1>. HIDE DEF x
<1>2. Placed(x, w, c)
  BY <1>1 DEF Placed, EditorPlaced, RequestPlaced, SameEditor, SameRequest, SameLayers
<1>. QED BY <1>1, <1>2 DEF Sound, x

\* Revoking the request of a view that waits for none is sound.
LEMMA CancelSound ==
  ASSUME NEW v \in Views, vim \in BOOLEAN
  PROVE  LET x == cancelFocusRequest(v)
         IN  /\ x \in Views /\ x.shown = v.shown /\ Status(x) = Status(v)
             /\ SameWork(v, x) /\ SameLayers(v, x) /\ SameEditor(v, x) /\ SameChrome(v, x)
             /\ ~x.ready /\ ~x.live /\ x.req = None
             /\ \A w, c : v.shown = Status(v) /\ EditorPlaced(v, w, c) /\ v.phase # "pending"
                            => Sound(x, w, c)
<1>. DEFINE x == cancelFocusRequest(v)
<1>1. x \in Views
  BY DEF cancelFocusRequest, Views, WidgetOrNone
<1>2. Status(x) = Status(v)
  BY DEF cancelFocusRequest, Views, Status, editorStatusActive
<1>3. /\ SameWork(v, x) /\ SameLayers(v, x) /\ SameEditor(v, x) /\ SameChrome(v, x)
      /\ ~x.ready /\ ~x.live /\ x.req = None /\ x.shown = v.shown
  BY DEF cancelFocusRequest, Views, SameWork, SameLayers, SameEditor, SameChrome
<1>. HIDE DEF x
<1>4. ASSUME NEW w, NEW c, v.shown = Status(v), EditorPlaced(v, w, c), v.phase # "pending"
      PROVE  Sound(x, w, c)
  BY <1>1, <1>2, <1>3, <1>4 DEF Sound, Placed, EditorPlaced, RequestPlaced, SameEditor, SameLayers
<1>. QED BY <1>1, <1>2, <1>3, <1>4 DEF x

\* Leaving the editor is sound whatever widget and channel come next.
LEMMA ExitSound ==
  ASSUME NEW v \in Views, NEW c \in ChannelOrNone, vim \in BOOLEAN
  PROVE  LET x == exitEditor(v, c)
         IN  /\ SameWork(v, x) /\ SameLayers(v, x) /\ SameChrome(v, x)
             /\ x.phase = "normal" /\ ~x.ready /\ ~x.live
             /\ \A w, d : Sound(x, w, d)
<1>. DEFINE z == cancelFocusRequest(v)
            y == [z EXCEPT !.phase = "normal", !.chan = c, !.repl = FALSE, !.owned = FALSE,
                           !.enabled = ~vim]
            x == exitEditor(v, c)
<1>1. /\ z \in Views /\ SameWork(v, z) /\ SameLayers(v, z) /\ SameChrome(v, z)
      /\ ~z.ready /\ ~z.live
  BY CancelSound
<1>2. x = updateComposerStatus(y)
  BY DEF exitEditor
<1>. HIDE DEF z
<1>3. y \in Views
  BY <1>1 DEF Views
<1>4. /\ y.phase = "normal" /\ ~y.ready /\ ~y.live /\ y.enabled = ~vim
      /\ SameWork(v, y) /\ SameLayers(v, y) /\ SameChrome(v, y)
  BY <1>1 DEF Views, SameWork, SameLayers, SameChrome
<1>. HIDE DEF y, x
<1>5. ASSUME NEW w, NEW d PROVE Placed(y, w, d)
  BY <1>4 DEF Placed, EditorPlaced, RequestPlaced
<1>6. ASSUME NEW w, NEW d PROVE Sound(x, w, d)
  BY <1>2, <1>3, <1>5, RewrittenSound
<1>7. SameWork(y, x) /\ SameLayers(y, x) /\ SameChrome(y, x) /\ SameEditor(y, x) /\ SameRequest(y, x)
  BY <1>2, <1>3, StatusRewritten
<1>. QED BY <1>4, <1>6, <1>7 DEF SameWork, SameLayers, SameChrome, SameEditor, SameRequest, x

\* Asking for the focus is sound but for an editor that waits for another widget.
LEMMA QueueSound ==
  ASSUME NEW v \in Views, NEW q \in Widgets, vim \in BOOLEAN
  PROVE  LET x == queueFocus(v, q)
         IN  /\ x \in Views /\ x.shown = v.shown /\ Status(x) = Status(v)
             /\ SameWork(v, x) /\ SameLayers(v, x) /\ SameEditor(v, x) /\ SameChrome(v, x)
             /\ x.req = q /\ x.ready /\ ~x.live
             /\ \A w, c : Sound(v, w, c) /\ (v.phase = "pending" => q = "composer") => Sound(x, w, c)
<1>. DEFINE x == queueFocus(v, q)
<1>1. x \in Views
  BY DEF queueFocus, Views, WidgetOrNone
<1>2. Status(x) = Status(v)
  BY DEF queueFocus, Views, Status, editorStatusActive
<1>3. /\ SameWork(v, x) /\ SameLayers(v, x) /\ SameEditor(v, x) /\ SameChrome(v, x)
      /\ x.req = q /\ x.ready /\ ~x.live /\ x.shown = v.shown
  BY DEF queueFocus, Views, SameWork, SameLayers, SameEditor, SameChrome
<1>. HIDE DEF x
<1>4. ASSUME NEW w, NEW c, v.phase = "pending" => q = "composer", Sound(v, w, c) PROVE Sound(x, w, c)
  BY <1>1, <1>2, <1>3, <1>4 DEF Sound, Placed, EditorPlaced, RequestPlaced, SameEditor, SameLayers
<1>. QED BY <1>1, <1>2, <1>3, <1>4 DEF x

\* Going back to the transcript.
LEMMA LeaveSound ==
  ASSUME NEW v, NEW w, NEW c \in ChannelOrNone, vim \in BOOLEAN, Sound(v, w, c)
  PROVE  LET x == leaveInputMode(v, c)
         IN  Sound(x, w, c) /\ SameWork(v, x) /\ SameLayers(v, x) /\ SameChrome(v, x)
<1>. DEFINE e == exitEditor(v, c)
<1>1. v \in Views
  BY DEF Sound
<1>2. /\ Sound(e, w, c) /\ e \in Views /\ e.phase = "normal"
      /\ SameWork(v, e) /\ SameLayers(v, e) /\ SameChrome(v, e)
  BY <1>1, ExitSound DEF Sound
<1>. HIDE DEF e
<1>3. LET x == queueFocus(e, "chat")
      IN  Sound(x, w, c) /\ SameWork(e, x) /\ SameLayers(e, x) /\ SameChrome(e, x)
  BY <1>2, QueueSound DEF Widgets
<1>. QED BY <1>2, <1>3 DEF leaveInputMode, SameWork, SameLayers, SameChrome, e

\* Entering the editor, even from one that was suspended.
LEMMA Begins ==
  ASSUME NEW v \in Views, NEW w, NEW c \in ChannelOrNone, NEW repl \in BOOLEAN, vim \in BOOLEAN,
         vim, ~v.readOnly, v.overlay = "none"
  PROVE  LET x == beginComposerInput(v, c, repl)
         IN  Sound(x, w, c) /\ SameWork(v, x) /\ SameLayers(v, x) /\ SameChrome(v, x)
<1>. DEFINE p == [v EXCEPT !.phase = "pending", !.chan = c, !.enabled = TRUE,
                           !.repl = repl \/ v.popup = "viewport"]
            q == queueFocus(p, "composer")
<1>1. p \in Views
  BY DEF Views
<1>2. /\ p.phase = "pending" /\ p.chan = c /\ p.enabled
      /\ SameWork(v, p) /\ SameLayers(v, p) /\ SameChrome(v, p)
  BY DEF Views, SameWork, SameLayers, SameChrome
<1>3. beginComposerInput(v, c, repl) = updateComposerStatus(q)
  BY DEF beginComposerInput
<1>. HIDE DEF p
<1>4. /\ q \in Views /\ q.req = "composer" /\ q.ready /\ ~q.live
      /\ SameWork(p, q) /\ SameLayers(p, q) /\ SameEditor(p, q) /\ SameChrome(p, q)
  BY <1>1, QueueSound DEF Widgets
<1>. HIDE DEF q
<1>5. Placed(q, w, c)
  BY <1>2, <1>4 DEF Placed, EditorPlaced, RequestPlaced, SameEditor
<1>. QED BY <1>2, <1>3, <1>4, <1>5, RewrittenSound DEF SameWork, SameLayers, SameChrome

\* So is entering it from a view that is sound.
LEMMA BeginSound ==
  ASSUME NEW v, NEW w, NEW c \in ChannelOrNone, NEW repl \in BOOLEAN, vim \in BOOLEAN, Sound(v, w, c)
  PROVE  LET x == beginComposerInput(v, c, repl)
         IN  Sound(x, w, c) /\ SameWork(v, x) /\ SameLayers(v, x) /\ SameChrome(v, x)
<1>1. CASE ~vim \/ v.readOnly \/ v.overlay # "none"
  BY <1>1 DEF beginComposerInput, SameWork, SameLayers, SameChrome
<1>2. CASE ~(~vim \/ v.readOnly \/ v.overlay # "none")
  BY <1>2, Begins DEF Sound
<1>. QED BY <1>1, <1>2

\* Asking for the composer, as every command that leads there does.
LEMMA FocusComposerSound ==
  ASSUME NEW v, NEW w, NEW c \in ChannelOrNone, vim \in BOOLEAN, Sound(v, w, c)
  PROVE  LET x == focusComposer(v, c)
         IN  Sound(x, w, c) /\ SameWork(v, x) /\ SameLayers(v, x) /\ SameChrome(v, x)
<1>. DEFINE x == focusComposer(v, c)
            P(y) == Sound(y, w, c) /\ SameWork(v, y) /\ SameLayers(v, y) /\ SameChrome(v, y)
<1>1. v \in Views
  BY DEF Sound
<1>2. P(v)
  BY DEF SameWork, SameLayers, SameChrome
<1>3. P(exitEditor(v, c))
  BY <1>1, ExitSound
<1>4. P(beginComposerInput(v, c, FALSE))
  BY BeginSound
<1>5. P(queueFocus(v, "composer"))
  BY <1>1, QueueSound DEF Widgets
<1>6. x \in {v, exitEditor(v, c), beginComposerInput(v, c, FALSE), queueFocus(v, "composer")}
  <2>1. v.readOnly \in BOOLEAN
    BY <1>1 DEF Views
  <2>. QED BY <2>1 DEF focusComposer
<1>. HIDE DEF x
<1>7. P(x)
  BY <1>2, <1>3, <1>4, <1>5, <1>6
<1>. QED BY <1>7 DEF x

-----------------------------------------------------------------------------
(* The layers over the main view.                                           *)

\* What covers the editor ends it.
LEMMA DetachSound ==
  ASSUME NEW v, NEW w, NEW c \in ChannelOrNone, vim \in BOOLEAN, Sound(v, w, c)
  PROVE  LET x == Detach(v, c)
         IN  /\ Sound(x, w, c) /\ x.phase = "normal"
             /\ SameWork(v, x) /\ SameLayers(v, x) /\ SameChrome(v, x)
<1>1. v \in Views
  BY DEF Sound
<1>2. CASE vim /\ v.phase # "normal"
  BY <1>1, <1>2, ExitSound DEF Detach
<1>3. CASE ~(vim /\ v.phase # "normal")
  <2>1. v.phase = "normal"
    BY <1>3 DEF Sound, Placed, EditorPlaced, RequestPlaced
  <2>. QED BY <1>1, <1>3, <2>1, CancelSound DEF Detach, SameEditor, Sound, Placed
<1>. QED BY <1>2, <1>3

\* A layer that is put over a view whose editor is at rest.
LEMMA LayerSound ==
  ASSUME NEW v, NEW w, NEW c, NEW o \in BOOLEAN, vim \in BOOLEAN, Sound(v, w, c), v.phase = "normal",
         NEW kind \in {"none", "panel", "completion", "picker"}
  PROVE  LET x == [v EXCEPT !.owned = o, !.overlay = kind]
         IN  Sound(x, w, c) /\ SameWork(v, x) /\ SameChrome(v, x) /\ x.phase = "normal"
<1>. DEFINE x == [v EXCEPT !.owned = o, !.overlay = kind]
<1>1. v \in Views
  BY DEF Sound
<1>2. x \in Views
  BY <1>1 DEF Views
<1>3. /\ SameWork(v, x) /\ SameChrome(v, x) /\ SameRequest(v, x) /\ Status(x) = Status(v)
      /\ x.phase = v.phase /\ x.enabled = v.enabled /\ x.shown = v.shown
  BY <1>1 DEF Views, SameWork, SameChrome, SameRequest, Status, editorStatusActive
<1>. HIDE DEF x
<1>4. Sound(x, w, c)
  BY <1>2, <1>3 DEF Sound, Placed, EditorPlaced, RequestPlaced, SameRequest
<1>. QED BY <1>3, <1>4 DEF x

\* A panel covers the editor.
LEMMA PanelSound ==
  ASSUME NEW v, NEW w, NEW c \in ChannelOrNone, vim \in BOOLEAN, Sound(v, w, c)
  PROVE  LET x == setIndependentOverlay(v, c)
         IN  Sound(x, w, c) /\ SameWork(v, x) /\ SameChrome(v, x)
<1>. DEFINE d == Detach(v, c)
<1>1. Sound(d, w, c) /\ d.phase = "normal" /\ SameWork(v, d) /\ SameChrome(v, d)
  BY DetachSound
<1>. HIDE DEF d
<1>2. LET x == [d EXCEPT !.owned = FALSE, !.overlay = "panel"]
      IN  Sound(x, w, c) /\ SameWork(d, x) /\ SameChrome(d, x)
  BY <1>1, LayerSound
<1>. QED BY <1>1, <1>2 DEF setIndependentOverlay, d, SameWork, SameChrome

\* A completion or picker suspends the editor, and wakes it when it closes.
LEMMA ComposerOverlaySound ==
  ASSUME NEW v, NEW w, NEW c, vim \in BOOLEAN, Sound(v, w, c),
         NEW kind \in {"panel", "completion", "picker"}
  PROVE  LET x == setComposerOverlay(v, kind)
         IN  Sound(x, w, c) /\ SameWork(v, x) /\ SameChrome(v, x)
<1>. DEFINE z == cancelFocusRequest(v)
            o == [z EXCEPT !.owned = TRUE, !.overlay = kind]
            p == [o EXCEPT !.phase = "suspended", !.repl = FALSE, !.enabled = FALSE]
            x == setComposerOverlay(v, kind)
<1>1. v \in Views
  BY DEF Sound
<1>2. /\ z \in Views /\ SameWork(v, z) /\ SameEditor(v, z) /\ SameChrome(v, z)
      /\ ~z.ready /\ ~z.live /\ z.shown = v.shown /\ Status(z) = Status(v)
  BY <1>1, CancelSound
<1>3. x = IF vim /\ v.phase \in {"input", "pending"} THEN updateComposerStatus(p) ELSE o
  BY DEF setComposerOverlay
<1>. HIDE DEF z, x
<1>4. o \in Views
  BY <1>2 DEF Views
<1>5. /\ SameWork(z, o) /\ SameChrome(z, o) /\ Status(o) = Status(z) /\ o.shown = z.shown
      /\ o.phase = z.phase /\ o.chan = z.chan /\ o.enabled = z.enabled
      /\ ~o.ready /\ ~o.live /\ o.overlay = kind /\ o.owned
  BY <1>2 DEF Views, SameWork, SameChrome, Status, editorStatusActive
<1>. HIDE DEF o
<1>6. CASE vim /\ v.phase \in {"input", "pending"}
  <2>1. p \in Views
    BY <1>4 DEF Views
  <2>2. /\ SameWork(o, p) /\ SameChrome(o, p) /\ p.phase = "suspended" /\ p.chan = o.chan
        /\ ~p.enabled /\ ~p.live /\ p.overlay = kind /\ p.owned
    BY <1>4, <1>5 DEF Views, SameWork, SameChrome
  <2>. HIDE DEF p
  <2>3. Placed(p, w, c)
    BY <1>2, <1>5, <1>6, <2>2 DEF Placed, EditorPlaced, RequestPlaced, Sound, SameEditor
  <2>4. Sound(updateComposerStatus(p), w, c) /\ SameWork(p, updateComposerStatus(p))
        /\ SameChrome(p, updateComposerStatus(p))
    BY <2>1, <2>3, RewrittenSound
  <2>. QED BY <1>2, <1>3, <1>5, <1>6, <2>2, <2>4 DEF SameWork, SameChrome, x
<1>7. CASE ~(vim /\ v.phase \in {"input", "pending"})
  <2>1. v.phase \in {"normal", "suspended"}
    BY <1>1, <1>7 DEF Sound, Placed, EditorPlaced, RequestPlaced, Views
  <2>2. Placed(o, w, c)
    BY <1>2, <1>5, <2>1 DEF Placed, EditorPlaced, RequestPlaced, Sound, SameEditor
  <2>. QED BY <1>2, <1>3, <1>4, <1>5, <1>7, <2>2 DEF Sound, SameWork, SameChrome, x
<1>. QED BY <1>6, <1>7

\* Closing a layer wakes the editor it suspended, in the same channel.
LEMMA CloseSound ==
  ASSUME NEW v, NEW w, NEW c \in ChannelOrNone, vim \in BOOLEAN, Sound(v, w, c)
  PROVE  LET x == closeOverlay(v, c)
         IN  /\ Sound(x, w, c) /\ SameWork(v, x) /\ SameChrome(v, x)
             /\ v.phase = "normal" /\ ~v.ready => x.phase = "normal" /\ ~x.ready
<1>. DEFINE o == [v EXCEPT !.overlay = "none", !.owned = FALSE]
            x == closeOverlay(v, c)
            resume == v.overlay # "none" /\ v.owned /\ v.phase = "suspended" /\ v.chan = c /\ ~v.readOnly
<1>1. v \in Views
  BY DEF Sound
<1>2. x = IF resume THEN beginComposerInput(o, c, TRUE)
          ELSE IF v.phase = "suspended" THEN exitEditor(o, c) ELSE o
  BY DEF closeOverlay
<1>3. o \in Views
  BY <1>1 DEF Views
<1>4. /\ SameWork(v, o) /\ SameChrome(v, o) /\ SameRequest(v, o) /\ Status(o) = Status(v)
      /\ o.phase = v.phase /\ o.chan = v.chan /\ o.enabled = v.enabled /\ o.shown = v.shown
      /\ o.overlay = "none"
  BY <1>1 DEF Views, SameWork, SameChrome, SameRequest, Status, editorStatusActive
<1>. HIDE DEF o, x
<1>5. CASE resume
  <2>1. vim /\ ~o.readOnly
    BY <1>4, <1>5 DEF Sound, Placed, EditorPlaced, RequestPlaced, SameChrome
  <2>2. LET y == beginComposerInput(o, c, TRUE)
        IN  Sound(y, w, c) /\ SameWork(o, y) /\ SameChrome(o, y)
    BY <1>3, <1>4, <2>1, Begins
  <2>. QED BY <1>2, <1>4, <1>5, <2>2 DEF SameWork, SameChrome, x
<1>6. CASE ~resume /\ v.phase = "suspended"
  <2>1. x = exitEditor(o, c)
    BY <1>2, <1>6
  <2>2. Sound(x, w, c) /\ SameWork(o, x) /\ SameChrome(o, x)
    BY <1>3, <2>1, ExitSound
  <2>. QED BY <1>4, <1>6, <2>2 DEF SameWork, SameChrome, x
<1>7. CASE ~resume /\ v.phase # "suspended"
  <2>1. Placed(o, w, c)
    BY <1>4, <1>7 DEF Sound, Placed, EditorPlaced, RequestPlaced, SameRequest
  <2>. QED BY <1>2, <1>3, <1>4, <1>7, <2>1 DEF Sound, SameRequest, x
<1>. QED BY <1>5, <1>6, <1>7

\* A menu, or a plugin's viewport, changes no layer the editor depends on.
WithPopup(v, kind, m) == [v EXCEPT !.popup = kind, !.menu = m]

LEMMA PopupSet ==
  ASSUME NEW v, NEW w, NEW c, vim \in BOOLEAN, Sound(v, w, c),
         NEW kind \in {"none", "menu", "viewport"}, NEW m \in ChannelOrNone
  PROVE  LET x == WithPopup(v, kind, m)
         IN  Sound(x, w, c) /\ SameWork(v, x) /\ SameChrome(v, x)
<1>. DEFINE x == WithPopup(v, kind, m)
<1>1. v \in Views
  BY DEF Sound
<1>2. x \in Views
  BY <1>1 DEF Views, WithPopup
<1>3. /\ SameWork(v, x) /\ SameChrome(v, x) /\ SameRequest(v, x) /\ SameEditor(v, x)
      /\ x.overlay = v.overlay /\ Status(x) = Status(v) /\ x.shown = v.shown
  BY <1>1 DEF Views, SameWork, SameChrome, SameRequest, SameEditor, Status, editorStatusActive,
                   WithPopup
<1>. HIDE DEF x
<1>4. Sound(x, w, c)
  BY <1>2, <1>3 DEF Sound, Placed, EditorPlaced, RequestPlaced, SameRequest, SameEditor
<1>. QED BY <1>3, <1>4 DEF x

\* The message menu opens and closes.
LEMMA PopupSound ==
  ASSUME NEW v, NEW w, NEW c \in ChannelOrNone, vim \in BOOLEAN, Sound(v, w, c)
  PROVE  /\ Sound(setPopup(v, c), w, c) /\ SameWork(v, setPopup(v, c))
         /\ Sound(closePopup(v), w, c) /\ SameWork(v, closePopup(v))
<1>. DEFINE d == Detach(v, c)
<1>1. Sound(d, w, c) /\ SameWork(v, d)
  BY DetachSound
<1>. HIDE DEF d
<1>2. "menu" \in {"none", "menu", "viewport"} /\ "none" \in {"none", "menu", "viewport"}
      /\ None \in ChannelOrNone
  BY DEF ChannelOrNone
<1>3. LET x == WithPopup(d, "menu", c) IN Sound(x, w, c) /\ SameWork(d, x)
  BY <1>1, <1>2, PopupSet
<1>4. LET x == WithPopup(v, "none", None) IN Sound(x, w, c) /\ SameWork(v, x)
  BY <1>2, PopupSet
<1>. QED BY <1>1, <1>3, <1>4 DEF setPopup, closePopup, WithPopup, SameWork, d

-----------------------------------------------------------------------------
(* Reply, edit and the selected channel.                                    *)

\* Giving up a reply or an edit.
LEMMA CancelModeSound ==
  ASSUME NEW v, NEW w, NEW c, vim \in BOOLEAN, Sound(v, w, c)
  PROVE  LET x == CancelComposerMode(v)
         IN  /\ Sound(x, w, c) /\ x.mode = "normal" /\ x.staged = v.staged
             /\ SameEditor(v, x) /\ SameRequest(v, x) /\ SameLayers(v, x)
<1>. DEFINE y == [v EXCEPT !.mode = "normal", !.target = NoTarget, !.draft = "empty"]
            x == CancelComposerMode(v)
<1>1. v \in Views
  BY DEF Sound
<1>2. x = IF v.mode = "normal" THEN v ELSE updateComposerStatus(y)
  BY DEF CancelComposerMode
<1>3. y \in Views
  <2>1. NoTarget \in (Accounts \union {None}) \X ChannelOrNone
    BY DEF NoTarget, ChannelOrNone
  <2>. QED BY <1>1, <2>1 DEF Views
<1>4. /\ SameEditor(v, y) /\ SameRequest(v, y) /\ SameLayers(v, y)
      /\ y.mode = "normal" /\ y.staged = v.staged
  BY <1>1 DEF Views, SameEditor, SameRequest, SameLayers
<1>. HIDE DEF x, y
<1>5. Placed(y, w, c)
  BY <1>4 DEF Sound, Placed, EditorPlaced, RequestPlaced, SameEditor, SameRequest, SameLayers
<1>6. LET z == updateComposerStatus(y)
      IN  Sound(z, w, c) /\ SameWork(y, z) /\ SameEditor(y, z) /\ SameRequest(y, z) /\ SameLayers(y, z)
  BY <1>3, <1>5, RewrittenSound
<1>7. CASE v.mode = "normal"
  BY <1>2, <1>7 DEF SameEditor, SameRequest, SameLayers, x
<1>8. CASE v.mode # "normal"
  BY <1>2, <1>4, <1>6, <1>8 DEF SameWork, SameEditor, SameRequest, SameLayers, x
<1>. QED BY <1>7, <1>8

\* A reply or an edit begun on a message of the selected channel.
LEMMA BeginModeSound ==
  ASSUME NEW v, NEW w, NEW c, NEW m \in ChannelOrNone, NEW mode \in {"reply", "edit"},
         vim \in BOOLEAN, acct \in Accounts, Sound(v, w, c), Answers(v, acct, c)
  PROVE  LET x == BeginMode(v, c, m, mode)
         IN  Sound(x, w, c) /\ Answers(x, acct, c) /\ x.staged = v.staged
<1>. DEFINE y == [v EXCEPT !.mode = mode, !.target = <<acct, m>>,
                           !.draft = IF mode = "edit" THEN "text" ELSE @]
            x == BeginMode(v, c, m, mode)
<1>1. v \in Views
  BY DEF Sound
<1>2. CASE c # None /\ m # c
  BY <1>2 DEF BeginMode
<1>3. CASE ~(c # None /\ m # c)
  <2>1. x = updateComposerStatus(y)
    BY <1>3 DEF BeginMode
  <2>2. y \in Views
    BY <1>1 DEF Views
  <2>3. /\ SameEditor(v, y) /\ SameRequest(v, y) /\ SameLayers(v, y)
        /\ y.target = <<acct, m>> /\ y.staged = v.staged
    BY <1>1 DEF Views, SameEditor, SameRequest, SameLayers
  <2>. HIDE DEF x, y
  <2>4. Placed(y, w, c)
    BY <2>3 DEF Sound, Placed, EditorPlaced, RequestPlaced, SameEditor, SameRequest, SameLayers
  <2>5. Sound(x, w, c) /\ SameWork(y, x)
    BY <2>1, <2>2, <2>4, RewrittenSound
  <2>. QED BY <1>3, <2>3, <2>5 DEF Answers, SameWork, x
<1>. QED BY <1>2, <1>3

\* What an account answers is not changed by an operator that leaves it alone.
LEMMA SameAnswers ==
  ASSUME NEW v, NEW x, NEW a, NEW c, SameWork(v, x), Answers(v, a, c)
  PROVE  Answers(x, a, c)
BY DEF SameWork, Answers

\* Another selected channel ends the editor and what was begun elsewhere.
LEMMA ChannelChangeSound ==
  ASSUME NEW v \in Views, NEW w, NEW from \in ChannelOrNone, NEW to \in ChannelOrNone, NEW a,
         vim \in BOOLEAN, from = to => Sound(v, w, to), Answers(v, a, from)
  PROVE  LET x == handleActiveChannelChange(v, from, to)
         IN  /\ Sound(x, w, to) /\ Answers(x, a, to) /\ x.staged = v.staged
             /\ v.mode = "normal" => x.mode = "normal"
             /\ from # to => x.phase = "normal" /\ ~x.ready
<1>. DEFINE e == exitEditor(v, to)
<1>1. CASE from = to
  BY <1>1 DEF handleActiveChannelChange
<1>2. CASE from # to
  <2>1. Sound(e, w, to) /\ SameWork(v, e) /\ e.phase = "normal" /\ ~e.ready
    BY ExitSound
  <2>2. handleActiveChannelChange(v, from, to)
          = IF e.mode # "normal" /\ e.target[2] # to THEN CancelComposerMode(e) ELSE e
    BY <1>2 DEF handleActiveChannelChange
  <2>. HIDE DEF e
  <2>3. LET x == CancelComposerMode(e)
        IN  Sound(x, w, to) /\ x.mode = "normal" /\ x.staged = e.staged /\ x.phase = "normal" /\ ~x.ready
    BY <2>1, CancelModeSound DEF SameEditor, SameRequest
  <2>4. CASE e.mode # "normal" /\ e.target[2] # to
    BY <1>2, <2>1, <2>2, <2>3, <2>4 DEF Answers, SameWork
  <2>5. CASE ~(e.mode # "normal" /\ e.target[2] # to)
    <3>1. Answers(e, a, to)
      BY <2>1, <2>5, SameAnswers DEF Answers, SameWork
    <3>. QED BY <1>2, <2>1, <2>2, <2>5, <3>1 DEF SameWork
  <2>. QED BY <2>4, <2>5
<1>. QED BY <1>1, <1>2

\* The permission of the composer, as a refresh or a role change sets it.
LEMMA PermissionSound ==
  ASSUME NEW v \in Views, NEW b \in BOOLEAN, vim \in BOOLEAN
  PROVE  LET x == updateComposerStatus([v EXCEPT !.readOnly = b])
         IN  /\ x \in Views
             /\ SameWork(v, x) /\ SameEditor(v, x) /\ SameRequest(v, x) /\ SameLayers(v, x)
             /\ \A w, c : Placed(v, w, c) => Sound(x, w, c)
<1>. DEFINE y == [v EXCEPT !.readOnly = b]
            x == updateComposerStatus(y)
<1>1. y \in Views
  BY DEF Views
<1>2. SameWork(v, y) /\ SameEditor(v, y) /\ SameRequest(v, y) /\ SameLayers(v, y)
  BY DEF Views, SameWork, SameEditor, SameRequest, SameLayers
<1>. HIDE DEF y
<1>3. /\ x \in Views /\ x.shown = Status(x)
      /\ SameWork(y, x) /\ SameEditor(y, x) /\ SameRequest(y, x) /\ SameLayers(y, x)
  BY <1>1, StatusRewritten
<1>. HIDE DEF x
<1>4. SameWork(v, x) /\ SameEditor(v, x) /\ SameRequest(v, x) /\ SameLayers(v, x)
  BY <1>2, <1>3 DEF SameWork, SameEditor, SameRequest, SameLayers
<1>5. ASSUME NEW w, NEW c, Placed(v, w, c) PROVE Sound(x, w, c)
  BY <1>3, <1>4, <1>5 DEF Sound, Placed, EditorPlaced, RequestPlaced, SameEditor, SameRequest, SameLayers
<1>. QED BY <1>3, <1>4, <1>5 DEF x, y

\* The permission of a channel; the forum view keeps its own.
LEMMA ChromeSound ==
  ASSUME NEW v \in Views, NEW d, vim \in BOOLEAN
  PROVE  LET x == updateChannelChrome(v, d)
         IN  /\ x \in Views
             /\ SameWork(v, x) /\ SameEditor(v, x) /\ SameRequest(v, x) /\ SameLayers(v, x)
             /\ \A w, c : Sound(v, w, c) => Sound(x, w, c)
<1>1. CASE v.forum # None
  BY <1>1 DEF updateChannelChrome, SameWork, SameEditor, SameRequest, SameLayers
<1>2. CASE v.forum = None
  <2>1. channelReadOnly(d) \in BOOLEAN
    BY DEF channelReadOnly
  <2>2. updateChannelChrome(v, d) = updateComposerStatus([v EXCEPT !.readOnly = channelReadOnly(d)])
    BY <1>2 DEF updateChannelChrome
  <2>. QED BY <2>1, <2>2, PermissionSound DEF Sound
<1>. QED BY <1>1, <1>2

\* The forum view instead of the transcript, and back.
LEMMA ForumSound ==
  ASSUME NEW v, NEW w, NEW c, NEW f \in ChannelOrNone, vim \in BOOLEAN, Sound(v, w, c)
  PROVE  LET x == openForum(v, f)
         IN  /\ Sound(x, w, c)
             /\ SameWork(v, x) /\ SameEditor(v, x) /\ SameRequest(v, x) /\ SameLayers(v, x)
<1>. DEFINE y == [v EXCEPT !.forum = f, !.readOnly = FALSE]
<1>1. v \in Views
  BY DEF Sound
<1>2. y \in Views
  BY <1>1 DEF Views
<1>3. SameWork(v, y) /\ SameEditor(v, y) /\ SameRequest(v, y) /\ SameLayers(v, y)
  BY <1>1 DEF Views, SameWork, SameEditor, SameRequest, SameLayers
<1>4. openForum(v, f) = updateComposerStatus(y)
  BY DEF openForum
<1>. HIDE DEF y
<1>5. Placed(y, w, c)
  BY <1>3 DEF Sound, Placed, EditorPlaced, RequestPlaced, SameEditor, SameRequest, SameLayers
<1>. QED
  BY <1>2, <1>3, <1>4, <1>5, RewrittenSound DEF SameWork, SameEditor, SameRequest, SameLayers

\* Back to the transcript.
LEMMA ChatSound ==
  ASSUME NEW v, NEW w, NEW c, vim \in BOOLEAN, Sound(v, w, c)
  PROVE  LET x == showChat(v)
         IN  /\ Sound(x, w, c)
             /\ SameWork(v, x) /\ SameEditor(v, x) /\ SameRequest(v, x) /\ SameLayers(v, x)
<1>. DEFINE x == showChat(v)
<1>1. v \in Views
  BY DEF Sound
<1>2. x \in Views
  BY <1>1 DEF Views, showChat, ChannelOrNone
<1>3. /\ SameWork(v, x) /\ SameEditor(v, x) /\ SameRequest(v, x) /\ SameLayers(v, x)
      /\ Status(x) = Status(v) /\ x.shown = v.shown
  BY <1>1 DEF Views, showChat, SameWork, SameEditor, SameRequest, SameLayers, Status, editorStatusActive
<1>. HIDE DEF x
<1>4. Sound(x, w, c)
  BY <1>2, <1>3 DEF Sound, Placed, EditorPlaced, RequestPlaced, SameEditor, SameRequest, SameLayers
<1>. QED BY <1>3, <1>4 DEF x

\* No request is waiting and the editor is at rest.
Quiet(v) == v.phase = "normal" /\ ~v.ready

\* What a step to channel "to" has to leave behind.
Arrived(v, x, w, a, from, to) ==
  /\ Sound(x, w, to) /\ Answers(x, a, to) /\ x.staged = v.staged
  /\ v.mode = "normal" => x.mode = "normal"
  /\ from # to => Quiet(x)

\* An operator that keeps the editor and the reply keeps that.
LEMMA StillArrived ==
  ASSUME NEW v, NEW x, NEW y, NEW w, NEW a, NEW from, NEW to, Arrived(v, x, w, a, from, to),
         Sound(y, w, to), SameWork(x, y), SameEditor(x, y), SameRequest(x, y)
  PROVE  Arrived(v, y, w, a, from, to)
BY DEF Arrived, Quiet, Answers, SameWork, SameEditor, SameRequest

\* A channel selected in the side panel, by a switcher, or opened as a post.
LEMMA SelectSound ==
  ASSUME NEW v \in Views, NEW w, NEW from \in ChannelOrNone, NEW to \in ChannelOrNone, NEW a,
         vim \in BOOLEAN, from = to => Sound(v, w, to), Answers(v, a, from)
  PROVE  /\ Arrived(v, onChannelSelected(v, from, to), w, a, from, to)
         /\ Arrived(v, switchTo(v, from, to), w, a, from, to)
         /\ Arrived(v, updateChannelChrome(showChat(handleActiveChannelChange(v, from, to)), to),
                    w, a, from, to)
<1>. DEFINE x == handleActiveChannelChange(v, from, to)
            f == openForum(x, to)
            s == showChat(x)
<1>1. Arrived(v, x, w, a, from, to)
  BY ChannelChangeSound DEF Arrived, Quiet
<1>. HIDE DEF x
<1>2. Sound(x, w, to) /\ x \in Views
  BY <1>1 DEF Arrived, Sound
<1>3. Sound(f, w, to) /\ SameWork(x, f) /\ SameEditor(x, f) /\ SameRequest(x, f)
  BY <1>2, ForumSound
<1>4. Sound(s, w, to) /\ SameWork(x, s) /\ SameEditor(x, s) /\ SameRequest(x, s)
  BY <1>2, ChatSound
<1>. HIDE DEF f, s
<1>5. Arrived(v, f, w, a, from, to) /\ Arrived(v, s, w, a, from, to) /\ s \in Views
  BY <1>1, <1>3, <1>4, StillArrived DEF Sound
<1>6. Arrived(v, updateChannelChrome(s, to), w, a, from, to)
  BY <1>4, <1>5, ChromeSound, StillArrived
<1>7. Arrived(v, updateChannelChrome(x, to), w, a, from, to)
  BY <1>1, <1>2, ChromeSound, StillArrived
<1>. QED BY <1>5, <1>6, <1>7 DEF onChannelSelected, switchTo, x, f, s

\* A refresh may select the first channel of the list.
LEMMA RefreshSound ==
  ASSUME NEW v \in Views, NEW w, NEW from \in ChannelOrNone, NEW a, vim \in BOOLEAN,
         Answers(v, a, from), NEW n \in Refreshed(v, from)
  PROVE  /\ n[2] \in ChannelOrNone /\ n[1] \in Views
         /\ n[1].staged = v.staged /\ Answers(n[1], a, n[2])
         /\ v.mode = "normal" => n[1].mode = "normal"
         /\ Sound(v, w, from) => Sound(n[1], w, n[2])
<1>1. CASE n = <<updateChannelChrome(v, from), from>>
  <2>1. LET x == updateChannelChrome(v, from)
        IN  x \in Views /\ SameWork(v, x) /\ (Sound(v, w, from) => Sound(x, w, from))
    BY ChromeSound
  <2>. QED BY <1>1, <2>1 DEF SameWork, Answers
<1>2. ASSUME NEW c \in Channels, from = None, n = <<onChannelSelected(v, None, c), c>>
      PROVE  /\ n[2] \in ChannelOrNone /\ n[1] \in Views
             /\ n[1].staged = v.staged /\ Answers(n[1], a, n[2])
             /\ v.mode = "normal" => n[1].mode = "normal"
             /\ Sound(n[1], w, n[2])
  <2>1. c # None /\ c \in ChannelOrNone
    BY ShellAssumption DEF ChannelOrNone
  <2>2. Arrived(v, onChannelSelected(v, None, c), w, a, None, c)
    BY <1>2, <2>1, SelectSound
  <2>. QED BY <1>2, <2>1, <2>2 DEF Arrived, Sound
<1>. QED BY <1>1, <1>2 DEF Refreshed

-----------------------------------------------------------------------------
(* The focus runtime.                                                       *)

\* The editor that has waited takes text.
Entered(v) == updateComposerStatus([v EXCEPT !.phase = "input", !.repl = FALSE])

\* It has a channel and no layer over it.
LEMMA EnteredSound ==
  ASSUME NEW v \in Views, vim \in BOOLEAN, vim, v.phase = "pending", v.enabled,
         v.chan = Here, v.overlay = "none"
  PROVE  LET x == Entered(v)
         IN  /\ x \in Views /\ x.shown = Status(x) /\ EditorPlaced(x, "composer", Here)
             /\ x.phase = "input"
             /\ SameWork(v, x) /\ SameLayers(v, x) /\ SameChrome(v, x) /\ SameRequest(v, x)
<1>. DEFINE y == [v EXCEPT !.phase = "input", !.repl = FALSE]
            x == Entered(v)
<1>1. y \in Views
  BY DEF Views
<1>2. /\ y.phase = "input" /\ y.chan = v.chan /\ y.enabled = v.enabled
      /\ SameWork(v, y) /\ SameLayers(v, y) /\ SameChrome(v, y) /\ SameRequest(v, y)
  BY DEF Views, SameWork, SameLayers, SameChrome, SameRequest
<1>3. x = updateComposerStatus(y)
  BY DEF Entered
<1>. HIDE DEF x, y
<1>4. /\ x \in Views /\ x.shown = Status(x)
      /\ SameWork(y, x) /\ SameLayers(y, x) /\ SameEditor(y, x) /\ SameRequest(y, x) /\ SameChrome(y, x)
  BY <1>1, <1>3, StatusRewritten
<1>. QED
  BY <1>2, <1>4 DEF EditorPlaced, SameWork, SameLayers, SameEditor, SameRequest, SameChrome, x

\* The focus moves to w: the editor follows or gives up.
LEMMA FocusChangedSound ==
  ASSUME NEW v, NEW f, NEW w, NEW reason, Sound(v, f, Here), vim \in BOOLEAN, Here \in ChannelOrNone
  PROVE  LET x == FocusChanged(v, w, reason)
         IN  /\ Sound(x, w, Here) /\ SameWork(v, x) /\ SameLayers(v, x) /\ SameChrome(v, x)
             /\ reason # "replace" => x.phase # "pending"
<1>. DEFINE x == FocusChanged(v, w, reason)
            Follows(y) == /\ Sound(y, w, Here) /\ SameWork(v, y) /\ SameLayers(v, y) /\ SameChrome(v, y)
                          /\ reason # "replace" => y.phase # "pending"
<1>1. v \in Views /\ v.readOnly \in BOOLEAN /\ v.repl \in BOOLEAN
      /\ v.phase \in {"normal", "pending", "input", "suspended"}
  BY DEF Sound, Views
<1>2. Follows(exitEditor(v, Here))
  BY <1>1, ExitSound
<1>3. ASSUME v.phase \in {"normal", "suspended"} PROVE Follows(v)
  BY <1>3 DEF Sound, Placed, EditorPlaced, SameWork, SameLayers, SameChrome
<1>4. CASE v.phase = "normal"
  <2>1. x = v \/ x = cancelFocusRequest(v)
    BY <1>4 DEF FocusChanged, Superseded
  <2>2. v.shown = Status(v) /\ EditorPlaced(v, w, Here)
    BY <1>3, <1>4 DEF Sound, Placed
  <2>3. Follows(cancelFocusRequest(v))
    BY <1>1, <1>4, <2>2, CancelSound DEF SameEditor
  <2>. QED BY <1>3, <1>4, <2>1, <2>3
<1>5. CASE v.phase = "suspended"
  <2>1. x = v
    BY <1>5 DEF FocusChanged, Sound, Placed, EditorPlaced
  <2>. QED BY <1>3, <1>5, <2>1
<1>6. CASE v.phase = "input"
  <2>1. vim
    BY <1>6 DEF Sound, Placed, EditorPlaced
  <2>2. x = IF w # "composer" THEN exitEditor(v, Here) ELSE v
    BY <1>6, <2>1 DEF FocusChanged
  <2>3. w = "composer" => Follows(v)
    BY <1>6 DEF Sound, Placed, EditorPlaced, RequestPlaced, SameWork, SameLayers, SameChrome
  <2>. QED BY <1>2, <2>2, <2>3
<1>7. CASE v.phase = "pending"
  <2>1. vim /\ v.chan = Here /\ v.enabled
    BY <1>7 DEF Sound, Placed, EditorPlaced
  <2>2. CASE w = "composer"
    <3>1. x = IF v.readOnly \/ v.overlay # "none" THEN exitEditor(v, Here) ELSE Entered(v)
      BY <1>7, <2>1, <2>2 DEF FocusChanged, composerWritable, Entered
    <3>2. ASSUME v.overlay = "none" PROVE Follows(Entered(v))
      <4>1. LET y == Entered(v)
            IN  /\ y \in Views /\ y.shown = Status(y) /\ EditorPlaced(y, "composer", Here)
                /\ y.phase = "input"
                /\ SameWork(v, y) /\ SameLayers(v, y) /\ SameChrome(v, y) /\ SameRequest(v, y)
        BY <1>1, <1>7, <2>1, <3>2, EnteredSound
      <4>. QED BY <2>2, <4>1 DEF Sound, Placed, RequestPlaced, SameRequest
    <3>. QED BY <1>2, <3>1, <3>2
  <2>3. CASE w # "composer"
    <3>1. x = IF reason = "replace" /\ v.repl THEN [v EXCEPT !.repl = FALSE] ELSE exitEditor(v, Here)
      BY <1>7, <2>1, <2>3 DEF FocusChanged
    <3>2. ASSUME reason = "replace" PROVE Follows([v EXCEPT !.repl = FALSE])
      <4>. DEFINE y == [v EXCEPT !.repl = FALSE]
      <4>1. y \in Views
        BY <1>1 DEF Views
      <4>2. /\ SameWork(v, y) /\ SameLayers(v, y) /\ SameChrome(v, y) /\ SameRequest(v, y)
            /\ y.phase = v.phase /\ y.chan = v.chan /\ y.enabled = v.enabled /\ y.owned = v.owned
            /\ y.shown = v.shown /\ Status(y) = Status(v)
        BY <1>1 DEF Views, SameWork, SameLayers, SameChrome, SameRequest, Status, editorStatusActive
      <4>. HIDE DEF y
      <4>3. Sound(y, w, Here)
        BY <1>7, <4>1, <4>2 DEF Sound, Placed, EditorPlaced, RequestPlaced, SameLayers, SameRequest
      <4>. QED BY <3>2, <4>2, <4>3 DEF y
    <3>. QED BY <1>2, <3>1, <3>2
  <2>. QED BY <2>2, <2>3
<1>. QED BY <1>1, <1>4, <1>5, <1>6, <1>7

\* The request the runtime holds is taken from it.
Unheld(v) == [v EXCEPT !.pend = None]

\* The view is as sound as before, but for the request it had.
LEMMA UnheldSound ==
  ASSUME NEW v \in Views, vim \in BOOLEAN
  PROVE  LET x == Unheld(v)
         IN  /\ x \in Views /\ x.shown = v.shown /\ Status(x) = Status(v)
             /\ SameWork(v, x) /\ SameLayers(v, x) /\ SameEditor(v, x) /\ SameChrome(v, x)
             /\ x.req = v.req /\ x.ready = v.ready /\ x.live = v.live /\ x.pend = None
             /\ \A w : EditorPlaced(v, w, Here) => EditorPlaced(x, w, Here)
             /\ \A w : Sound(v, w, Here) /\ ~v.live => Sound(x, w, Here)
<1>. DEFINE x == Unheld(v)
<1>1. x \in Views
  BY DEF Unheld, Views, WidgetOrNone
<1>2. Status(x) = Status(v)
  BY DEF Unheld, Views, Status, editorStatusActive
<1>3. /\ SameWork(v, x) /\ SameLayers(v, x) /\ SameEditor(v, x) /\ SameChrome(v, x)
      /\ x.req = v.req /\ x.ready = v.ready /\ x.live = v.live /\ x.pend = None /\ x.shown = v.shown
  BY DEF Unheld, Views, SameWork, SameLayers, SameEditor, SameChrome
<1>. HIDE DEF x
<1>4. ASSUME NEW w, EditorPlaced(v, w, Here) PROVE EditorPlaced(x, w, Here)
  BY <1>3, <1>4 DEF EditorPlaced, SameEditor, SameLayers
<1>5. ASSUME NEW w, Sound(v, w, Here), ~v.live PROVE Sound(x, w, Here)
  BY <1>1, <1>2, <1>3, <1>4, <1>5 DEF Sound, Placed, RequestPlaced, SameEditor
<1>. QED BY <1>1, <1>2, <1>3, <1>4, <1>5 DEF x

\* What the runtime tells the shell of a request it applied or refused.
Refused(v, q) == FocusRequestDone(v, q, TRUE, FALSE)

Applied(v, q) == FocusRequestDone(v, q, TRUE, TRUE)

\* Both leave a sound view; one that is told of success no longer waits.
LEMMA DoneSound ==
  ASSUME NEW v \in Views, NEW w, NEW q, vim \in BOOLEAN, Here \in ChannelOrNone,
         v.shown = Status(v), EditorPlaced(v, w, Here)
  PROVE  /\ LET x == Refused(v, q)
            IN  /\ Sound(x, w, Here) /\ SameWork(v, x) /\ SameChrome(v, x)
                /\ v.phase # "pending" => x.phase = v.phase
         /\ v.phase # "pending" =>
              LET x == Applied(v, q)
              IN  Sound(x, w, Here) /\ SameWork(v, x) /\ SameChrome(v, x) /\ x.phase = v.phase
<1>. DEFINE x == cancelFocusRequest(v)
<1>1. /\ x \in Views /\ x.phase = v.phase
      /\ SameWork(v, x) /\ SameChrome(v, x)
      /\ v.phase # "pending" => Sound(x, w, Here)
  BY CancelSound DEF SameEditor
<1>2. /\ Refused(v, q) = IF x.phase = "pending" THEN exitEditor(x, Here) ELSE x
      /\ x.phase # "pending" => Applied(v, q) = x
  BY DEF Refused, Applied, FocusRequestDone, cancelFocusRequest
<1>. HIDE DEF x
<1>3. LET e == exitEditor(x, Here) IN Sound(e, w, Here) /\ SameWork(x, e) /\ SameChrome(x, e)
  BY <1>1, ExitSound
<1>. QED BY <1>1, <1>2, <1>3 DEF SameWork, SameChrome

\* The request leaves the shell, and stays with the runtime when it has to wait.
Taken(v) == [v EXCEPT !.ready = FALSE]

Held(v, q) == [v EXCEPT !.pend = q, !.live = TRUE]

\* Taking the request of a view is sound once it is held, or none waits for it.
LEMMA TakenSound ==
  ASSUME NEW v, NEW w, Sound(v, w, Here), vim \in BOOLEAN
  PROVE  LET x == Taken(v)
         IN  /\ x \in Views /\ x.shown = Status(x) /\ EditorPlaced(x, w, Here)
             /\ SameWork(v, x) /\ SameLayers(v, x) /\ SameEditor(v, x) /\ SameChrome(v, x)
             /\ x.req = v.req /\ x.live = v.live /\ x.pend = v.pend
             /\ v.phase # "pending" => Sound(x, w, Here)
             /\ LET h == Held(x, v.req) IN Sound(h, w, Here) /\ SameWork(v, h)
<1>. DEFINE x == Taken(v)
            h == Held(x, v.req)
<1>1. v \in Views
  BY DEF Sound
<1>2. x \in Views
  BY <1>1 DEF Taken, Views
<1>3. /\ SameWork(v, x) /\ SameLayers(v, x) /\ SameEditor(v, x) /\ SameChrome(v, x)
      /\ x.req = v.req /\ x.live = v.live /\ x.pend = v.pend
      /\ x.shown = v.shown /\ Status(x) = Status(v)
  BY <1>1 DEF Taken, Views, SameWork, SameLayers, SameEditor, SameChrome, Status, editorStatusActive
<1>. HIDE DEF x
<1>4. x.shown = Status(x) /\ EditorPlaced(x, w, Here)
  BY <1>3 DEF Sound, Placed, EditorPlaced, SameEditor, SameLayers
<1>5. v.phase # "pending" => Sound(x, w, Here)
  BY <1>2, <1>3, <1>4 DEF Sound, Placed, RequestPlaced, SameEditor
<1>6. h \in Views
  BY <1>1, <1>2 DEF Held, Views
<1>7. /\ SameWork(x, h) /\ SameLayers(x, h) /\ SameEditor(x, h) /\ SameChrome(x, h)
      /\ h.req = x.req /\ h.live /\ h.pend = v.req
      /\ h.shown = x.shown /\ Status(h) = Status(x)
  BY <1>2 DEF Held, Views, SameWork, SameLayers, SameEditor, SameChrome, Status, editorStatusActive
<1>. HIDE DEF h
<1>8. Sound(h, w, Here)
  BY <1>3, <1>4, <1>6, <1>7
     DEF Sound, Placed, EditorPlaced, RequestPlaced, SameEditor, SameLayers
<1>9. SameWork(v, h)
  BY <1>3, <1>7 DEF SameWork
<1>. QED BY <1>2, <1>3, <1>4, <1>5, <1>8, <1>9 DEF x, h

\* A step of the runtime ends in view n.v with widget n.w focused.
Ends(v, n) == Sound(n.v, n.w, Here) /\ SameWork(v, n.v) /\ n.w \in Widgets

\* A sound view at a widget is such an end.
LEMMA EndsAt ==
  ASSUME NEW v, NEW x, NEW w \in Widgets, Sound(x, w, Here), SameWork(v, x)
  PROVE  Ends(v, At(x, w))
BY DEF Ends, At

\* After an event: the filed request is applied, refused, or held.
LEMMA ConsumeSound ==
  ASSUME NEW v, NEW w \in Widgets, Sound(v, w, Here), vim \in BOOLEAN, Here \in ChannelOrNone,
         ring \subseteq Widgets
  PROVE  Ends(v, consumeFocusRequests(v, w))
<1>. DEFINE t == Taken(v)
            d == FocusChanged(t, v.req, "direct")
            drop == Unheld(d)
            cur == d.req # None
            done == FocusRequestDone(drop, v.req, cur, TRUE)
            ok == FocusRequestValid(t, v.req, TRUE)
            n == consumeFocusRequests(v, w)
<1>1. /\ t \in Views /\ t.shown = Status(t) /\ EditorPlaced(t, w, Here)
      /\ SameWork(v, t) /\ SameLayers(v, t) /\ SameEditor(v, t) /\ SameChrome(v, t)
      /\ t.req = v.req
      /\ v.phase # "pending" => Sound(t, w, Here)
      /\ Sound(Held(t, v.req), w, Here) /\ SameWork(v, Held(t, v.req))
  BY TakenSound
<1>2. /\ ~v.ready => n = At(v, w)
      /\ v.ready /\ ~ok => n = At(Refused(t, v.req), w)
      /\ v.ready /\ ok /\ v.req \in ring /\ canFocus(t, v.req) => n = At(done, v.req)
      /\ v.ready /\ ok /\ ~(v.req \in ring /\ canFocus(t, v.req)) => n = At(Held(t, v.req), w)
  BY DEF consumeFocusRequests, Taken, Held, Unheld, Refused
<1>. HIDE DEF n, t
<1>3. CASE ~v.ready
  BY <1>2, <1>3, EndsAt DEF n, SameWork
<1>4. CASE v.ready /\ ~ok
  <2>1. LET x == Refused(t, v.req) IN Sound(x, w, Here) /\ SameWork(t, x)
    BY <1>1, DoneSound
  <2>2. SameWork(v, Refused(t, v.req))
    BY <1>1, <2>1 DEF SameWork
  <2>. QED BY <1>2, <1>4, <2>1, <2>2, EndsAt DEF n
<1>5. CASE v.ready /\ ok /\ v.req \in ring /\ canFocus(t, v.req)
  <2>1. v.req \in Widgets
    BY <1>5
  <2>2. /\ d \in Views /\ d.shown = Status(d) /\ EditorPlaced(d, v.req, Here)
        /\ SameWork(t, d) /\ d.phase # "pending"
        /\ ~cur => Sound(d, v.req, Here)
    <3>1. CASE v.phase = "pending"
      <4>1. vim /\ v.req = "composer" /\ v.chan = Here /\ v.enabled
        BY <3>1 DEF Sound, Placed, EditorPlaced, RequestPlaced
      <4>2. ~t.readOnly /\ t.overlay = "none" /\ t.phase = "pending" /\ t.chan = Here /\ t.enabled
        BY <1>1, <1>5, <3>1, <4>1 DEF FocusRequestValid, composerWritable, SameEditor
      <4>3. d = Entered(t)
        BY <4>1, <4>2 DEF FocusChanged, composerWritable, Entered
      <4>4. /\ d \in Views /\ d.shown = Status(d) /\ EditorPlaced(d, "composer", Here)
            /\ d.phase = "input" /\ SameWork(t, d) /\ SameRequest(t, d)
        BY <1>1, <4>1, <4>2, <4>3, EnteredSound
      <4>5. cur
        BY <1>1, <4>1, <4>4, ShellAssumption DEF SameRequest
      <4>. QED BY <4>1, <4>4, <4>5
    <3>2. CASE v.phase # "pending"
      BY <1>1, <3>2, FocusChangedSound DEF Sound, Placed
    <3>. QED BY <3>1, <3>2
  <2>. HIDE DEF d
  <2>3. /\ drop \in Views /\ drop.shown = Status(drop) /\ EditorPlaced(drop, v.req, Here)
        /\ SameWork(d, drop) /\ SameEditor(d, drop)
        /\ drop.req = d.req /\ drop.pend = None
    BY <2>2, UnheldSound
  <2>. HIDE DEF drop
  <2>4. CASE cur
    <3>1. cur = TRUE
      BY <2>4
    <3>2. done = Applied(drop, v.req)
      BY <3>1 DEF Applied
    <3>3. Sound(done, v.req, Here) /\ SameWork(drop, done)
      <4>1. drop.phase # "pending"
        BY <2>2, <2>3 DEF SameEditor
      <4>2. LET x == Applied(drop, v.req) IN Sound(x, v.req, Here) /\ SameWork(drop, x)
        BY <2>3, <4>1, DoneSound
      <4>. QED BY <3>2, <4>2
    <3>4. SameWork(v, done)
      BY <1>1, <2>2, <2>3, <3>3 DEF SameWork
    <3>. QED BY <1>2, <1>5, <2>1, <3>3, <3>4, EndsAt DEF n
  <2>5. CASE ~cur
    <3>1. done = drop
      BY <2>5 DEF FocusRequestDone
    <3>2. Sound(drop, v.req, Here)
      BY <2>2, <2>3, <2>5 DEF Sound, Placed, RequestPlaced, SameEditor
    <3>3. SameWork(v, drop)
      BY <1>1, <2>2, <2>3 DEF SameWork
    <3>. QED BY <1>2, <1>5, <2>1, <3>1, <3>2, <3>3, EndsAt DEF n
  <2>. QED BY <2>4, <2>5
<1>6. CASE v.ready /\ ok /\ ~(v.req \in ring /\ canFocus(t, v.req))
  BY <1>1, <1>2, <1>6, EndsAt DEF n
<1>. QED BY <1>3, <1>4, <1>5, <1>6

\* With a frame: a request that was held is applied, refused, or held on.
LEMMA ApplySound ==
  ASSUME NEW v, NEW w \in Widgets, NEW r \in SUBSET Widgets, Sound(v, w, Here),
         vim \in BOOLEAN, Here \in ChannelOrNone
  PROVE  Ends(v, applyPendingFocus(v, w, r))
<1>. DEFINE none == Unheld(v)
            g == FocusChanged(v, v.pend, "direct")
            d == Unheld(g)
            done == FocusRequestDone(d, v.pend, d.live, TRUE)
            ok == FocusRequestValid(v, v.pend, v.live)
            n == applyPendingFocus(v, w, r)
<1>1. v \in Views /\ v.shown = Status(v) /\ EditorPlaced(v, w, Here) /\ v.live \in BOOLEAN
  BY DEF Sound, Placed, Views
<1>2. /\ v.pend = None => n = At(v, w)
      /\ v.pend # None /\ ~ok => n = At(FocusRequestDone(none, v.pend, v.live, FALSE), w)
      /\ v.pend # None /\ ok /\ v.pend \in r /\ canFocus(v, v.pend) => n = At(done, v.pend)
      /\ v.pend # None /\ ok /\ ~(v.pend \in r /\ canFocus(v, v.pend)) => n = At(v, w)
  BY DEF applyPendingFocus, Unheld
<1>. HIDE DEF n
<1>3. Ends(v, At(v, w))
  BY EndsAt DEF SameWork
<1>4. CASE v.pend # None /\ ~ok
  <2>1. /\ none \in Views /\ none.shown = Status(none) /\ EditorPlaced(none, w, Here)
        /\ SameWork(v, none) /\ (~v.live => Sound(none, w, Here))
    BY <1>1, UnheldSound
  <2>. HIDE DEF none
  <2>2. CASE v.live
    <3>1. LET x == Refused(none, v.pend)
          IN  Sound(x, w, Here) /\ SameWork(none, x)
      BY <2>1, DoneSound
    <3>2. FocusRequestDone(none, v.pend, v.live, FALSE) = Refused(none, v.pend)
      <4>1. v.live = TRUE
        BY <1>1, <2>2
      <4>. QED BY <4>1 DEF Refused
    <3>3. SameWork(v, Refused(none, v.pend))
      BY <2>1, <3>1 DEF SameWork
    <3>. QED BY <1>2, <1>4, <3>1, <3>2, <3>3, EndsAt DEF n
  <2>3. CASE ~v.live
    <3>1. FocusRequestDone(none, v.pend, v.live, FALSE) = none
      BY <2>3 DEF FocusRequestDone
    <3>. QED BY <1>2, <1>4, <2>1, <2>3, <3>1, EndsAt DEF n
  <2>. QED BY <2>2, <2>3
<1>5. CASE v.pend # None /\ ok /\ v.pend \in r /\ canFocus(v, v.pend)
  <2>1. v.pend \in Widgets
    BY <1>5
  <2>2. Sound(g, v.pend, Here) /\ SameWork(v, g) /\ g.phase # "pending"
    BY FocusChangedSound
  <2>3. g \in Views /\ g.shown = Status(g) /\ EditorPlaced(g, v.pend, Here)
    BY <2>2 DEF Sound, Placed
  <2>. HIDE DEF g
  <2>4. /\ d \in Views /\ d.shown = Status(d) /\ EditorPlaced(d, v.pend, Here)
        /\ SameWork(g, d) /\ SameEditor(g, d) /\ d.live = g.live
        /\ ~g.live => Sound(d, v.pend, Here)
    BY <2>2, <2>3, UnheldSound
  <2>. HIDE DEF d
  <2>5. CASE d.live
    <3>1. done = Applied(d, v.pend)
      <4>1. d.live = TRUE
        BY <2>4, <2>5 DEF Views
      <4>. QED BY <4>1 DEF Applied
    <3>2. Sound(done, v.pend, Here) /\ SameWork(d, done)
      <4>1. d.phase # "pending"
        BY <2>2, <2>4 DEF SameEditor
      <4>2. LET x == Applied(d, v.pend) IN Sound(x, v.pend, Here) /\ SameWork(d, x)
        BY <2>4, <4>1, DoneSound
      <4>. QED BY <3>1, <4>2
    <3>3. SameWork(v, done)
      BY <2>2, <2>4, <3>2 DEF SameWork
    <3>. QED BY <1>2, <1>5, <2>1, <3>2, <3>3, EndsAt DEF n
  <2>6. CASE ~d.live
    <3>1. done = d
      BY <2>6 DEF FocusRequestDone
    <3>2. SameWork(v, d)
      BY <2>2, <2>4 DEF SameWork
    <3>. QED BY <1>2, <1>5, <2>1, <2>4, <2>6, <3>1, <3>2, EndsAt DEF n
  <2>. QED BY <2>5, <2>6
<1>6. CASE v.pend = None \/ (v.pend # None /\ ok /\ ~(v.pend \in r /\ canFocus(v, v.pend)))
  BY <1>2, <1>3, <1>6 DEF n
<1>. QED BY <1>4, <1>5, <1>6

\* Once applied, a composer that has the focus takes text.
LEMMA ApplyDrawn ==
  ASSUME NEW v, NEW w \in Widgets, NEW r \in SUBSET Widgets, Sound(v, w, Here), vim,
         vim \in BOOLEAN, Here \in ChannelOrNone, applyPendingFocus(v, w, r).w = "composer",
         w = "composer" => v.phase \in {"pending", "input"} /\ ~v.readOnly /\ v.overlay = "none"
  PROVE  LET x == applyPendingFocus(v, w, r).v IN x.phase # "normal" /\ ~x.readOnly
<1>. DEFINE none == Unheld(v)
            g == FocusChanged(v, v.pend, "direct")
            d == Unheld(g)
            done == FocusRequestDone(d, v.pend, d.live, TRUE)
            ok == FocusRequestValid(v, v.pend, v.live)
            n == applyPendingFocus(v, w, r)
<1>1. v \in Views /\ v.shown = Status(v) /\ EditorPlaced(v, w, Here) /\ v.live \in BOOLEAN
  BY DEF Sound, Placed, Views
<1>2. /\ v.pend = None => n = At(v, w)
      /\ v.pend # None /\ ~ok => n = At(FocusRequestDone(none, v.pend, v.live, FALSE), w)
      /\ v.pend # None /\ ok /\ v.pend \in r /\ canFocus(v, v.pend) => n = At(done, v.pend)
      /\ v.pend # None /\ ok /\ ~(v.pend \in r /\ canFocus(v, v.pend)) => n = At(v, w)
  BY DEF applyPendingFocus, Unheld
<1>. SUFFICES n.v.phase # "normal" /\ ~n.v.readOnly
  OBVIOUS
<1>6. n.w = "composer"
  OBVIOUS
<1>. HIDE DEF n
<1>3. CASE n = At(v, w)
  <2>1. At(v, w).v = v /\ At(v, w).w = w
    BY DEF At
  <2>. QED BY <1>3, <1>6, <2>1
<1>4. CASE v.pend # None /\ ~ok
  <2>. DEFINE x == FocusRequestDone(none, v.pend, v.live, FALSE)
  <2>1. n = At(x, w)
    BY <1>2, <1>4
  <2>2. n.v = x /\ w = "composer"
    <3>. HIDE DEF x
    <3>1. At(x, w).v = x /\ At(x, w).w = w
      BY DEF At
    <3>. QED BY <1>6, <2>1, <3>1
  <2>3. /\ none \in Views /\ none.shown = Status(none) /\ EditorPlaced(none, w, Here)
        /\ SameEditor(v, none) /\ SameChrome(v, none)
    BY <1>1, UnheldSound
  <2>. HIDE DEF none
  <2>4. CASE v.live
    <3>1. v.phase = "input"
      BY <1>4, <2>2, <2>4
         DEF FocusRequestValid, composerWritable, Sound, Placed, EditorPlaced, RequestPlaced
    <3>2. none.phase # "pending"
      BY <2>3, <3>1 DEF SameEditor
    <3>3. LET y == Refused(none, v.pend) IN SameChrome(none, y) /\ y.phase = none.phase
      BY <2>3, <3>2, DoneSound
    <3>4. x = Refused(none, v.pend)
      <4>1. v.live = TRUE
        BY <1>1, <2>4
      <4>. QED BY <4>1 DEF Refused
    <3>. QED BY <2>2, <2>3, <3>1, <3>3, <3>4 DEF SameChrome, SameEditor
  <2>5. CASE ~v.live
    <3>1. x = none
      BY <2>5 DEF FocusRequestDone
    <3>. QED BY <2>2, <2>3, <3>1 DEF SameChrome, SameEditor
  <2>. QED BY <2>4, <2>5
<1>5. CASE v.pend # None /\ ok /\ v.pend \in r /\ canFocus(v, v.pend)
  <2>1. n.v = done /\ v.pend = "composer"
    <3>1. n = At(done, v.pend)
      BY <1>2, <1>5
    <3>. HIDE DEF done
    <3>2. At(done, v.pend).v = done /\ At(done, v.pend).w = v.pend
      BY DEF At
    <3>. QED BY <1>6, <3>1, <3>2
  <2>2. v.live /\ ~v.readOnly /\ v.overlay = "none" /\ v.phase = "pending" /\ v.chan = Here /\ v.enabled
    BY <1>5, <2>1 DEF FocusRequestValid, composerWritable, Sound, Placed, EditorPlaced
  <2>3. g = Entered(v)
    BY <2>1, <2>2 DEF FocusChanged, composerWritable, Entered
  <2>4. /\ g \in Views /\ g.shown = Status(g) /\ EditorPlaced(g, "composer", Here)
        /\ g.phase = "input" /\ SameChrome(v, g)
    BY <1>1, <2>2, <2>3, EnteredSound
  <2>. HIDE DEF g
  <2>5. /\ d \in Views /\ d.shown = Status(d) /\ EditorPlaced(d, "composer", Here)
        /\ SameEditor(g, d) /\ SameChrome(g, d)
    BY <2>4, UnheldSound
  <2>. HIDE DEF d
  <2>6. d.phase = "input" /\ ~d.readOnly /\ d.live \in BOOLEAN
    BY <2>2, <2>4, <2>5 DEF SameEditor, SameChrome, Views
  <2>7. done.phase = "input" /\ ~done.readOnly
    <3>1. CASE d.live = TRUE
      <4>1. LET x == Applied(d, v.pend) IN SameChrome(d, x) /\ x.phase = d.phase
        BY <2>5, <2>6, DoneSound
      <4>. QED BY <2>6, <3>1, <4>1 DEF SameChrome, Applied
    <3>2. CASE d.live = FALSE
      <4>1. done = d
        BY <3>2 DEF FocusRequestDone
      <4>. QED BY <2>6, <4>1
    <3>. QED BY <2>6, <3>1, <3>2
  <2>. QED BY <2>1, <2>7
<1>. QED BY <1>2, <1>3, <1>4, <1>5

-----------------------------------------------------------------------------
(* What the steps have in common.                                           *)

\* A view that is sound under the settings that stay is so in the next state.
LEMMA SoundNext ==
  ASSUME vim' = vim, Sound(u', focus', Here')
  PROVE  Sound(u, focus, Here)'
BY DEF Sound, Placed, EditorPlaced, RequestPlaced, Status, editorStatusActive, Here, Views, Statuses,
       ChannelOrNone, WidgetOrNone, Widgets

\* Selecting c for the account on screen.
LEMMA HereNext ==
  ASSUME ShellTypes, NEW c \in ChannelOrNone, Go(c), acct' = acct
  PROVE  Here' = c /\ active' \in [Accounts -> ChannelOrNone]
BY DEF ShellTypes, Go, Here

\* The files of the composer change with the images it holds, and nothing else.
StagedAs(v) ==
  disk' = disk - u.staged + v.staged

\* The view of an event, before the runtime takes its request: the channel is
\* the old one, or nothing waits for the focus.
Ready(v, w, c) ==
  /\ Sound(v, w, c) /\ w \in Widgets /\ Answers(v, acct, c)
  /\ c = Here \/ Quiet(v)

\* An event whose view is ready keeps the invariant.
LEMMA EventKept ==
  ASSUME ShellIInv, NEW v, NEW w, NEW c \in ChannelOrNone, Event(v, w), Ready(v, w, c), StagedAs(v),
         Go(c), acct' = acct, life' = life
  PROVE  ShellIInv'
<1>. DEFINE n == consumeFocusRequests(v, w)
<1>1. /\ ShellTypes /\ vim \in BOOLEAN /\ ring \subseteq Widgets /\ Here \in ChannelOrNone
      /\ u \in Views /\ v \in Views
  BY DEF ShellIInv, ShellTypes, Here, Sound, Ready
<1>2. /\ ~dirty /\ life = "open" /\ u' = n.v /\ focus' = n.w /\ dirty' = TRUE
      /\ UNCHANGED <<vim, locked, hidden, ring, clip>>
  BY DEF Event
<1>3. Here' = c /\ active' \in [Accounts -> ChannelOrNone]
  BY <1>1, HereNext
<1>4. Sound(n.v, n.w, c) /\ SameWork(v, n.v) /\ n.w \in Widgets
  <2>1. CASE c = Here
    <3>1. Ends(v, n)
      BY <1>1, <2>1, ConsumeSound DEF Ready
    <3>. QED BY <2>1, <3>1 DEF Ends
  <2>2. CASE Quiet(v)
    <3>1. n = At(v, w)
      BY <2>2 DEF Quiet, consumeFocusRequests
    <3>2. n.v = v /\ n.w = w
      BY <3>1 DEF At
    <3>. QED BY <3>2 DEF Ready, SameWork
  <2>. QED BY <2>1, <2>2 DEF Ready
<1>. HIDE DEF n
<1>5. Sound(u, focus, Here)'
  BY <1>2, <1>3, <1>4, SoundNext
<1>6. Answers(u, acct, Here)'
  BY <1>2, <1>3, <1>4 DEF Ready, Answers, SameWork
<1>7. u.staged \in Nat /\ v.staged \in Nat /\ disk \in Nat /\ u'.staged = v.staged
  BY <1>1, <1>2, <1>4 DEF ShellTypes, Views, SameWork
<1>8. disk' \in Nat /\ FilesOwned' /\ Unstaged'
  BY <1>2, <1>7 DEF ShellIInv, FilesOwned, Unstaged, StagedAs
<1>9. ShellTypes'
  BY <1>1, <1>2, <1>3, <1>4, <1>8 DEF ShellTypes, ChannelOrNone, Widgets
<1>. QED BY <1>2, <1>5, <1>6, <1>8, <1>9 DEF ShellIInv, DrawnHonest

\* An event that stays in the channel and leaves the files alone.
LEMMA EventStays ==
  ASSUME ShellIInv, NEW v, NEW w \in Widgets, Event(v, w), Sound(v, w, Here), Answers(v, acct, Here),
         v.staged = u.staged, Stay
  PROVE  ShellIInv'
<1>1. Here \in ChannelOrNone /\ active \in [Accounts -> ChannelOrNone]
      /\ disk \in Nat /\ u.staged \in Nat /\ acct \in Accounts
  BY DEF ShellIInv, ShellTypes, Here, Sound, Views
<1>2. Go(Here)
  BY <1>1 DEF Go, Stay, Here
<1>3. StagedAs(v)
  BY <1>1 DEF StagedAs, Stay
<1>. QED BY <1>1, <1>2, <1>3, EventKept DEF Ready, Stay

\* A closure that leaves v behind.
LEMMA PostKept ==
  ASSUME ShellIInv, NEW v, Post(v), Sound(v, focus, Here'), Answers(v, acct', Here'), StagedAs(v),
         acct' \in Accounts, active' \in [Accounts -> ChannelOrNone], locked' \subseteq Channels
  PROVE  ShellIInv'
<1>1. /\ u' = v /\ dirty' = TRUE /\ life = "open" /\ ShellTypes /\ u \in Views /\ v \in Views
      /\ UNCHANGED <<vim, hidden, focus, ring, clip, life>>
  BY DEF Post, ShellIInv, Sound
<1>2. Sound(u, focus, Here)'
  BY <1>1, SoundNext
<1>3. Answers(u, acct, Here)'
  BY <1>1 DEF Answers
<1>4. u.staged \in Nat /\ v.staged \in Nat /\ disk \in Nat
  BY <1>1 DEF ShellTypes, Views
<1>5. disk' \in Nat /\ FilesOwned' /\ Unstaged'
  BY <1>1, <1>4 DEF ShellIInv, FilesOwned, Unstaged, StagedAs
<1>6. ShellTypes'
  BY <1>1, <1>5 DEF ShellTypes, ChannelOrNone, Widgets
<1>. QED BY <1>1, <1>2, <1>3, <1>5, <1>6 DEF ShellIInv, DrawnHonest

\* A closure that stays in the channel and leaves the files alone.
LEMMA PostStays ==
  ASSUME ShellIInv, NEW v, Post(v), Sound(v, focus, Here), Answers(v, acct, Here),
         v.staged = u.staged, UNCHANGED <<acct, active, disk>>, locked' \subseteq Channels
  PROVE  ShellIInv'
<1>1. Here' = Here /\ disk \in Nat /\ u.staged \in Nat
      /\ acct' \in Accounts /\ active' \in [Accounts -> ChannelOrNone]
  BY DEF ShellIInv, ShellTypes, Here, Sound, Views, ChannelOrNone
<1>2. StagedAs(v)
  BY <1>1 DEF StagedAs
<1>. QED BY <1>1, <1>2, PostKept

\* A step that neither touches the view nor moves the focus.
LEMMA ViewKept ==
  ASSUME ShellIInv, UNCHANGED <<vim, acct, active, u, focus>>
  PROVE  Sound(u, focus, Here)' /\ Answers(u, acct, Here)'
<1>1. Here' = Here /\ Sound(u, focus, Here) /\ Answers(u, acct, Here)
  BY DEF ShellIInv, Here
<1>2. Sound(u', focus', Here')
  BY <1>1
<1>. QED BY <1>1, <1>2, SoundNext DEF Answers

\* A step of which that and the frame are all that matters.
LEMMA StepOutside ==
  ASSUME ShellIInv, UNCHANGED <<vim, acct, active, locked, u, focus, ring>>, hidden' \in BOOLEAN,
         dirty' = TRUE \/ (dirty' = dirty /\ (life' = life \/ life' # "open")), dirty' \in BOOLEAN,
         FilesOwned', Unstaged', disk' \in Nat,
         clip' \in {"idle", "reading", "written", "failed", "filed", "erred"},
         life' \in {"open", "closing", "closed", "done"}
  PROVE  ShellIInv'
<1>1. ShellTypes'
  BY DEF ShellIInv, ShellTypes, ChannelOrNone, Widgets
<1>2. DrawnHonest'
  BY DEF ShellIInv, DrawnHonest
<1>. QED BY <1>1, <1>2, ViewKept DEF ShellIInv

\* What every step may assume of the view.
LEMMA ViewHere ==
  ASSUME ShellIInv
  PROVE  /\ Sound(u, focus, Here) /\ Answers(u, acct, Here) /\ u \in Views /\ focus \in Widgets
         /\ vim \in BOOLEAN /\ Here \in ChannelOrNone /\ acct \in Accounts
         /\ u.menu \in ChannelOrNone /\ u.staged \in Nat /\ disk \in Nat
         /\ active \in [Accounts -> ChannelOrNone] /\ locked \subseteq Channels
BY DEF ShellIInv, ShellTypes, Sound, Views, Here

-----------------------------------------------------------------------------
(* The steps that render and those that only move the focus or a layer.     *)

\* A frame moves the focus from a widget that is gone, and applies a held request.
LEMMA RenderKept ==
  ASSUME ShellIInv, Render
  PROVE  ShellIInv'
<1>. DEFINE r == visibleWidgets(u)
            w == IF focus \in r THEN focus ELSE Preferred(r)
            v == IF w = focus THEN u ELSE FocusChanged(u, w, "replace")
            n == applyPendingFocus(v, w, r)
<1>1. /\ ring' = r /\ u' = n.v /\ focus' = n.w /\ dirty' = FALSE /\ life = "open"
      /\ UNCHANGED <<vim, acct, active, locked, hidden, clip, disk, life>>
  BY DEF Render
<1>2. r \in SUBSET Widgets /\ w \in Widgets
  BY ViewHere DEF visibleWidgets, Preferred, Widgets
<1>3. Sound(v, w, Here) /\ SameWork(u, v)
  <2>1. CASE w = focus
    BY <2>1, ViewHere DEF SameWork
  <2>2. CASE w # focus
    <3>. HIDE DEF w
    <3>1. LET x == FocusChanged(u, w, "replace") IN Sound(x, w, Here) /\ SameWork(u, x)
      BY ViewHere, FocusChangedSound
    <3>. QED BY <2>2, <3>1
  <2>. QED BY <2>1, <2>2
<1>4. ASSUME vim, n.w = "composer" PROVE n.v.phase # "normal" /\ ~n.v.readOnly
  <2>1. ASSUME w = "composer" PROVE v.phase \in {"pending", "input"} /\ ~v.readOnly /\ v.overlay = "none"
    <3>1. w = focus /\ w \in r
      BY <1>4, <2>1 DEF Preferred
    <3>2. u.overlay = "none" /\ ~u.readOnly /\ u.enabled
      BY <2>1, <3>1 DEF visibleWidgets, canFocus
    <3>3. u.phase \in {"pending", "input"}
      BY <1>4, <3>2, ViewHere DEF Sound, Placed, EditorPlaced
    <3>. QED BY <3>1, <3>2, <3>3
  <2>. HIDE DEF r, w, v
  <2>. QED BY <1>2, <1>3, <1>4, <2>1, ViewHere, ApplyDrawn
<1>. HIDE DEF r, w, v
<1>5. Ends(v, n)
  BY <1>2, <1>3, ViewHere, ApplySound
<1>. HIDE DEF n
<1>6. Here' = Here /\ Sound(n.v, n.w, Here) /\ SameWork(u, n.v) /\ n.w \in Widgets
  BY <1>1, <1>3, <1>5 DEF Ends, SameWork, Here
<1>7. Sound(u, focus, Here)'
  BY <1>1, <1>6, SoundNext
<1>8. Answers(u, acct, Here)'
  BY <1>1, <1>6, ViewHere DEF Answers, SameWork
<1>9. DrawnHonest'
  <2>1. Status(n.v).input = (vim /\ n.v.phase # "normal") \/ n.v.readOnly
    BY DEF Status, editorStatusActive
  <2>. QED BY <1>1, <1>4, <1>6, <2>1 DEF DrawnHonest, Sound
<1>10. ShellTypes' /\ FilesOwned' /\ Unstaged'
  BY <1>1, <1>2, <1>6 DEF ShellIInv, ShellTypes, FilesOwned, Unstaged, SameWork, ChannelOrNone
<1>. QED BY <1>7, <1>8, <1>9, <1>10 DEF ShellIInv

\* Esc, and the keys that lead to the composer.
LEMMA KeyKept ==
  ASSUME ShellIInv, KeyEsc \/ KeyInsert \/ KeyFocusComposer \/ UnboundKey
  PROVE  ShellIInv'
<1>. USE ViewHere
<1>1. ASSUME NEW v, Event(v, focus), Stay, Sound(v, focus, Here), SameWork(u, v) PROVE ShellIInv'
  BY <1>1, SameAnswers, EventStays DEF SameWork
<1>2. CASE KeyEsc
  <2>1. \/ Event(closeOverlay(u, Here), focus) \/ Event(leaveInputMode(u, Here), focus)
        \/ Event(exitEditor(u, Here), focus) \/ Event(CancelComposerMode(u), focus)
    BY <1>2 DEF KeyEsc
  <2>2. CASE Event(closeOverlay(u, Here), focus)
    BY <1>1, <1>2, <2>2, CloseSound DEF KeyEsc
  <2>3. CASE Event(leaveInputMode(u, Here), focus)
    BY <1>1, <1>2, <2>3, LeaveSound DEF KeyEsc
  <2>4. CASE Event(exitEditor(u, Here), focus)
    BY <1>1, <1>2, <2>4, ExitSound DEF KeyEsc
  <2>5. CASE Event(CancelComposerMode(u), focus)
    <3>1. LET x == CancelComposerMode(u)
          IN  Sound(x, focus, Here) /\ x.mode = "normal" /\ x.staged = u.staged
      BY CancelModeSound
    <3>. QED BY <1>2, <2>5, <3>1, EventStays DEF KeyEsc, Answers
  <2>. QED BY <2>1, <2>2, <2>3, <2>4, <2>5
<1>3. CASE KeyInsert
  BY <1>1, <1>3, BeginSound DEF KeyInsert
<1>4. CASE KeyFocusComposer
  BY <1>1, <1>4, FocusComposerSound DEF KeyFocusComposer
<1>5. CASE UnboundKey
  BY <1>1, <1>5 DEF UnboundKey, SameWork
<1>. QED BY <1>2, <1>3, <1>4, <1>5

\* The focus moves by key or pointer.
LEMMA MoveKept ==
  ASSUME ShellIInv, (\E w \in Widgets : MoveFocus(w)) \/ openMessageMenu
  PROVE  ShellIInv'
<1>. USE ViewHere
<1>1. ASSUME NEW w \in Widgets, MoveFocus(w) PROVE ShellIInv'
  <2>1. LET x == FocusChanged(u, w, "direct") IN Sound(x, w, Here) /\ SameWork(u, x)
    BY FocusChangedSound
  <2>. QED BY <1>1, <2>1, SameAnswers, EventStays DEF MoveFocus, SameWork
<1>2. CASE openMessageMenu
  <2>. DEFINE x == FocusChanged(u, "chat", "pointer")
              y == setPopup(x, Here)
  <2>1. Sound(x, "chat", Here) /\ SameWork(u, x)
    BY FocusChangedSound
  <2>. HIDE DEF x
  <2>2. Sound(y, "chat", Here) /\ SameWork(x, y)
    BY <2>1, PopupSound
  <2>3. Event(y, "chat") /\ Stay /\ "chat" \in Widgets
    BY <1>2 DEF openMessageMenu, x, Widgets
  <2>4. SameWork(u, y)
    BY <2>1, <2>2 DEF SameWork
  <2>. HIDE DEF y
  <2>. QED BY <2>2, <2>3, <2>4, SameAnswers, EventStays DEF SameWork
<1>. QED BY <1>1, <1>2

\* A menu closes, a panel or a picker opens.
LEMMA LayerKept ==
  ASSUME ShellIInv, MenuDismiss \/ OpenPanel \/ openPicker
  PROVE  ShellIInv'
<1>. USE ViewHere
<1>1. ASSUME NEW v, Event(v, focus), Stay, Sound(v, focus, Here), SameWork(u, v) PROVE ShellIInv'
  BY <1>1, SameAnswers, EventStays DEF SameWork
<1>2. CASE MenuDismiss
  BY <1>1, <1>2, PopupSound DEF MenuDismiss
<1>3. CASE OpenPanel
  BY <1>1, <1>3, PanelSound DEF OpenPanel
<1>4. CASE openPicker
  BY <1>1, <1>4, ComposerOverlaySound DEF openPicker
<1>. QED BY <1>2, <1>3, <1>4

-----------------------------------------------------------------------------
(* The composer: what is typed, sent, picked and pasted.                    *)

\* The text of the composer, and the channel whose commands are loading.
Drafted(v, text) == [v EXCEPT !.draft = text]

Loading(v, c) == [v EXCEPT !.loading = c]

\* Neither is any concern of the editor.
LEMMA DraftSound ==
  ASSUME NEW v, NEW w, NEW c, Sound(v, w, c), vim \in BOOLEAN
  PROVE  /\ \A text \in {"empty", "text", "slash"} :
              LET x == Drafted(v, text) IN Sound(x, w, c) /\ SameWork(v, x) /\ x.phase = v.phase
         /\ \A d \in ChannelOrNone :
              LET x == Loading(v, d) IN Sound(x, w, c) /\ SameWork(v, x) /\ x.phase = v.phase
<1>1. v \in Views
  BY DEF Sound
<1>2. ASSUME NEW x, x \in Views, SameWork(v, x), SameLayers(v, x), SameEditor(v, x), SameRequest(v, x),
             x.shown = v.shown, Status(x) = Status(v)
      PROVE  Sound(x, w, c)
  BY <1>2 DEF Sound, Placed, EditorPlaced, RequestPlaced, SameLayers, SameEditor, SameRequest
<1>3. ASSUME NEW text \in {"empty", "text", "slash"}
      PROVE  LET x == Drafted(v, text) IN Sound(x, w, c) /\ SameWork(v, x) /\ x.phase = v.phase
  <2>. DEFINE x == Drafted(v, text)
  <2>1. x \in Views
    BY <1>1 DEF Views, Drafted
  <2>2. /\ SameWork(v, x) /\ SameLayers(v, x) /\ SameEditor(v, x) /\ SameRequest(v, x)
        /\ x.shown = v.shown /\ Status(x) = Status(v)
    BY <1>1 DEF Views, Drafted, SameWork, SameLayers, SameEditor, SameRequest, Status, editorStatusActive
  <2>. HIDE DEF x
  <2>. QED BY <1>2, <2>1, <2>2 DEF SameEditor, x
<1>4. ASSUME NEW d \in ChannelOrNone
      PROVE  LET x == Loading(v, d) IN Sound(x, w, c) /\ SameWork(v, x) /\ x.phase = v.phase
  <2>. DEFINE x == Loading(v, d)
  <2>1. x \in Views
    BY <1>1 DEF Views, Loading
  <2>2. /\ SameWork(v, x) /\ SameLayers(v, x) /\ SameEditor(v, x) /\ SameRequest(v, x)
        /\ x.shown = v.shown /\ Status(x) = Status(v)
    BY <1>1 DEF Views, Loading, SameWork, SameLayers, SameEditor, SameRequest, Status, editorStatusActive
  <2>. HIDE DEF x
  <2>. QED BY <1>2, <2>1, <2>2 DEF SameEditor, x
<1>. QED BY <1>3, <1>4

\* Another number of images.
WithStaged(v, k) == [v EXCEPT !.staged = k]

\* Nor is that.
LEMMA StagedSound ==
  ASSUME NEW v, NEW w, NEW c, NEW k \in Nat, Sound(v, w, c), vim \in BOOLEAN
  PROVE  LET x == WithStaged(v, k)
         IN  Sound(x, w, c) /\ x.staged = k /\ x.mode = v.mode /\ x.target = v.target
<1>. DEFINE x == WithStaged(v, k)
<1>1. v \in Views
  BY DEF Sound
<1>2. x \in Views
  BY <1>1 DEF Views, WithStaged
<1>3. /\ SameLayers(v, x) /\ SameEditor(v, x) /\ SameRequest(v, x) /\ x.shown = v.shown
      /\ Status(x) = Status(v) /\ x.staged = k /\ x.mode = v.mode /\ x.target = v.target
  BY <1>1 DEF Views, WithStaged, SameLayers, SameEditor, SameRequest, Status, editorStatusActive
<1>. HIDE DEF x
<1>4. Sound(x, w, c)
  BY <1>2, <1>3
     DEF Sound, Placed, EditorPlaced, RequestPlaced, SameLayers, SameEditor, SameRequest
<1>. QED BY <1>3, <1>4 DEF x

\* Text, a slash, a completion trigger, or the sequence that leaves the editor.
LEMMA TypeKept ==
  ASSUME ShellIInv, NEW text \in {"text", "slash", "trigger", "quit"}, Type(text)
  PROVE  ShellIInv'
<1>. USE ViewHere
<1>. DEFINE v == composerChanged(u, text)
<1>1. Event(v, focus) /\ Stay
  BY DEF Type
<1>2. Sound(v, focus, Here) /\ SameWork(u, v)
  <2>. DEFINE d == Drafted(u, "text")
              s == Drafted(u, "slash")
              l == IF u.loading = None THEN Here ELSE u.loading
  <2>1. Sound(d, focus, Here) /\ SameWork(u, d) /\ Sound(s, focus, Here) /\ SameWork(u, s)
    BY DraftSound
  <2>2. l \in ChannelOrNone
    BY DEF Views
  <2>3. CASE text = "slash"
    <3>1. v = Loading(s, l)
      BY <2>3 DEF composerChanged, Drafted, Loading
    <3>. HIDE DEF s, l, v
    <3>2. LET x == Loading(s, l) IN Sound(x, focus, Here) /\ SameWork(s, x)
      BY <2>1, <2>2, DraftSound
    <3>. QED BY <2>1, <3>1, <3>2 DEF SameWork
  <2>4. CASE text = "trigger"
    <3>1. v = setComposerOverlay(d, "completion")
      BY <2>4 DEF composerChanged, Drafted
    <3>. HIDE DEF d, v
    <3>2. LET x == setComposerOverlay(d, "completion") IN Sound(x, focus, Here) /\ SameWork(d, x)
      BY <2>1, ComposerOverlaySound
    <3>. QED BY <2>1, <3>1, <3>2 DEF SameWork
  <2>5. CASE text = "quit"
    <3>1. v = u \/ v = leaveInputMode(u, Here)
      BY <2>5 DEF composerChanged
    <3>2. LET x == leaveInputMode(u, Here) IN Sound(x, focus, Here) /\ SameWork(u, x)
      BY LeaveSound
    <3>. QED BY <3>1, <3>2 DEF SameWork
  <2>6. CASE text = "text"
    <3>1. v = d
      BY <2>6 DEF composerChanged, Drafted
    <3>. QED BY <2>1, <3>1
  <2>. QED BY <2>3, <2>4, <2>5, <2>6
<1>. HIDE DEF v
<1>. QED BY <1>1, <1>2, SameAnswers, EventStays DEF SameWork

\* Backspace in an empty composer drops its images, then leaves.
LEMMA BackspaceKept ==
  ASSUME ShellIInv, handleComposerBackspaceEmpty
  PROVE  ShellIInv'
<1>. USE ViewHere
<1>1. disk' = disk - u.staged /\ UNCHANGED <<acct, active, life>> /\ Go(Here)
  BY DEF handleComposerBackspaceEmpty, Go, Here
<1>2. CASE u.staged > 0
  <2>. DEFINE v == clearAttachments(u)
  <2>1. Event(v, focus)
    BY <1>2 DEF handleComposerBackspaceEmpty
  <2>2. v = WithStaged(u, 0)
    BY DEF clearAttachments, WithStaged
  <2>. HIDE DEF v
  <2>3. Sound(v, focus, Here) /\ v.staged = 0 /\ v.mode = u.mode /\ v.target = u.target
    BY <2>2, StagedSound
  <2>4. StagedAs(v) /\ Ready(v, focus, Here)
    BY <1>1, <2>3 DEF StagedAs, Ready, Answers, FilesOwned, ShellIInv
  <2>. QED BY <1>1, <2>1, <2>4, EventKept
<1>3. CASE ~(u.staged > 0)
  <2>. DEFINE v == leaveInputMode(u, Here)
  <2>1. Event(v, focus)
    BY <1>3 DEF handleComposerBackspaceEmpty
  <2>2. Sound(v, focus, Here) /\ SameWork(u, v)
    BY LeaveSound
  <2>. HIDE DEF v
  <2>3. Stay
    BY <1>1, <1>3 DEF Stay
  <2>. QED BY <2>1, <2>2, <2>3, SameAnswers, EventStays DEF SameWork
<1>. QED BY <1>2, <1>3

\* The panel of a new forum post, or of a command, takes the draft with it.
LEMMA PanelDrafted ==
  ASSUME ShellIInv
  PROVE  LET x == [setIndependentOverlay(u, Here) EXCEPT !.draft = "empty"]
         IN  Sound(x, focus, Here) /\ SameWork(u, x)
<1>. DEFINE p == setIndependentOverlay(u, Here)
<1>1. Sound(p, focus, Here) /\ SameWork(u, p)
  BY ViewHere, PanelSound
<1>. HIDE DEF p
<1>2. LET x == Drafted(p, "empty") IN Sound(x, focus, Here) /\ SameWork(p, x)
  BY <1>1, ViewHere, DraftSound
<1>. QED BY <1>1, <1>2 DEF Drafted, SameWork, p

\* What is sent leaves the composer with its reply and its images.
LEMMA SendKept ==
  ASSUME ShellIInv, onSend
  PROVE  ShellIInv'
<1>. USE ViewHere
<1>. DEFINE d == Drafted(u, "empty")
            m == CancelComposerMode(d)
            sent == clearAttachments(m)
            post == [setIndependentOverlay(u, Here) EXCEPT !.draft = "empty"]
<1>1. UNCHANGED <<acct, active, life>> /\ Go(Here)
      /\ \/ Event(post, focus) /\ disk' = disk
         \/ Event(sent, focus) /\ disk' = disk - u.staged
  BY DEF onSend, Drafted, Go, Here
<1>2. CASE Event(post, focus) /\ disk' = disk
  <2>1. Sound(post, focus, Here) /\ SameWork(u, post)
    BY PanelDrafted
  <2>. HIDE DEF post
  <2>. QED BY <1>1, <1>2, <2>1, SameAnswers, EventStays DEF SameWork, Stay
<1>3. CASE Event(sent, focus) /\ disk' = disk - u.staged
  <2>1. Sound(d, focus, Here) /\ SameWork(u, d)
    BY DraftSound
  <2>. HIDE DEF d
  <2>2. Sound(m, focus, Here) /\ m.mode = "normal"
    BY <2>1, CancelModeSound
  <2>. HIDE DEF m
  <2>3. sent = WithStaged(m, 0)
    BY DEF clearAttachments, WithStaged
  <2>. HIDE DEF sent
  <2>4. Sound(sent, focus, Here) /\ sent.staged = 0 /\ sent.mode = "normal"
    BY <2>2, <2>3, StagedSound
  <2>5. StagedAs(sent) /\ Ready(sent, focus, Here)
    BY <1>3, <2>4 DEF StagedAs, Ready, Answers, FilesOwned, ShellIInv
  <2>. QED BY <1>1, <1>3, <2>5, EventKept
<1>. QED BY <1>1, <1>2, <1>3

\* A reply of another channel is dropped; a command opens its panel.
LEMMA CommandKept ==
  ASSUME ShellIInv, RefuseSend \/ runLocalCommand
  PROVE  ShellIInv'
<1>. USE ViewHere
<1>1. CASE RefuseSend
  <2>1. LET x == CancelComposerMode(u)
        IN  Sound(x, focus, Here) /\ x.mode = "normal" /\ x.staged = u.staged
    BY CancelModeSound
  <2>. QED BY <1>1, <2>1, EventStays DEF RefuseSend, Answers
<1>2. CASE runLocalCommand
  BY <1>2, PanelDrafted, SameAnswers, EventStays DEF runLocalCommand, SameWork
<1>. QED BY <1>1, <1>2

\* A reply or an edit is begun, by key or from the menu.
LEMMA BeginKept ==
  ASSUME ShellIInv, NEW mode \in {"reply", "edit"}, handleMessageAction(mode) \/ MenuSelect(mode)
  PROVE  ShellIInv'
<1>. USE ViewHere
<1>1. ASSUME NEW y, NEW m \in ChannelOrNone, Sound(y, focus, Here), SameWork(u, y),
             Event(focusComposer(BeginMode(y, Here, m, mode), Here), focus), Stay
      PROVE  ShellIInv'
  <2>. DEFINE b == BeginMode(y, Here, m, mode)
              x == focusComposer(b, Here)
  <2>1. Answers(y, acct, Here)
    BY <1>1, SameAnswers
  <2>2. Sound(b, focus, Here) /\ Answers(b, acct, Here) /\ b.staged = y.staged
    BY <1>1, <2>1, BeginModeSound
  <2>. HIDE DEF b
  <2>3. Sound(x, focus, Here) /\ SameWork(b, x)
    BY <2>2, FocusComposerSound
  <2>4. Event(x, focus)
    BY <1>1 DEF b
  <2>. HIDE DEF x
  <2>. QED BY <1>1, <2>2, <2>3, <2>4, SameAnswers, EventStays DEF SameWork
<1>2. CASE handleMessageAction(mode)
  BY <1>1, <1>2 DEF handleMessageAction, SameWork
<1>3. CASE MenuSelect(mode)
  BY <1>1, <1>3, PopupSound DEF MenuSelect
<1>. QED BY <1>2, <1>3

\* An entry of a completion or picker inserts text.
LEMMA InsertKept ==
  ASSUME ShellIInv, NEW draft \in {"text", "empty"}, PickInsert(draft)
  PROVE  ShellIInv'
<1>. USE ViewHere
<1>. DEFINE d == Drafted(u, draft)
            x == closeOverlay(d, Here)
<1>1. Sound(d, focus, Here) /\ SameWork(u, d)
  BY DraftSound
<1>2. Event(x, focus) /\ Stay
  BY DEF PickInsert, Drafted
<1>. HIDE DEF d
<1>3. Sound(x, focus, Here) /\ SameWork(d, x)
  BY <1>1, CloseSound
<1>. HIDE DEF x
<1>4. SameWork(u, x)
  BY <1>1, <1>3 DEF SameWork
<1>. QED BY <1>2, <1>3, <1>4, SameAnswers, EventStays DEF SameWork

-----------------------------------------------------------------------------
(* Channels and accounts.                                                   *)

\* The user selects a channel, in the side panel, the forum or a switcher.
LEMMA SelectKept ==
  ASSUME ShellIInv, NEW c \in Channels,
         PickChannel(c) \/ SelectChannel(c) \/ onOpenPost(c) \/ ToastActivate(c)
  PROVE  ShellIInv'
<1>. USE ViewHere
<1>1. c \in ChannelOrNone
  BY DEF ChannelOrNone
<1>2. /\ Go(c) /\ UNCHANGED <<acct, disk, life>>
      /\ \/ Event(closeOverlay(switchTo(u, Here, c), c), focus)
         \/ Event(onChannelSelected(u, Here, c), focus)
         \/ Event(updateChannelChrome(showChat(handleActiveChannelChange(u, Here, c)), c), focus)
         \/ Event(onChannelSelected(closeOverlay(closePopup(u), Here), Here, c), focus)
  BY DEF PickChannel, SelectChannel, onOpenPost, ToastActivate
<1>3. ASSUME NEW y, NEW v, Event(v, focus), Arrived(y, v, focus, acct, Here, c), y.staged = u.staged
      PROVE  ShellIInv'
  <2>1. StagedAs(v)
    BY <1>2, <1>3 DEF StagedAs, Arrived
  <2>2. Ready(v, focus, c)
    BY <1>3 DEF Ready, Arrived
  <2>. QED BY <1>1, <1>2, <1>3, <2>1, <2>2, EventKept
<1>4. /\ Arrived(u, onChannelSelected(u, Here, c), focus, acct, Here, c)
      /\ Arrived(u, switchTo(u, Here, c), focus, acct, Here, c)
      /\ Arrived(u, updateChannelChrome(showChat(handleActiveChannelChange(u, Here, c)), c),
                 focus, acct, Here, c)
  BY <1>1, SelectSound
<1>5. Arrived(u, closeOverlay(switchTo(u, Here, c), c), focus, acct, Here, c)
  <2>. DEFINE s == switchTo(u, Here, c)
              x == closeOverlay(s, c)
  <2>1. Arrived(u, s, focus, acct, Here, c)
    BY <1>4
  <2>. HIDE DEF s
  <2>2. /\ Sound(x, focus, c) /\ SameWork(s, x)
        /\ s.phase = "normal" /\ ~s.ready => x.phase = "normal" /\ ~x.ready
    BY <1>1, <2>1, CloseSound DEF Arrived
  <2>. HIDE DEF x
  <2>3. Arrived(u, x, focus, acct, Here, c)
    BY <2>1, <2>2 DEF Arrived, Quiet, SameWork, Answers
  <2>. QED BY <2>3 DEF x, s
<1>6. \E y : y.staged = u.staged
             /\ Arrived(y, onChannelSelected(closeOverlay(closePopup(u), Here), Here, c),
                        focus, acct, Here, c)
  <2>. DEFINE y == closePopup(u)
              z == closeOverlay(y, Here)
  <2>1. Sound(y, focus, Here) /\ SameWork(u, y)
    BY PopupSound
  <2>. HIDE DEF y
  <2>2. Sound(z, focus, Here) /\ SameWork(y, z)
    BY <2>1, CloseSound
  <2>. HIDE DEF z
  <2>3. z \in Views /\ Answers(z, acct, Here) /\ z.staged = u.staged
    BY <2>1, <2>2 DEF Sound, Answers, SameWork
  <2>4. Arrived(z, onChannelSelected(z, Here, c), focus, acct, Here, c)
    BY <1>1, <2>2, <2>3, SelectSound
  <2>. QED BY <2>3, <2>4 DEF y, z
<1>. QED BY <1>2, <1>3, <1>4, <1>5, <1>6

\* The selected channel goes, and with it everything begun in it.
LEMMA RemovedKept ==
  ASSUME ShellIInv, ChannelRemoved
  PROVE  ShellIInv'
<1>. USE ViewHere
<1>. DEFINE x == handleActiveChannelChange(u, Here, None)
<1>1. Here # None /\ None \in ChannelOrNone /\ UNCHANGED <<acct, locked, disk>>
  BY DEF ChannelRemoved, ChannelOrNone
<1>2. Sound(x, focus, None) /\ Answers(x, acct, None) /\ x.staged = u.staged
  BY <1>1, ChannelChangeSound
<1>3. PICK n \in Refreshed(x, None) : Post(n[1]) /\ Go(n[2])
  BY DEF ChannelRemoved
<1>. HIDE DEF x
<1>4. /\ n[2] \in ChannelOrNone /\ n[1].staged = u.staged
      /\ Answers(n[1], acct, n[2]) /\ Sound(n[1], focus, n[2])
  BY <1>1, <1>2, RefreshSound DEF Sound
<1>5. Here' = n[2] /\ active' \in [Accounts -> ChannelOrNone]
  BY <1>1, <1>3, <1>4, HereNext DEF ShellIInv
<1>6. StagedAs(n[1])
  BY <1>1, <1>4 DEF StagedAs
<1>. QED BY <1>1, <1>3, <1>4, <1>5, <1>6, PostKept

\* A channel that goes in another account is no concern of the screen.
LEMMA ElsewhereKept ==
  ASSUME ShellIInv, NEW a \in Accounts, ChannelRemovedElsewhere(a)
  PROVE  ShellIInv'
<1>1. /\ Here' = Here /\ active' \in [Accounts -> ChannelOrNone]
      /\ UNCHANGED <<vim, acct, locked, hidden, u, focus, ring, dirty, clip, disk, life>>
  BY ViewHere DEF ChannelRemovedElsewhere, Here, ChannelOrNone
<1>2. Sound(u', focus', Here')
  BY <1>1, ViewHere
<1>3. Sound(u, focus, Here)'
  BY <1>1, <1>2, SoundNext
<1>4. Answers(u, acct, Here)'
  BY <1>1, ViewHere DEF Answers
<1>5. ShellTypes' /\ DrawnHonest' /\ FilesOwned' /\ Unstaged'
  BY <1>1 DEF ShellIInv, ShellTypes, DrawnHonest, FilesOwned, Unstaged, ChannelOrNone
<1>. QED BY <1>3, <1>4, <1>5 DEF ShellIInv

\* A refresh of a view with nothing in progress.
LEMMA FreshRefresh ==
  ASSUME NEW v \in Views, NEW from \in ChannelOrNone, vim \in BOOLEAN,
         v.mode = "normal", v.staged = 0, NEW n \in Refreshed(v, from)
  PROVE  /\ n[2] \in ChannelOrNone /\ n[1] \in Views
         /\ n[1].staged = 0 /\ n[1].mode = "normal"
<1>1. Answers(v, acct, from)
  BY DEF Answers
<1>. QED BY <1>1, RefreshSound

\* Another account: nothing of the old one stays on screen.
LEMMA AccountKept ==
  ASSUME ShellIInv, NEW a \in Accounts, SetActiveAccount(a)
  PROVE  ShellIInv'
<1>. USE ViewHere
<1>. DEFINE reset == resetAccountState(u)
            bare(n) == [n[1] EXCEPT !.overlay = "none", !.owned = FALSE]
            x(n) == exitEditor(closePopup(bare(n)), n[2])
<1>1. reset \in Views /\ reset.mode = "normal" /\ reset.staged = 0
  <2>. DEFINE m == [u EXCEPT !.mode = "normal", !.target = NoTarget, !.draft = "empty"]
              f == [m EXCEPT !.forum = None]
              k == [f EXCEPT !.staged = 0]
  <2>1. NoTarget \in (Accounts \union {None}) \X ChannelOrNone /\ None \in ChannelOrNone
    BY DEF NoTarget, ChannelOrNone
  <2>2. m \in Views /\ m.mode = "normal"
    BY <2>1 DEF Views
  <2>. HIDE DEF m
  <2>3. f \in Views /\ f.mode = "normal"
    BY <2>1, <2>2 DEF Views
  <2>. HIDE DEF f
  <2>4. k \in Views /\ k.mode = "normal" /\ k.staged = 0
    BY <2>3 DEF Views
  <2>5. reset = k
    BY DEF resetAccountState, clearAttachments, showChat, m, f
  <2>. QED BY <2>4, <2>5
<1>2. PICK n \in Refreshed(reset, active[a]) :
        Post(x(n)) /\ active' = [active EXCEPT ![a] = n[2]]
  BY DEF SetActiveAccount
<1>3. acct' = a /\ disk' = disk - u.staged /\ active[a] \in ChannelOrNone /\ locked' = locked
  BY DEF SetActiveAccount
<1>. HIDE DEF reset
<1>4. /\ n[2] \in ChannelOrNone /\ n[1] \in Views
      /\ n[1].staged = 0 /\ n[1].mode = "normal"
  BY <1>1, <1>2, <1>3, FreshRefresh
<1>5. bare(n) \in Views /\ SameWork(n[1], bare(n))
  BY <1>4 DEF Views, SameWork
<1>6. closePopup(bare(n)) \in Views /\ SameWork(bare(n), closePopup(bare(n)))
  <2>. DEFINE b == bare(n)
  <2>. HIDE DEF b
  <2>1. b \in Views /\ None \in ChannelOrNone
    BY <1>5 DEF b, ChannelOrNone
  <2>2. closePopup(b) \in Views /\ SameWork(b, closePopup(b))
    BY <2>1 DEF closePopup, Views, SameWork
  <2>. QED BY <2>2 DEF b
<1>7. Sound(x(n), focus, n[2]) /\ SameWork(closePopup(bare(n)), x(n))
  BY <1>4, <1>6, ExitSound
<1>8. Here' = n[2] /\ active' \in [Accounts -> ChannelOrNone]
  BY <1>2, <1>3, <1>4 DEF Here
<1>9. x(n).staged = 0 /\ x(n).mode = "normal"
  BY <1>4, <1>5, <1>6, <1>7 DEF SameWork
<1>10. StagedAs(x(n)) /\ Answers(x(n), acct', Here')
  BY <1>3, <1>9 DEF StagedAs, Answers, ShellIInv, FilesOwned
<1>. QED BY <1>2, <1>3, <1>7, <1>8, <1>10, PostKept

-----------------------------------------------------------------------------
(* The other closures, the pasted images and the end.                       *)

\* Plugins, ended videos and loaded commands change the layers.
LEMMA ClosureKept ==
  ASSUME ShellIInv, OpenPluginOverlay \/ OpenPluginViewport \/ EndedVideoCloses \/ CommandsLoaded
  PROVE  ShellIInv'
<1>. USE ViewHere
<1>1. ASSUME NEW v, Post(v), Sound(v, focus, Here), SameWork(u, v),
             UNCHANGED <<acct, active, locked, disk>>
      PROVE  ShellIInv'
  BY <1>1, SameAnswers, PostStays DEF SameWork
<1>2. CASE OpenPluginOverlay
  BY <1>1, <1>2, PanelSound DEF OpenPluginOverlay
<1>3. CASE OpenPluginViewport
  <2>1. Post(WithPopup(u, "viewport", None)) /\ UNCHANGED <<acct, active, locked, disk>>
    BY <1>3 DEF OpenPluginViewport, WithPopup
  <2>2. LET x == WithPopup(u, "viewport", None) IN Sound(x, focus, Here) /\ SameWork(u, x)
    <3>1. None \in ChannelOrNone
      BY DEF ChannelOrNone
    <3>. QED BY <3>1, PopupSet
  <2>. QED BY <1>1, <2>1, <2>2
<1>4. CASE EndedVideoCloses
  BY <1>1, <1>4, CloseSound DEF EndedVideoCloses
<1>5. CASE CommandsLoaded
  <2>. DEFINE l == Loading(u, None)
              x == setComposerOverlay(l, "completion")
  <2>1. (Post(l) \/ Post(x)) /\ UNCHANGED <<acct, active, locked, disk>>
    BY <1>5 DEF CommandsLoaded, Loading
  <2>2. Sound(l, focus, Here) /\ SameWork(u, l)
    BY DraftSound DEF ChannelOrNone
  <2>. HIDE DEF l
  <2>3. Sound(x, focus, Here) /\ SameWork(l, x)
    BY <2>2, ComposerOverlaySound
  <2>. HIDE DEF x
  <2>4. SameWork(u, x)
    BY <2>2, <2>3 DEF SameWork
  <2>. QED BY <1>1, <2>1, <2>2, <2>3, <2>4
<1>. QED BY <1>2, <1>3, <1>4, <1>5

\* The user may or may not write any more.
LEMMA PermissionKept ==
  ASSUME ShellIInv, NEW c \in Channels, PermissionChange(c)
  PROVE  ShellIInv'
<1>. USE ViewHere
<1>1. PICK n : Post(IF u.forum # None THEN u
                    ELSE updateComposerStatus([u EXCEPT !.readOnly = Here \in n \ Forums]))
  BY DEF PermissionChange
<1>2. UNCHANGED <<acct, active, disk>> /\ locked' \subseteq Channels
  BY DEF PermissionChange
<1>. DEFINE b == Here \in n \ Forums
            x == updateComposerStatus([u EXCEPT !.readOnly = b])
<1>3. b \in BOOLEAN
  OBVIOUS
<1>4. Post(u) \/ Post(x)
  BY <1>1
<1>. HIDE DEF b
<1>5. Sound(x, focus, Here) /\ SameWork(u, x)
  BY <1>3, PermissionSound DEF Sound
<1>. HIDE DEF x
<1>. QED BY <1>2, <1>4, <1>5, SameAnswers, PostStays DEF SameWork

\* Every temporary file keeps its one owner, until the last is deleted.
LEMMA PasteKept ==
  ASSUME ShellIInv, Paste \/ BeginClose \/ Stopped \/ Resize
  PROVE  ShellIInv'
<1>. USE ViewHere
<1>1. /\ dirty \in BOOLEAN /\ hidden \in BOOLEAN
      /\ life \in {"open", "closing", "closed", "done"}
      /\ clip \in {"idle", "reading", "written", "failed", "filed", "erred"}
      /\ FilesOwned /\ Unstaged
  BY DEF ShellIInv, ShellTypes
<1>2. CASE tryPasteImage \/ ReadImage \/ ReadFails \/ finishClipboardPaste \/ BeginClose \/ Stopped
           \/ Resize
  <2>1. /\ UNCHANGED <<vim, acct, active, locked, u, focus, ring>> /\ hidden' \in BOOLEAN
        /\ dirty' = TRUE \/ (dirty' = dirty /\ (life' = life \/ life' # "open"))
        /\ dirty' \in BOOLEAN
    BY <1>1, <1>2 DEF tryPasteImage, ReadImage, ReadFails, finishClipboardPaste, BeginClose, Stopped,
                      Resize, Worker
  <2>2. /\ clip' \in {"idle", "reading", "written", "failed", "filed", "erred"}
        /\ life' \in {"open", "closing", "closed", "done"}
        /\ disk' \in Nat /\ FilesOwned' /\ Unstaged'
    BY <1>1, <1>2 DEF tryPasteImage, ReadImage, ReadFails, finishClipboardPaste, BeginClose, Stopped,
                      Resize, Worker, FilesOwned, Unstaged
  <2>. QED BY <2>1, <2>2, StepOutside
<1>3. CASE StageTempImage
  <2>1. /\ clip \in {"filed", "erred"} /\ life \in {"open", "closed"} /\ clip' = "idle" /\ dirty' = TRUE
        /\ UNCHANGED <<vim, acct, active, locked, hidden, focus, ring, life>>
    BY <1>3 DEF StageTempImage
  <2>2. CASE UNCHANGED u /\ disk' = disk - (IF clip = "filed" THEN 1 ELSE 0)
    <3>1. disk' \in Nat /\ FilesOwned' /\ Unstaged'
      BY <1>1, <2>1, <2>2 DEF FilesOwned, Unstaged
    <3>. QED BY <1>1, <2>1, <2>2, <3>1, StepOutside
  <2>3. CASE clip = "filed" /\ life = "open" /\ u' = [u EXCEPT !.staged = @ + 1] /\ UNCHANGED disk
    <3>. DEFINE x == WithStaged(u, u.staged + 1)
    <3>1. u' = x
      BY <2>3 DEF WithStaged
    <3>2. Sound(x, focus, Here) /\ x.staged = u.staged + 1 /\ x.mode = u.mode /\ x.target = u.target
      BY StagedSound
    <3>. HIDE DEF x
    <3>3. Here' = Here /\ Sound(u', focus', Here')
      BY <2>1, <3>1, <3>2 DEF Here
    <3>4. Sound(u, focus, Here)' /\ Answers(u, acct, Here)'
      BY <2>1, <3>1, <3>2, <3>3, SoundNext DEF Answers
    <3>5. FilesOwned' /\ Unstaged'
      BY <1>1, <2>1, <2>3, <3>1, <3>2 DEF FilesOwned, Unstaged
    <3>6. ShellTypes' /\ DrawnHonest'
      BY <2>1, <2>3 DEF ShellIInv, ShellTypes, DrawnHonest, ChannelOrNone, Widgets
    <3>. QED BY <3>4, <3>5, <3>6 DEF ShellIInv
  <2>. QED BY <1>3, <2>2, <2>3 DEF StageTempImage
<1>. QED BY <1>2, <1>3 DEF Paste

\* Close empties the composer and takes every layer away.
LEMMA CloseKept ==
  ASSUME ShellIInv, Close
  PROVE  ShellIInv'
<1>. USE ViewHere
<1>. DEFINE s == clearAttachments(u)
            p == closePopup(s)
            e == exitEditor(p, Here)
            x == [e EXCEPT !.overlay = "none"]
<1>1. /\ u' = x /\ life = "closing" /\ clip \notin {"reading", "written", "failed"}
      /\ disk' = disk - u.staged /\ life' = "closed"
      /\ UNCHANGED <<vim, acct, active, locked, hidden, focus, ring, dirty, clip>>
  BY DEF Close
<1>2. Sound(s, focus, Here) /\ s.staged = 0 /\ s.mode = u.mode /\ s.target = u.target
  BY StagedSound DEF clearAttachments, WithStaged
<1>. HIDE DEF s
<1>3. Sound(p, focus, Here) /\ SameWork(s, p) /\ p \in Views
  BY <1>2, PopupSound DEF Sound
<1>. HIDE DEF p
<1>4. Sound(e, focus, Here) /\ SameWork(p, e) /\ e.phase = "normal" /\ e \in Views
  BY <1>3, ExitSound DEF Sound
<1>. HIDE DEF e
<1>5. Sound(x, focus, Here) /\ SameWork(e, x)
  <2>1. x \in Views
    BY <1>4 DEF Views
  <2>2. /\ SameWork(e, x) /\ SameEditor(e, x) /\ SameRequest(e, x) /\ x.shown = e.shown
        /\ Status(x) = Status(e)
    BY <1>4 DEF Views, SameWork, SameEditor, SameRequest, Status, editorStatusActive
  <2>. HIDE DEF x
  <2>. QED
    BY <1>4, <2>1, <2>2
       DEF Sound, Placed, EditorPlaced, RequestPlaced, SameEditor, SameRequest
<1>. HIDE DEF x
<1>6. x.staged = 0 /\ x.mode = u.mode /\ x.target = u.target
  BY <1>2, <1>3, <1>4, <1>5 DEF SameWork
<1>7. Here' = Here
  BY <1>1 DEF Here
<1>8. Sound(u, focus, Here)' /\ Answers(u, acct, Here)'
  BY <1>1, <1>5, <1>6, <1>7, SoundNext DEF Answers
<1>9. ShellTypes' /\ DrawnHonest' /\ FilesOwned' /\ Unstaged'
  BY <1>1, <1>6 DEF ShellIInv, ShellTypes, DrawnHonest, FilesOwned, Unstaged, ChannelOrNone, Widgets
<1>. QED BY <1>8, <1>9 DEF ShellIInv

-----------------------------------------------------------------------------
(* The theorems.                                                            *)

\* The program starts in a sound view.
LEMMA InitSound == Init => ShellIInv
<1>. SUFFICES ASSUME Init PROVE ShellIInv
  OBVIOUS
<1>1. u = Blank /\ Here = None /\ vim \in BOOLEAN /\ focus = "side"
  BY DEF Init, Here
<1>2. Blank \in Views /\ Blank.shown = Status(Blank)
  <2>1. NoTarget \in (Accounts \union {None}) \X ChannelOrNone /\ None \in ChannelOrNone
        /\ None \in WidgetOrNone
    BY DEF NoTarget, ChannelOrNone, WidgetOrNone
  <2>. QED BY <2>1, <1>1 DEF Blank, Views, Statuses, Status, editorStatusActive
<1>3. Sound(u, focus, Here)
  BY <1>1, <1>2 DEF Sound, Placed, EditorPlaced, RequestPlaced, Blank
<1>4. Answers(u, acct, Here)
  BY <1>1 DEF Answers, Blank
<1>5. u.staged = 0 /\ DrawnHonest /\ FilesOwned /\ Unstaged
  <2>1. u.staged = 0
    BY <1>1 DEF Blank
  <2>. QED BY <2>1 DEF Init, DrawnHonest, FilesOwned, Unstaged
<1>6. ShellTypes
  BY DEF Init, ShellTypes, ChannelOrNone, Widgets
<1>. QED BY <1>3, <1>4, <1>5, <1>6 DEF ShellIInv

\* Every step keeps the invariant.
LEMMA NextKeeps == ShellIInv /\ [Next]_vars => ShellIInv'
<1>. SUFFICES ASSUME ShellIInv, [Next]_vars PROVE ShellIInv'
  OBVIOUS
<1>1. CASE Keys
  BY <1>1, KeyKept, MoveKept, LayerKept, TypeKept, BackspaceKept, SendKept, CommandKept, BeginKept,
     InsertKept, SelectKept, PasteKept DEF Keys
<1>2. CASE Closures
  BY <1>2, ClosureKept, PermissionKept, RemovedKept, ElsewhereKept, AccountKept DEF Closures
<1>3. CASE UNCHANGED vars
  <2>1. ShellTypes' /\ DrawnHonest' /\ FilesOwned' /\ Unstaged'
    BY <1>3 DEF vars, ShellIInv, ShellTypes, DrawnHonest, FilesOwned, Unstaged, ChannelOrNone
  <2>. QED BY <1>3, <2>1, ViewKept DEF vars, ShellIInv
<1>. QED BY <1>1, <1>2, <1>3, RenderKept, PasteKept, CloseKept DEF Next

\* The invariant that everything below follows from: in every state the view
\* is well typed and sound for the focused widget and the selected channel,
\* and every temporary file has its owner.
THEOREM ShellInvariance == Spec => []ShellIInv
<1>. QED BY InitSound, NextKeeps, PTL DEF Spec

\* Keys go where the screen says they go (shell.go:936-991, app.go:536).
THEOREM ShellFocus == Spec => []FocusHonest
<1>1. ShellIInv => FocusHonest
  BY DEF ShellIInv, DrawnHonest, Sound, Placed, EditorPlaced, RequestPlaced, FocusHonest,
         InputIffComposer, PendingHasRequest
<1>. QED BY <1>1, ShellInvariance, PTL

\* What the composer claims is so, and its files have one owner
\* (main.go:576, 691, 1794; shell.go:755, 2177).
THEOREM ShellComposer == Spec => []ComposerHonest
<1>1. ShellIInv => ComposerHonest
  BY DEF ShellIInv, Sound, Answers, ComposerHonest, StatusTruthful, TargetOnScreen
<1>. QED BY <1>1, ShellInvariance, PTL

=============================================================================
