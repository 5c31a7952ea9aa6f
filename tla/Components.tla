------------------------------ MODULE Components ------------------------------
(***************************************************************************)
(* The interactive components of bots' messages: ui/componentview.go,      *)
(* ui/chatview_components.go, the parts of ui/chatview.go and              *)
(* ui/chatview_focus.go that reach them, SubmitComponent of                *)
(* app/app_actions.go and convertComponentTree of app/convert.go.          *)
(*                                                                         *)
(* A message draws its buttons and selects; an open select draws its       *)
(* options.  A click or a number acts on what the last frame drew, and     *)
(* Enter on the picker that was used last, which outlives the frame.       *)
(* What they activate lies in a slot until the shell takes it, at a tick   *)
(* or an event that no widget consumed, and submits it.  Meanwhile the bot *)
(* edits the message or deletes it, other messages arrive, and the posts   *)
(* of earlier activations come back.  The bodies that messages draw are    *)
(* memoized.                                                               *)
(***************************************************************************)
EXTENDS Integers, FiniteSets, SequencesExt

CONSTANTS
  Wire,      \* the versions of each message's components, as Discord sends them
  Shortcuts, \* how many components of a message get a number
  MaxPosts,  \* bound: interactions in flight
  None       \* no option, no picker, no body

Msgs == DOMAIN Wire  \* in their order

VARIABLES
  version,  \* of each message, 0 before it arrives and once it is gone
  last,     \* the newest message that arrived
  states,   \* what a control shows of the interaction it started last
  expanded, \* expandedComponents
  chosen,   \* selectedComponents, None where nothing was chosen
  multis,   \* multiPickers
  active,   \* activePicker
  focus,    \* the focused message, and whether the user chose it; the chat has the keyboard
  bodies,   \* the memoized bodies
  frame,    \* the bodies of the last frame, until something changes
  dirty,    \* posted changes or an event since the last frame
  slot,     \* componentAction: what was activated, until the shell takes it
  flying    \* how many interactions of each control are under way

vars == <<version, last, states, expanded, chosen, multis, active, focus, bodies, frame, dirty,
          slot, flying>>

(* ------------------------------ components ----------------------------- *)

Control(kind, c, options, defaults) ==
  [kind |-> kind, id |-> c.id, disabled |-> c.disabled, many |-> c.max > 1,
   options |-> options, defaults |-> defaults]

\* A component as the store keeps it.  Selects of users, roles and channels
\* have no options of their own.
RECURSIVE convertComponentNode(_)
convertComponentNode(c) ==
  LET items == [i \in DOMAIN c.items |-> convertComponentNode(c.items[i])]
  IN CASE c.type \in {"row", "container"} -> [kind |-> c.type, children |-> items]
       [] c.type = "section" -> [kind |-> "section", children |-> items,
                                 accessory |-> convertComponentNode(c.accessory)]
       [] c.type = "button" -> Control(IF c.url THEN "link" ELSE "button", c, <<>>, {})
       [] c.type = "string select" -> Control("select", c, c.options, c.defaults)
       [] c.type = "entity select" -> Control("select", c, <<>>, {})
       [] OTHER -> [kind |-> "text"]

convertComponentTree(rows) == [i \in DOMAIN rows |-> convertComponentNode(rows[i])]

\* The rows of controls a component draws, from the top: an accessory that can
\* be used follows the texts of its section.
RECURSIVE Rows(_)
Rows(n) ==
  CASE n.kind = "row" -> <<n.children>>
    [] n.kind = "container" -> FlattenSeq([i \in DOMAIN n.children |-> Rows(n.children[i])])
    [] n.kind = "section" -> FlattenSeq([i \in DOMAIN n.children |-> Rows(n.children[i])])
                            \o Rows(n.accessory)
    [] n.kind \in {"button", "link", "select"} -> <<<<n>>>>
    [] OTHER -> <<>>

RowsOf(tree) == FlattenSeq([i \in DOMAIN tree |-> Rows(tree[i])])

\* The rows of each version, and its controls.
AllRows == [m \in Msgs |-> [v \in DOMAIN Wire[m] |-> RowsOf(convertComponentTree(Wire[m][v]))]]
Versions == [m \in Msgs |-> [v \in DOMAIN Wire[m] |-> ToSet(FlattenSeq(AllRows[m][v]))]]
Controls(m, v) == IF v = 0 THEN {} ELSE Versions[m][v]

Ids == {c.id : c \in UNION {UNION Range(Versions[m]) : m \in Msgs}}

\* What a click or a number on a component does.  It keeps the message as it was drawn.
Action(m, v, c, opt, multi, number) ==
  [msg |-> m, version |-> v, control |-> c, opt |-> opt, multi |-> multi, number |-> number]

controlKey(a) == <<a.msg, a.control.id>>
KeyOf(m, c) == <<m, c.id>>

expandable(c) == c.kind = "select" /\ c.options # <<>>

\* componentOptionSelected: the choice of the user, or what the bot preset.
Selected(m, c) == IF chosen[KeyOf(m, c)] # None THEN chosen[KeyOf(m, c)] ELSE c.defaults

(* ------------------------------- rendering ----------------------------- *)

\* nextShortcut: numbers are dealt while there are any, and only to the focused message.
Numbered(lines, show) ==
  LET takes(i) == lines[i].hit
      rank(i) == Cardinality({j \in 1..i : takes(j)})
  IN [i \in DOMAIN lines |->
        IF show /\ takes(i) /\ rank(i) <= Shortcuts
        THEN [lines[i] EXCEPT !.act.number = rank(i)] ELSE lines[i]]

\* A row's controls, then the options of those that are open.  A disabled
\* control cannot be hit, but the options of an open one still can.
RowLines(m, v, row) ==
  LET control(c) == [act |-> Action(m, v, c, None, c.many, 0),
                     hit |-> ~c.disabled, marked |-> FALSE, state |-> states[KeyOf(m, c)]]
      option(c, o) == [act |-> Action(m, v, c, o, c.many \/ KeyOf(m, c) \in multis, 0),
                       hit |-> TRUE, marked |-> o \in Selected(m, c), state |-> "idle"]
      open == SelectSeq(row, LAMBDA c : expandable(c) /\ KeyOf(m, c) \in expanded)
  IN [i \in DOMAIN row |-> control(row[i])]
     \o FlattenSeq([i \in DOMAIN open |->
                      [j \in DOMAIN open[i].options |-> option(open[i], open[i].options[j])]])

\* renderComponentTree, componentShortcutsVisible.
renderComponentTree(m, f) ==
  LET rows == AllRows[m][version[m]]
      lines == FlattenSeq([i \in DOMAIN rows |-> RowLines(m, version[m], rows[i])])
  IN Numbered(lines, f.msg = m)

Shown == {m \in Msgs : version[m] # 0}
Newest == IF Shown = {} THEN 0 ELSE CHOOSE m \in Shown : \A n \in Shown : n <= m

Drop(ms) == [m \in Msgs |-> IF m \in ms THEN None ELSE bodies[m]]

\* Until the user chooses a message, the newest has the focus; the two whose
\* numbers change are drawn again.  A focused message that is gone gives the
\* focus to the newest, after the bodies were drawn (buildFocusIndex).
Draw ==
  /\ dirty /\ dirty' = FALSE
  /\ \E first \in {IF Shown # {} /\ ~(focus.msg # 0 /\ (focus.explicit \/ focus.msg = Newest))
                   THEN [focus EXCEPT !.msg = Newest] ELSE focus} :
     \E kept \in {IF first = focus THEN bodies ELSE Drop({focus.msg, first.msg})} :
       /\ bodies' = [m \in Msgs |->
                       IF m \in Shown /\ kept[m] = None THEN renderComponentTree(m, first)
                       ELSE kept[m]]
       /\ frame' = [m \in Shown |-> bodies'[m]]
       /\ focus' = IF first.msg \in Shown THEN first ELSE [first EXCEPT !.msg = Newest]
  /\ UNCHANGED <<version, last, states, expanded, chosen, multis, active, slot, flying>>

(* ------------------------- changes posted to the loop ------------------ *)

\* The next event comes after another frame: this one is of no more use.
Changed == dirty' = TRUE /\ frame' = [m \in {} |-> None]
Posted == Changed /\ UNCHANGED <<expanded, chosen, multis, active, focus, slot>>

Idle(m) == [k \in DOMAIN states |-> IF k[1] = m THEN "idle" ELSE states[k]]

\* A message arrives, its components are edited, or a page of history brings them anew.
Deliver(m) ==
  /\ Posted
  /\ \/ m = last + 1 /\ last' = m /\ version' = [version EXCEPT ![m] = 1]
     \/ /\ version[m] # 0 /\ UNCHANGED last
        /\ \E v \in {version[m], version[m] + 1} \cap DOMAIN Wire[m] :
             version' = [version EXCEPT ![m] = v]
  /\ states' = Idle(m) /\ bodies' = Drop({m})
  /\ UNCHANGED flying

Delete(m) ==
  /\ Posted
  /\ version[m] # 0 /\ version' = [version EXCEPT ![m] = 0] /\ states' = Idle(m)
  /\ UNCHANGED <<last, bodies, flying>>

\* SetComponentState: the control as the message has it now, if it has it still.
SetComponentState(k, state) ==
  IF \E c \in Controls(k[1], version[k[1]]) : c.id = k[2]
  THEN states' = [states EXCEPT ![k] = state] /\ bodies' = Drop({k[1]})
  ELSE UNCHANGED <<states, bodies>>

\* The answer to an interaction.
Answered(k, ok) ==
  /\ Posted /\ flying[k] > 0 /\ flying' = [flying EXCEPT ![k] = @ - 1]
  /\ SetComponentState(k, IF ok THEN "success" ELSE "error")
  /\ UNCHANGED <<version, last>>

(* ------------------------------ submission ----------------------------- *)

Event == ~dirty /\ Changed /\ UNCHANGED <<version, last>>

\* dispatchComponentAction takes buttons and selects; hasSubmittedComponent
\* looks for the control in the message the action was drawn from.
Submittable(a) ==
  /\ a.control.kind \in {"button", "select"}
  /\ \E c \in Controls(a.msg, a.version) :
       c.id = a.control.id /\ c.kind = a.control.kind /\ ~c.disabled

\* SubmitComponent: the control is marked, and the interaction on its way.
SubmitComponent(a) ==
  /\ FoldFunction(+, 0, flying) < MaxPosts /\ flying' = [flying EXCEPT ![controlKey(a)] = @ + 1]
  /\ SetComponentState(controlKey(a), "pending")

\* The shell takes what was activated.
TakeComponentAction ==
  /\ Event /\ slot # None /\ slot' = None
  /\ IF Submittable(slot) THEN SubmitComponent(slot) ELSE UNCHANGED <<states, bodies, flying>>
  /\ UNCHANGED <<expanded, chosen, multis, active, focus>>

(* -------------------------------- events ------------------------------- *)

Input == Event /\ UNCHANGED <<states, flying>>

\* componentSelectedValues: also what was chosen and is no option any more.
Values(a, made) ==
  IF made[controlKey(a)] # None THEN made[controlKey(a)] ELSE a.control.defaults

\* What is activated takes the place of what the shell has not taken yet.  "opt" is the
\* option picked of a single select, else None.
Activated(a, values) ==
  slot' = [msg |-> a.msg, version |-> a.version, control |-> a.control,
           opt |-> IF a.multi THEN None ELSE a.opt, values |-> values]

\* The picker closes, and leaves the mode in which a single select takes several.
submitComponentPicker(a, made) ==
  /\ Activated(a, Values(a, made))
  /\ multis' = multis \ {controlKey(a)} /\ expanded' = expanded \ {controlKey(a)}

\* setComponentSelection: an option replaces the choice, or is toggled in it.
Choice(a) ==
  IF ~a.multi THEN {a.opt}
  ELSE IF a.opt \in Values(a, chosen) THEN Values(a, chosen) \ {a.opt}
  ELSE Values(a, chosen) \cup {a.opt}

Choose(a) ==
  /\ chosen' = [chosen EXCEPT ![controlKey(a)] = Choice(a)] /\ active' = a
  /\ IF a.multi THEN UNCHANGED <<multis, expanded, slot>> ELSE submitComponentPicker(a, chosen')

\* Shift on an option of a single select: it takes several from then on.
ChooseSeveral(a) ==
  /\ chosen' = [chosen EXCEPT ![controlKey(a)] = Choice(a)] /\ active' = a
  /\ multis' = multis \cup {controlKey(a)} /\ UNCHANGED <<expanded, slot>>

\* The header of a picker opens it, and once open submits it.
TogglePicker(a, held) ==
  /\ UNCHANGED chosen
  /\ IF controlKey(a) \in expanded THEN submitComponentPicker(a, chosen) /\ active' = held
     ELSE expanded' = expanded \cup {controlKey(a)} /\ active' = a /\ UNCHANGED <<multis, slot>>

Press(a, held) == Activated(a, {}) /\ active' = held /\ UNCHANGED <<expanded, chosen, multis>>

\* What an activation changes is drawn anew; "held" is the picker used before.
setComponentAction(a, held) ==
  /\ bodies' = Drop(Msgs)
  /\ CASE a.opt # None -> Choose(a)
       [] a.opt = None /\ expandable(a.control) -> TogglePicker(a, held)
       [] OTHER -> Press(a, held)

Hits(m) == {frame[m][i].act : i \in {i \in DOMAIN frame[m] : frame[m][i].hit}}

activateShortcut(number) ==
  /\ Input /\ focus.msg \in DOMAIN frame
  /\ \E a \in Hits(focus.msg) : a.number = number /\ setComponentAction(a, active)
  /\ UNCHANGED focus

\* A click moves the focus before it acts, and another message drops the picker used last.
Held(m) == IF m # focus.msg THEN None ELSE active

activateAt(m, a) ==
  /\ Input /\ a \in Hits(m)
  /\ focus' = [focus EXCEPT !.msg = m, !.explicit = TRUE]
  /\ setComponentAction(a, Held(m))

\* Discord may allow several values where the client knows of one: the user says so with Shift.
ShiftClick(m, a) ==
  /\ Input /\ a \in Hits(m) /\ a.opt # None /\ ~a.multi
  /\ focus' = [focus EXCEPT !.msg = m, !.explicit = TRUE]
  /\ bodies' = Drop(Msgs) /\ ChooseSeveral([a EXCEPT !.multi = TRUE])

\* submitActiveComponentPicker: Enter or Space, while the picker is open.
Enter ==
  /\ Input /\ active # None /\ controlKey(active) \in expanded
  /\ submitComponentPicker(active, chosen) /\ bodies' = Drop(Msgs)
  /\ UNCHANGED <<chosen, active, focus>>

\* setFocusStop, focusAtVisible.
FocusMessage(m) ==
  /\ Input /\ UNCHANGED slot /\ m \in DOMAIN frame /\ (m # focus.msg \/ ~focus.explicit)
  /\ focus' = [focus EXCEPT !.msg = m, !.explicit = TRUE]
  /\ active' = Held(m)
  /\ bodies' = IF m # focus.msg THEN Drop({m, focus.msg}) ELSE bodies
  /\ UNCHANGED <<expanded, chosen, multis>>

\* Esc closes every picker, and keeps what was chosen in them.
Esc ==
  /\ Input /\ UNCHANGED slot
  /\ active' = None /\ expanded' = {} /\ bodies' = Drop(Msgs)
  /\ focus' = [focus EXCEPT !.explicit = FALSE]
  /\ UNCHANGED <<chosen, multis>>

(* ---------------------------- specification ---------------------------- *)

Keys == Msgs \X Ids

Init ==
  /\ version = [m \in Msgs |-> IF m = 1 THEN 1 ELSE 0] /\ last = 1
  /\ states = [k \in Keys |-> "idle"] /\ chosen = [k \in Keys |-> None]
  /\ expanded = {} /\ multis = {} /\ active = None
  /\ focus = [msg |-> 0, explicit |-> FALSE]
  /\ bodies = [m \in Msgs |-> None] /\ frame = [m \in {} |-> None]
  /\ dirty = TRUE /\ flying = [k \in Keys |-> 0] /\ slot = None

Next ==
  \/ Draw
  \/ \E m \in Msgs : Deliver(m) \/ Delete(m) \/ FocusMessage(m)
  \/ \E k \in Keys, ok \in BOOLEAN : Answered(k, ok)
  \/ \E n \in 1..Shortcuts : activateShortcut(n)
  \/ \E m \in DOMAIN frame : \E a \in Hits(m) : activateAt(m, a) \/ ShiftClick(m, a)
  \/ Enter \/ Esc \/ TakeComponentAction

Spec == Init /\ [][Next]_vars

(* ------------------------------ properties ----------------------------- *)

\* A control that shows a spinner waits for an answer: whatever was edited, deleted or
\* activated twice meanwhile, none stays pending once its interactions are through
\* (app_actions.go:143).
PendingWaits == \A k \in Keys : states[k] = "pending" => flying[k] > 0

Bare(lines) == [i \in DOMAIN lines |-> [lines[i] EXCEPT !.act.number = 0]]

\* A memoized body is never out of date: the frame shows the state, the options and the
\* choices there are, but for the numbers (chatview_transcript.go:375).
FrameTruthful ==
  ~dirty => /\ DOMAIN frame = Shown
            /\ \A m \in Shown : Bare(frame[m]) = Bare(renderComponentTree(m, focus))

\* No two components of a message have the same number (componentview.go:117).
NumbersDistinct ==
  \A m \in DOMAIN frame : \A a, b \in Hits(m) : a # b /\ a.number # 0 => a.number # b.number

\* The options that the last frame marked.
Marked(a) ==
  {frame[a.msg][i].act.opt : i \in {i \in DOMAIN frame[a.msg] :
     frame[a.msg][i].marked /\ frame[a.msg][i].act.control.id = a.control.id}}

Current(a) == a.msg \in DOMAIN frame /\ a.version = version[a.msg]

\* A picker submits the options that the user saw marked, or the one picked of a single
\* select, unless the bot edited the message since the picker was used (chatview_components.go:203).
SubmitsAsDrawn ==
  [][ slot' # None /\ Current(slot') /\ expandable(slot'.control)
      => IF slot'.opt # None THEN slot'.values = {slot'.opt}
         ELSE slot'.values \cap ToSet(slot'.control.options) = Marked(slot') ]_slot

\* An option is toggled in what was marked, the bot's presets included
\* (chatview_components.go:150).
TogglesWhatIsDrawn ==
  [][ chosen' # chosen /\ active'.multi
      => LET act == active'
             others == Marked(act) \ {act.opt}
         IN chosen'[controlKey(act)] \cap ToSet(act.control.options)
              = IF act.opt \in Marked(act) THEN others ELSE others \cup {act.opt} ]_chosen

\* Nothing is submitted for a control that the last frame showed disabled, not even by the
\* options of a picker that an edit disabled while it was open (app_actions.go:173).
DisabledStaysQuiet ==
  [][ slot # None /\ Current(slot) /\ (\E k \in Keys : flying'[k] > flying[k])
      => \E i \in DOMAIN frame[slot.msg] :
           LET line == frame[slot.msg][i]
           IN line.act.opt = None /\ line.act.control.id = slot.control.id /\ line.hit ]_flying
=============================================================================
