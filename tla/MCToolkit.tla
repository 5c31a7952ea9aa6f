--------------------------------- MODULE MCToolkit ---------------------------------
(***************************************************************************)
(* The components of the terminal toolkit, each in a small instance of its *)
(* own: the screen and its differences, the focus, the pointer and a       *)
(* plugin's panel, the rail of guilds, the composer with its menu of       *)
(* completions, menus and profile cards, the notices, and the split.       *)
(***************************************************************************)
EXTENDS Split, Pointer, Popups, TLC

CONSTANTS DM, p, q, i1, i2

\* A card's details before and after they were fetched: they move the DMs down and add one.
Details == {[above |-> 1, dms |-> <<"d1">>], [above |-> 3, dms |-> <<"d1", "d2">>]}
\* The pointer: two sizes of the terminal and nine cells.
TwoSizes == {<<6, 3>>, <<5, 2>>}
Cells == {0, 1, 4} \X {0, 1, 2}
\* The screen: a terminal of 2 or 3 columns and 2 rows, one image, overlays.
Spots == {[x |-> 0, y |-> 0, w |-> 2, h |-> 2], [x |-> 1, y |-> 0, w |-> 2, h |-> 2]}
Covers == {[x |-> 1, y |-> 0, w |-> 1, h |-> 1], [x |-> 0, y |-> 1, w |-> 3, h |-> 1]}

\* The rail: the server keeps two of the three guilds in a folder, or all apart.
Folders == {<<[id |-> 1, guilds |-> <<"a", "b">>], [id |-> 0, guilds |-> <<"c">>]>>, <<>>}

\* The splits of ui/main.go, ui/forumview.go and ui/login.go at about a third of their size:
\* guilds, channels and the account picker; the chat and its members; the preview of a forum
\* post; the login.
Of(b, least, most, second, c, below, h) ==
  [basis |-> b, min |-> least, max |-> most, minSecond |-> second, collapsible |-> c, hideBelow |-> below, hides |-> h]
Members == Of(14, 1, 0, 3, "second", 6, "second")
Program == {Of(5, 3, 8, 1, "first", 0, "first"), Members, Of(6, 4, 0, 4, "none", 0, "none"), Of(7, 6, 0, 1, "none", 0, "none")}

VARIABLES
  part, \* the component that runs
  screenW, screenNext, screenPrev, screenOps, screenTerm,
  focusShown, focusAble, focusSized, focusHits, focusM, focusDirty,
  railJoined, railFolders, railLayout, railPinned, railCollapsed, railRows, railSel, railActive,
  railDrag, railEdits,
  composerText, composerCursor, composerScrollRow, composerMenu

Scr == INSTANCE Screen WITH
  Widths <- {2, 3}, H <- 2, Narrow <- {"a"}, WideGlyphs <- {"W"}, Images <- {1},
  Payloads <- {p, q}, Pids <- {i1, i2}, Spots <- Spots, Covers <- Covers, MaxOps <- 2,
  Coalesced <- FALSE, w <- screenW, next <- screenNext, prev <- screenPrev, ops <- screenOps,
  term <- screenTerm

Foc == INSTANCE Focus WITH
  Tree <- <<1, 2, 3>>, Preferred <- {2}, Paths <- <<<<1>>, <<2>>, <<2, 3>>>>, HistoryLimit <- 3,
  shown <- focusShown, able <- focusAble, sized <- focusSized, hits <- focusHits, m <- focusM,
  dirty <- focusDirty

Rail == INSTANCE GuildRail WITH
  Catalogue <- <<"a", "b", "c">>, Folders <- Folders, Leavers <- {"b"}, MaxEdits <- 2,
  joined <- railJoined, folders <- railFolders, layout <- railLayout, pinned <- railPinned,
  collapsed <- railCollapsed, rows <- railRows, sel <- railSel, active <- railActive,
  drag <- railDrag, edits <- railEdits

Com == INSTANCE Composer WITH
  Width <- 2, Height <- 2, MaxText <- 4, text <- composerText, cursor <- composerCursor,
  scrollRow <- composerScrollRow, menu <- composerMenu

screenVars == <<screenW, screenNext, screenPrev, screenOps, screenTerm>>
focusVars == <<focusShown, focusAble, focusSized, focusHits, focusM, focusDirty>>
railVars == <<railJoined, railFolders, railLayout, railPinned, railCollapsed, railRows, railSel,
                railActive, railDrag, railEdits>>
composerVars == <<composerText, composerCursor, composerScrollRow, composerMenu>>
varss == <<part, screenVars, focusVars, panelVars, railVars, composerVars, popupsVars, noticesVars, vars>>

\* The component is chosen once; the others stay as they start.
InitAll ==
  /\ part \in {"screen", "focus", "pointer", "rail", "composer", "popups", "notices", "split"}
  /\ Init /\ (part # "split" => split = Members /\ width = 13 /\ hidden = "none")
  /\ Scr!Init /\ (part # "screen" => screenW = 2)
  /\ Foc!Init /\ (part # "focus" => focusShown = {} /\ focusAble = {} /\ focusSized)
  /\ PanelInit /\ (part # "pointer" => avail = <<6, 3>>)
  /\ Rail!Init /\ railFolders # <<>>
  /\ Com!Init
  /\ PopupsInit /\ (part # "popups" => height = 16)
  /\ NoticesInit

NextAll ==
  \/ part = "screen" /\ Scr!Next /\ UNCHANGED <<part, focusVars, panelVars, railVars, composerVars, popupsVars, noticesVars, vars>>
  \/ part = "focus" /\ Foc!Next /\ UNCHANGED <<part, screenVars, panelVars, railVars, composerVars, popupsVars, noticesVars, vars>>
  \/ part = "pointer" /\ PanelNext /\ UNCHANGED <<part, screenVars, focusVars, railVars, composerVars, popupsVars, noticesVars, vars>>
  \/ part = "rail" /\ Rail!Next /\ UNCHANGED <<part, screenVars, focusVars, panelVars, composerVars, popupsVars, noticesVars, vars>>
  \/ part = "composer" /\ Com!Next /\ UNCHANGED <<part, screenVars, focusVars, panelVars, railVars, popupsVars, noticesVars, vars>>
  \/ part = "popups" /\ PopupsNext /\ UNCHANGED <<part, screenVars, focusVars, panelVars, railVars, composerVars, noticesVars, vars>>
  \/ part = "notices" /\ NoticesNext /\ UNCHANGED <<part, screenVars, focusVars, panelVars, railVars, composerVars, popupsVars, vars>>
  \/ part = "split" /\ Next /\ UNCHANGED <<part, screenVars, focusVars, panelVars, railVars, composerVars, popupsVars, noticesVars>>

SpecAll == InitAll /\ [][NextAll]_varss

(* ------------------------------ properties ----------------------------- *)

\* What the terminal shows is the frame that was drawn last: every cell has its glyph, every
\* image is where it belongs and nothing is left of one that is gone, and no image shows
\* through an overlay (tui/screen: Diff, graphics).
Pictures == part = "screen" => Scr!CellsShown /\ Scr!GraphicsShown /\ Scr!NoBleed

\* The widget that owns the focus was told so and can have it, and keeps it in a frame that
\* still shows it; the history's cursor stands at it, Back and Forward undo each other, and
\* Tab comes by every widget that can have the focus (tui/focus.go).
FocusKept ==
  /\ [](part = "focus" => Foc!OwnerTold /\ Foc!CursorAtOwner /\ Foc!BackForth /\ Foc!TabReachesAll)
  /\ Foc!FrameKeepsOwner

\* The groups and the order of the rail hold every guild of the account once whatever the
\* server's folders, the edits and the departures were, and its rows show all of them; a drag
\* only sees the rows it was started over, a guild is dropped where the ghost showed it, and
\* the highlight follows the row it is on (ui/guild_groups.go, ui/main.go).
RailKept ==
  /\ [](part = "rail" => Rail!NoGuildLost /\ Rail!RailComplete /\ Rail!DragSeesItsRows)
  /\ Rail!DropAsPreviewed /\ Rail!HighlightStays

\* The panes fill the split and no more, the divider lies between them where both are drawn
\* at the sizes they ask for, a collapsed strip comes back at the size it had and a cancelled
\* drag leaves no trace (tui/widget/split.go, tui/layout).
SplitKept ==
  /\ [](part = "split" => PanesFit /\ DividerInGap)
  /\ StripBringsBack /\ CancelRestores

\* What is written or completed is what was shown: the composer's cursor is where the next letter
\* goes, the token that the menu completes is in the text, and a pick replaces it and nothing
\* else (tui/widget/textinput.go, ui/shell.go).
CompletionKept ==
  /\ [](part = "composer" => Com!CursorShown /\ Com!TokenFollows)
  /\ Com!PickReplaces

\* Bound: no panel is dragged to more than twice the screen.
Bounded == panel # Nil => panel.w <= 7 /\ panel.h <= 4
=============================================================================
