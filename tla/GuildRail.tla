----------------------------- MODULE GuildRail -----------------------------
(***************************************************************************)
(* The guild rail of the sidebar: the folders of the account or the user's *)
(* own groups (ui/guild_groups.go), the rows they become (store/ordering.go*)
(* OrderGuilds, ui/main.go rebuildGuilds), and the list that shows them    *)
(* and lets a guild be dragged (widget/itemlist.go).                       *)
(*                                                                         *)
(* The gateway's closures change the store, some of them without a refresh *)
(* of the rail, and a refresh, the keys of the list and a switch of the    *)
(* guild may all come in the middle of a drag.  The account has direct     *)
(* messages, and the first refresh has come.                               *)
(***************************************************************************)
EXTENDS Integers, SequencesExt, FiniteSetsExt

CONSTANTS
  Catalogue,  \* the guilds, as a sequence: the store's base order
  Folders,    \* what the server may send as the account's folders
  DM,         \* the entry of the direct messages
  Leavers,    \* bound: the guilds the account leaves and joins again
  MaxEdits,   \* bound: the drops, groups and pins, and the changes of the server
  None

VARIABLES
  joined,    \* the guilds in the store
  folders,   \* the folders the server sent last
  layout,    \* the user's own groups, or None while the folders hold
  pinned,    \* pinned guilds, in the order they were pinned
  collapsed, \* the ids of collapsed folders
  rows,      \* the rows of the rail
  sel,       \* the index of the highlighted row
  active,    \* the active guild, or None
  drag,      \* the list drag the pointer holds, or None
  edits      \* how many of these there were
vars == <<joined, folders, layout, pinned, collapsed, rows, sel, active, drag, edits>>

Bare(g) == [id |-> 0, guilds |-> <<g>>]
\* bareFolder: Discord's encoding of a guild that is in no folder.
IsBare(f) == f.id = 0 /\ Len(f.guilds) = 1
Members(groups) == UNION {ToSet(groups[i].guilds) : i \in DOMAIN groups}

(* ------------------------------- the groups ---------------------------- *)

Filled(groups) == SelectSeq(groups, LAMBDA f : f.guilds # <<>>)

\* cleanGroups: unknown and repeated guilds go, empty folders go, and guilds of
\* no folder follow in base order.
cleanGroups(groups, known) ==
  LET keep(i) == SelectSeq(groups[i].guilds,
                           LAMBDA g : g \in known \ Members(SubSeq(groups, 1, i - 1)))
      kept == [i \in DOMAIN groups |-> [groups[i] EXCEPT !.guilds = keep(i)]]
      rest == SelectSeq(Catalogue, LAMBDA g : g \in known \ Members(groups))
  IN Filled(kept) \o [i \in DOMAIN rest |-> Bare(rest[i])]

currentGroups == cleanGroups(IF layout = None THEN folders ELSE layout, joined)

pullGuild(groups, g) ==
  Filled([i \in DOMAIN groups |-> [groups[i] EXCEPT !.guilds = SelectSeq(@, LAMBDA x : x # g)]])

groupIndex(groups, g) == SelectInSeq(groups, LAMBDA f : g \in ToSet(f.guilds))
folderIndex(groups, id) == SelectInSeq(groups, LAMBDA f : f.id = id /\ ~IsBare(f))

\* Mutant: a guild dragged down lands before the row it was dropped on.
MoveBefore(groups, g, target, after) ==
  LET out == pullGuild(groups, g)
      f == folderIndex(out, target.fid)
      i == groupIndex(out, target.guild)
      at == SelectInSeq(out[i].guilds, LAMBDA x : x = target.guild)
  IN CASE target.guild = g -> groups
       [] target.folder /\ f > 0 -> [out EXCEPT ![f].guilds = Append(@, g)]
       [] target.guild = DM -> <<Bare(g)>> \o out
       [] ~target.folder /\ target.guild # DM /\ i > 0 ->
            IF IsBare(out[i]) THEN InsertAt(out, i, Bare(g))
            ELSE [out EXCEPT ![i].guilds = InsertAt(@, at, g)]
       [] OTHER -> Append(out, Bare(g))

\* moveGuild: onto a folder's header to its end, onto a guild to that guild's
\* side, onto the direct messages to the top.
moveGuild(groups, g, target, after) ==
  LET out == pullGuild(groups, g)
      f == folderIndex(out, target.fid)
      i == groupIndex(out, target.guild)
      side == IF after THEN 1 ELSE 0
      at == SelectInSeq(out[i].guilds, LAMBDA x : x = target.guild) + side
  IN CASE target.guild = g -> groups
       [] target.folder /\ f > 0 -> [out EXCEPT ![f].guilds = Append(@, g)]
       [] target.guild = DM -> <<Bare(g)>> \o out
       [] ~target.folder /\ target.guild # DM /\ i > 0 ->
            IF IsBare(out[i]) THEN InsertAt(out, i + side, Bare(g))
            ELSE [out EXCEPT ![i].guilds = InsertAt(@, at, g)]
       [] OTHER -> Append(out, Bare(g))

nextGroupID(groups) == Min({0} \cup {groups[i].id : i \in DOMAIN groups}) - 1

makeGroup(groups, g) ==
  LET new == [id |-> nextGroupID(groups), guilds |-> <<g>>]
      i == groupIndex(groups, g)
      left == [groups EXCEPT ![i].guilds = SelectSeq(@, LAMBDA x : x # g)]
  IN IF i = 0 THEN Append(groups, new)
     ELSE IF left[i].guilds = <<>> THEN [groups EXCEPT ![i] = new]
     ELSE InsertAt(left, i + 1, new)

(* -------------------------------- the rows ----------------------------- *)

Row(g, fid, pin) ==
  [folder |-> FALSE, guild |-> g, fid |-> fid, pinned |-> pin, collapsed |-> FALSE]
Header(f, c) == [folder |-> TRUE, guild |-> None, fid |-> f.id, pinned |-> FALSE, collapsed |-> c]

\* OrderGuilds after cleanGroups, and moveDMFirst: the direct messages, the pinned
\* guilds, then the folders with what is not pinned.
OrderGuilds(groups, known, pins, shut) ==
  LET listed(f) == LET s == SelectSeq(f.guilds, LAMBDA g : g \notin ToSet(pins))
                   IN [i \in DOMAIN s |-> Row(s[i], f.id, FALSE)]
      block(f) == IF IsBare(f) THEN listed(f)
                  ELSE <<Header(f, f.id \in shut)>> \o (IF f.id \in shut THEN <<>> ELSE listed(f))
      top == SelectSeq(pins, LAMBDA g : g \in known)
  IN <<Row(DM, 0, FALSE)>> \o [i \in DOMAIN top |-> Row(top[i], 0, TRUE)]
     \o FlattenSeq([i \in DOMAIN groups |-> block(groups[i])])

guildRowIndex(rs, g) == SelectInSeq(rs, LAMBDA r : ~r.folder /\ r.guild = g)

\* invalidateDrag: the pointer still holds the operation, which now ignores it.
invalidateDrag(d) == IF d = None THEN None ELSE [live |-> FALSE]

\* The selection that SetItems leaves: invalidateDrag takes back what a drag moved.
Restored == IF drag # None /\ drag.live THEN drag.sel ELSE sel

\* The highlight follows its guild, or else goes to the active one; a header has
\* no guild to follow.
Highlight(rs, s, act) ==
  LET same == guildRowIndex(rs, rows[sel].guild)
      home == guildRowIndex(rs, act)
  IN IF same > 0 THEN same ELSE IF home > 0 THEN home ELSE Max({1, Min({s, Len(rs)})})

\* rebuildGuilds, with the view as it is after the step.
rebuildGuilds(groups, pins, shut) ==
  LET rs == OrderGuilds(groups, joined, pins, shut)
  IN rows' = rs /\ sel' = Highlight(rs, Restored, active) /\ drag' = invalidateDrag(drag)

(* --------------------------------- Init -------------------------------- *)

Init ==
  /\ joined = ToSet(Catalogue) /\ folders \in Folders /\ layout = None
  /\ pinned = <<>> /\ collapsed = {} /\ active = DM /\ drag = None /\ edits = 0
  /\ rows = OrderGuilds(cleanGroups(folders, joined), joined, <<>>, {}) /\ sel = 1

(* ------------------------------ the gateway ---------------------------- *)

\* The folders change, and the rail is not told (gateway_handlers.go); after a READY a
\* refresh follows.
FoldersChange(f) ==
  /\ edits < MaxEdits /\ edits' = edits + 1
  /\ f # folders /\ folders' = f
  /\ UNCHANGED <<joined, layout, pinned, collapsed, rows, sel, active, drag>>

\* Refresh, of the guilds "known" and the active guild "act": where none is active it
\* selects and opens the first.
Refreshed(known, act) ==
  LET rs == OrderGuilds(cleanGroups(IF layout = None THEN folders ELSE layout, known),
                        known, pinned, collapsed)
      first == SelectInSeq(rs, LAMBDA r : ~r.folder)
  IN /\ rows' = rs /\ drag' = invalidateDrag(drag)
     /\ IF act = None /\ first > 0 THEN sel' = first /\ active' = rs[first].guild
        ELSE sel' = Highlight(rs, Restored, act) /\ active' = act

\* Refresh, and RefreshGuildBadges.
Refresh ==
  Refreshed(joined, active) /\ UNCHANGED <<joined, folders, layout, pinned, collapsed, edits>>

\* handleGuildCreate refreshes in its closure; the pull of the directory does not when only
\* half of it could be had.
GuildJoined(g) ==
  /\ edits < MaxEdits /\ edits' = edits + 1
  /\ g \notin joined /\ joined' = joined \cup {g}
  /\ Refreshed(joined \cup {g}, active) \/ UNCHANGED <<rows, sel, active, drag>>
  /\ UNCHANGED <<folders, layout, pinned, collapsed>>

\* handleGuildDelete: a guild that goes is not the active one any more, and the rail is
\* refreshed in the same closure.
GuildLeft(g) ==
  /\ edits < MaxEdits /\ edits' = edits + 1
  /\ g \in joined /\ joined' = joined \ {g}
  /\ Refreshed(joined \ {g}, IF active = g THEN None ELSE active)
  /\ UNCHANGED <<folders, layout, pinned, collapsed>>

\* A switcher, or a notification that was clicked, opens a channel of another guild; the
\* notification moves the highlight too.
SwitchTo(g) ==
  /\ g \in joined \cup {DM} /\ g # active /\ active' = g
  /\ \/ UNCHANGED sel
     \/ guildRowIndex(rows, g) > 0 /\ sel' = guildRowIndex(rows, g)
  /\ UNCHANGED <<joined, folders, layout, pinned, collapsed, rows, drag, edits>>

(* ------------------------------- the list ------------------------------ *)

\* The arrow and vim keys, which reach the list during a drag too, and the wheel.
Select(i) ==
  /\ i \in DOMAIN rows /\ i # sel /\ sel' = i
  /\ UNCHANGED <<joined, folders, layout, pinned, collapsed, rows, active, drag, edits>>

\* onGuildSelected: a header folds or unfolds, a guild becomes the active one.
Enter ==
  /\ IF rows[sel].folder
     THEN /\ collapsed' = SymDiff(collapsed, {rows[sel].fid})
          /\ rebuildGuilds(currentGroups, pinned, collapsed') /\ UNCHANGED active
     ELSE active' = rows[sel].guild /\ UNCHANGED <<collapsed, rows, sel, drag>>
  /\ UNCHANGED <<joined, folders, layout, pinned, edits>>

\* The context menu, which the pointer opens: fold a folder, pin or unpin a guild, make a
\* group of it; the guild may be gone by then.
ToggleCollapseFolder(i) ==
  /\ drag = None /\ rows[i].folder /\ collapsed' = SymDiff(collapsed, {rows[i].fid})
  /\ rebuildGuilds(currentGroups, pinned, collapsed')
  /\ UNCHANGED <<joined, folders, layout, pinned, active, edits>>

TogglePin(g) ==
  /\ edits < MaxEdits /\ edits' = edits + 1
  /\ drag = None
  /\ LET pins == IF g \in ToSet(pinned) THEN SelectSeq(pinned, LAMBDA x : x # g)
                 ELSE Append(pinned, g)
     IN pinned' = pins /\ rebuildGuilds(currentGroups, pins, collapsed)
  /\ UNCHANGED <<joined, folders, layout, collapsed, active>>

CreateGroup(g) ==
  /\ edits < MaxEdits /\ edits' = edits + 1
  /\ drag = None
  /\ LET pins == SelectSeq(pinned, LAMBDA x : x # g)
         groups == makeGroup(currentGroups, g)
         rs == OrderGuilds(cleanGroups(groups, joined), joined, pins, collapsed)
         i == guildRowIndex(rs, g)
     IN /\ layout' = groups /\ pinned' = pins /\ rows' = rs
        /\ sel' = IF i > 0 THEN i ELSE Highlight(rs, sel, active)
  /\ UNCHANGED <<joined, folders, collapsed, active, drag>>

(* -------------------------------- the drag ----------------------------- *)

\* canDragGuild, DragStart.  Bound: a drag begins while it can be dropped.
DragStart(i) ==
  /\ edits < MaxEdits
  /\ drag = None /\ i \in DOMAIN rows /\ ~rows[i].folder /\ rows[i].guild # DM
  /\ drag' = [from |-> i, to |-> i, visual |-> i, sel |-> sel, moved |-> FALSE, live |-> TRUE,
              rows |-> rows]
  /\ UNCHANGED <<joined, folders, layout, pinned, collapsed, rows, sel, active, edits>>

\* dragGuild: where the list shows the guild while it is over row "to".
dragGuild(from, to) ==
  LET inside == {k \in to..Len(rows) :
                   \A j \in (to + 1)..k : ~rows[j].folder /\ rows[j].fid = rows[to].fid}
      end == Max(inside) + 1
  IN IF rows[to].guild = DM THEN 2
     ELSE IF ~rows[to].folder THEN to
     ELSE IF from < end THEN end - 1 ELSE end

\* The pointer is over row "to"; it may not have left its cell.
DragMove(to) ==
  /\ drag # None /\ drag.live /\ to \in DOMAIN rows
  /\ LET v == Min({dragGuild(drag.from, to), Len(rows)})
     IN /\ \E moved \in {TRUE} \cup (IF to = drag.from THEN {drag.moved} ELSE {}) :
             drag' = [drag EXCEPT !.moved = moved, !.to = to, !.visual = v]
        /\ sel' = v
  /\ UNCHANGED <<joined, folders, layout, pinned, collapsed, rows, active, edits>>

\* dropGuild: the source leaves its pin, a collapsed target opens.
Drop(source, target) ==
  LET groups == moveGuild(currentGroups, source.guild, target, drag.to > drag.from)
      pins == IF source.pinned THEN SelectSeq(pinned, LAMBDA x : x # source.guild) ELSE pinned
      shut == IF target.folder /\ target.collapsed THEN SymDiff(collapsed, {target.fid})
              ELSE collapsed
      rs == OrderGuilds(cleanGroups(groups, joined), joined, pins, shut)
      i == guildRowIndex(rs, source.guild)
  IN /\ edits < MaxEdits /\ edits' = edits + 1
     /\ layout' = groups /\ pinned' = pins /\ collapsed' = shut /\ rows' = rs
     /\ sel' = IF i > 0 THEN i ELSE Highlight(rs, sel, active)
     /\ UNCHANGED active

\* The release drops or, when nothing moved, clicks; Escape cancels. A drag
\* whose rows are gone does nothing.
DragEnd(commit) ==
  /\ drag # None /\ drag' = None
  /\ \/ ~drag.live /\ UNCHANGED <<layout, pinned, collapsed, rows, sel, active, edits>>
     \/ drag.live /\ ~commit /\ sel' = drag.sel
        /\ UNCHANGED <<layout, pinned, collapsed, rows, active, edits>>
     \/ drag.live /\ commit /\ ~drag.moved
        /\ sel' = drag.from /\ active' = rows[drag.from].guild
        /\ UNCHANGED <<layout, pinned, collapsed, rows, edits>>
     \/ drag.live /\ commit /\ drag.moved /\ Drop(rows[drag.from], rows[drag.to])
  /\ UNCHANGED <<joined, folders>>

Next ==
  \/ \E g \in Leavers : GuildJoined(g) \/ GuildLeft(g)
  \/ \E g \in ToSet(Catalogue) : TogglePin(g) \/ CreateGroup(g)
  \/ \E g \in ToSet(Catalogue) \cup {DM} : SwitchTo(g)
  \/ \E f \in Folders : FoldersChange(f)
  \/ Refresh \/ Enter
  \/ \E i \in DOMAIN rows : Select(i) \/ ToggleCollapseFolder(i) \/ DragStart(i) \/ DragMove(i)
  \/ \E commit \in BOOLEAN : DragEnd(commit)

Spec == Init /\ [][Next]_vars

(* ------------------------------ properties ----------------------------- *)

\* Whatever the user moves or groups, and whatever guild comes or goes between,
\* a saved layout has each guild once, no empty group and no two groups of one id.
NoGuildLost ==
  layout # None =>
    /\ \A i \in DOMAIN layout : layout[i].guilds # <<>> /\ IsInjective(layout[i].guilds)
    /\ \A i, j \in DOMAIN layout : i # j =>
         /\ ToSet(layout[i].guilds) \cap ToSet(layout[j].guilds) = {}
         /\ layout[i].id = layout[j].id => IsBare(layout[i]) /\ IsBare(layout[j])

\* The rail shows a guild at most once, and after a refresh leaves out only those
\* in collapsed folders.
RailComplete ==
  LET shown == {rows[i].guild : i \in {k \in DOMAIN rows : ~rows[k].folder}}
      shut == UNION {ToSet(currentGroups[i].guilds) :
                       i \in {k \in DOMAIN currentGroups : currentGroups[k].id \in collapsed}}
  IN /\ \A i, j \in DOMAIN rows :
          i # j /\ ~rows[i].folder /\ ~rows[j].folder => rows[i].guild # rows[j].guild
     /\ rows = OrderGuilds(currentGroups, joined, pinned, collapsed)
          => joined \ shown \subseteq shut \ ToSet(pinned)

\* A drag only ever acts on the rows it was started on, whatever keys are pressed and
\* whatever guild comes or goes meanwhile (itemlist.go:418).
DragSeesItsRows == drag # None /\ drag.live => drag.rows = rows

\* A guild dropped on the rail appears where the list previewed it, while nothing
\* is pinned, the target is not a collapsed folder, and the guild was not the
\* last of its own.
DropAsPreviewed ==
  [][/\ drag # None /\ drag' = None /\ drag.live /\ drag.moved /\ layout' # layout
     /\ rows = OrderGuilds(currentGroups, joined, pinned, collapsed)
     /\ pinned = <<>> /\ ~rows[drag.to].collapsed
     /\ LET f == currentGroups[groupIndex(currentGroups, rows[drag.from].guild)]
        IN IsBare(f) \/ Len(f.guilds) > 1
     => rows'[drag.visual].guild = rows[drag.from].guild]_vars

\* A change of the rows outside a drag leaves the highlight on the guild it was on, unless
\* the active guild went or a group is made of another (main.go:716).
HighlightStays ==
  [][drag = None /\ rows' # rows /\ layout' = layout /\ active' = active /\ ~rows[sel].folder
     /\ guildRowIndex(rows', rows[sel].guild) > 0
     => rows'[sel'].guild = rows[sel].guild]_vars
=============================================================================
