------------------------------- MODULE Screen -------------------------------
(***************************************************************************)
(* The frame pipeline of the terminal toolkit: tui/screen (buffer.go,      *)
(* region.go, diff.go), the Kitty graphics of tui/widget/image.go and the  *)
(* repaint rules of tui/app.go.                                            *)
(*                                                                         *)
(* A frame is drawn into a fresh buffer: cells and images on layer 0, then *)
(* the overlays on layer 1.  Only its difference from the previous buffer  *)
(* is sent, so a cell or an image the difference forgets stays wrong for   *)
(* good.  The terminal is modelled by how the code uses it.                *)
(***************************************************************************)
EXTENDS Integers, FiniteSets, Sequences

CONSTANTS
  Widths, H,  \* the sizes the terminal can have: every width, one height
  Narrow,     \* glyphs one cell wide
  WideGlyphs, \* glyphs two cells wide
  Images,     \* terminal image ids
  Payloads,   \* what an image id can stand for (its size, its pixels)
  Pids,       \* placements of an image
  Spots,      \* rectangles an image is drawn at
  Covers,     \* rectangles an overlay fills
  MaxOps,     \* bound: drawing calls of a frame
  Coalesced,  \* whether two changes of size may reach the loop as one
  None        \* no buffer, no payload

VARIABLES
  w,     \* the terminal's width
  next,  \* the buffer under construction, or the one last shown
  prev,  \* the baseline of the difference, or None
  ops,   \* drawing calls of this frame; -1 between two frames
  term   \* the terminal: cells, uploaded images, placements

vars == <<w, next, prev, ops, term>>

Rect(x, y, rw, rh) == [x |-> x, y |-> y, w |-> rw, h |-> rh]
Inside(r) == (r.x .. r.x + r.w - 1) \X (r.y .. r.y + r.h - 1)
Min2(a, b) == IF a < b THEN a ELSE b
Max2(a, b) == IF a < b THEN b ELSE a

\* The common part of two rectangles; its width or height is 0 if there is none.
intersect(a, b) ==
  LET x1 == Max2(a.x, b.x)
      y1 == Max2(a.y, b.y)
  IN Rect(x1, y1, Max2(Min2(a.x + a.w, b.x + b.w) - x1, 0), Max2(Min2(a.y + a.h, b.y + b.h) - y1, 0))

Empty(r) == r.w = 0 \/ r.h = 0

(* ------------------------------- the buffer ---------------------------- *)

Blank == [glyph |-> " ", wide |-> FALSE, cont |-> FALSE]
Grid(bw) == (0 .. bw - 1) \X (0 .. H - 1)

NewBuffer(bw) == [w |-> bw, cells |-> [p \in Grid(bw) |-> Blank],
                  layer |-> [p \in Grid(bw) |-> 0], graphics |-> <<>>]

\* clearCell for the cells in ps: the other half of a wide glyph goes too.
clearCells(b, ps) ==
  LET halves == {p \in Grid(b.w) : b.cells[p].wide /\ <<p[1] + 1, p[2]>> \in ps}
                  \cup {p \in Grid(b.w) : b.cells[p].cont /\ <<p[1] - 1, p[2]>> \in ps}
  IN halves \cup (ps \cap Grid(b.w))

\* Buffer.Set on a layer; a wide glyph that does not fit becomes a blank.
Set(b, x, y, glyph, layer) ==
  LET wide == glyph \in WideGlyphs /\ x + 1 < b.w
      g    == IF glyph \in WideGlyphs /\ ~wide THEN " " ELSE glyph
      own  == {<<x, y>>} \cup (IF wide THEN {<<x + 1, y>>} ELSE {})
      gone == clearCells(b, own)
  IN [b EXCEPT !.cells = [p \in Grid(b.w) |->
                            IF p = <<x, y>> THEN [glyph |-> g, wide |-> wide, cont |-> FALSE]
                            ELSE IF p \in own THEN [Blank EXCEPT !.cont = TRUE]
                            ELSE IF p \in gone THEN Blank ELSE @[p]],
               !.layer = [p \in Grid(b.w) |-> IF p \in gone THEN layer ELSE @[p]]]

Bounds(b) == Rect(0, 0, b.w, H)

\* Buffer.Fill: Set for every cell, row by row.
Fill(b, r, glyph, layer) ==
  LET c == intersect(r, Bounds(b))
      filled[i \in 0 .. c.w * c.h] ==
        IF i = 0 THEN b
        ELSE Set(filled[i - 1], c.x + ((i - 1) % c.w), c.y + ((i - 1) \div c.w), glyph, layer)
  IN filled[c.w * c.h]

\* An image outside the buffer is not recorded.
AddGraphic(b, id, pid, payload, r) ==
  LET c == intersect(r, Bounds(b))
  IN IF Empty(c) THEN b
     ELSE [b EXCEPT !.graphics = Append(@, [id |-> id, pid |-> pid, payload |-> payload, rect |-> c])]

(* ------------------------------- occlusion ----------------------------- *)

\* The cells of an image an overlay painted, and their bounding rectangle.
Painted(b, r) == {p \in Inside(r) : b.layer[p] > 0}

occluderBBox(b, r) ==
  LET xs == {p[1] : p \in Painted(b, r)}
      ys == {p[2] : p \in Painted(b, r)}
      x1 == CHOOSE x \in xs : \A o \in xs : x <= o
      y1 == CHOOSE y \in ys : \A o \in ys : y <= o
      x2 == CHOOSE x \in xs : \A o \in xs : x >= o
      y2 == CHOOSE y \in ys : \A o \in ys : y >= o
  IN Rect(x1, y1, x2 - x1 + 1, y2 - y1 + 1)

Strips(a, hole) ==
  << Rect(a.x, a.y, a.w, hole.y - a.y),
     Rect(a.x, hole.y + hole.h, a.w, a.y + a.h - hole.y - hole.h),
     Rect(a.x, hole.y, hole.x - a.x, hole.h),
     Rect(hole.x + hole.w, hole.y, a.x + a.w - hole.x - hole.w, hole.h) >>

subtractRect(a, hole) == SelectSeq(Strips(a, hole), LAMBDA r : ~Empty(r))

\* The images as they are placed: whole, in strips around an overlay, or not
\* at all.
Resolve(b, g) ==
  IF Painted(b, g.rect) = {} THEN [g |-> g, rects |-> <<g.rect>>, split |-> FALSE]
  ELSE [g |-> g, rects |-> subtractRect(g.rect, occluderBBox(b, g.rect)), split |-> TRUE]

resolveGraphics(b) ==
  IF b = None THEN <<>>
  ELSE SelectSeq([i \in DOMAIN b.graphics |-> Resolve(b, b.graphics[i])], LAMBDA r : r.rects # <<>>)

(* ----------------------------- the terminal ---------------------------- *)

\* A glyph printed over half of a wide one blanks the other half.
Glyph(cells, x, y, glyph, bw) ==
  LET wide == glyph \in WideGlyphs
      own  == {<<x, y>>} \cup (IF wide THEN {<<x + 1, y>>} ELSE {})
      torn == {p \in Grid(bw) : cells[p].wide /\ <<p[1] + 1, p[2]>> \in own}
                \cup {p \in Grid(bw) : cells[p].cont /\ <<p[1] - 1, p[2]>> \in own}
  IN [p \in Grid(bw) |-> IF p = <<x, y>> THEN [glyph |-> glyph, wide |-> wide, cont |-> FALSE]
                         ELSE IF p \in own THEN [Blank EXCEPT !.cont = TRUE]
                         ELSE IF p \in torn THEN Blank ELSE cells[p]]

Placement(id, pid, i, r) == [id |-> id, pid |-> pid, strip |-> i, rect |-> r]

\* An upload replaces what the id stood for, and its placements go.
Upload(t, id, payload) ==
  [t EXCEPT !.images[id] = payload, !.places = {p \in @ : p.id # id}]

Place(t, r) ==
  LET new == {Placement(r.g.id, r.g.pid, i, r.rects[i]) : i \in DOMAIN r.rects}
  IN [t EXCEPT !.places = new \cup {p \in @ : ~\E q \in new : q.id = p.id /\ q.pid = p.pid /\ q.strip = p.strip}]

(* ------------------------------ the difference ------------------------- *)

\* Mutant: after a change of size the old buffer is still compared with.
TrustOldSize(p, n) == p

\* The buffer cells are compared with: none after a change of size.
baseline(p, n) == IF p # None /\ p.w # n.w THEN None ELSE p

PrevCell(p, pos) == IF p = None THEN None ELSE IF pos \in Grid(p.w) THEN p.cells[pos] ELSE Blank

\* emitDiff: changed cells, row by row; a continuation is never printed.
emitDiff(cells, p, n) ==
  LET base == baseline(p, n)
      after[i \in 0 .. n.w * H] ==
        IF i = 0 THEN cells
        ELSE LET x == (i - 1) % n.w
                 y == (i - 1) \div n.w
                 c == n.cells[<<x, y>>]
             IN IF c.cont \/ PrevCell(base, <<x, y>>) = c THEN after[i - 1]
                ELSE Glyph(after[i - 1], x, y, c.glyph, n.w)
  IN after[n.w * H]

Key(r) == <<r.g.id, r.g.pid>>
Elems(s) == {s[i] : i \in DOMAIN s}
PayloadSet(rs) == {<<r.g.id, r.g.payload>> : r \in Elems(rs)}

\* What is left of an old placement must be deleted before the new one.
MustClear(old, new) ==
  new = {} \/ \E n \in new : n.g.payload # old.g.payload \/ old.split \/ n.split

\* GraphicDiff: the placements deleted and the payloads freed, before the cells.
Clears(t, ps, ns) ==
  LET changed == {old \in Elems(ps) : old \notin Elems(ns)}
      cleared == {old \in changed : MustClear(old, {n \in Elems(ns) : Key(n) = Key(old)})}
      freed   == {old.g.id : old \in {c \in cleared : <<c.g.id, c.g.payload>> \notin PayloadSet(ns)}}
  IN [t EXCEPT !.images = [id \in Images |-> IF id \in freed THEN None ELSE @[id]],
               !.places = {p \in @ :
                 /\ p.id \notin freed
                 /\ ~\E old \in cleared : old.g.id = p.id /\ old.g.pid = p.pid /\ (old.split \/ p.strip = 1)}]

\* A payload is sent unless the last frame had it or this one sent it already.
MustUpload(ps, done, r) ==
  \/ <<r.g.id, r.g.payload>> \notin PayloadSet(ps) \cup done
  \/ \E old \in Elems(ps) : /\ <<r.g.id, r.g.payload>> \in PayloadSet(ps)
                            /\ Key(old) = Key(r) /\ old.g.payload # r.g.payload

\* GraphicDiff: uploads and placements, in drawing order, after the cells.
Graphics(t, ps, ns) ==
  LET sent[i \in 0 .. Len(ns)] ==
        IF i = 0 THEN [t |-> t, done |-> {}]
        ELSE LET r == ns[i]
                 s == sent[i - 1]
             IN IF r \in Elems(ps) THEN s
                ELSE IF MustUpload(ps, s.done, r)
                     THEN [t |-> Place(Upload(s.t, r.g.id, r.g.payload), r),
                           done |-> s.done \cup {<<r.g.id, r.g.payload>>}]
                     ELSE [s EXCEPT !.t = Place(s.t, r)]
  IN sent[Len(ns)].t

Frame(t, p, n) ==
  LET ps == resolveGraphics(p)
      ns == resolveGraphics(n)
      c  == Clears(t, ps, ns)
  IN Graphics([c EXCEPT !.cells = emitDiff(c.cells, p, n)], ps, ns)

(* -------------------------------- actions ------------------------------ *)

\* A render starts: a new buffer.
Render ==
  /\ ops = -1 /\ ops' = 0
  /\ next' = NewBuffer(w)
  /\ UNCHANGED <<w, prev, term>>

Drawing == ops \in 0 .. MaxOps - 1 /\ ops' = ops + 1 /\ UNCHANGED <<w, prev, term>>

Covered == \E p \in Grid(next.w) : next.layer[p] > 0

DrawText ==
  /\ Drawing /\ ~Covered
  /\ \E p \in Grid(next.w), g \in Narrow \cup WideGlyphs : next' = Set(next, p[1], p[2], g, 0)

\* A key is drawn once in a frame, in which each image stands for one payload.
DrawImage ==
  /\ Drawing /\ ~Covered
  /\ \E id \in Images, pid \in Pids, payload \in Payloads, r \in Spots :
       /\ \A g \in Elems(next.graphics) : g.id = id => g.pid # pid /\ g.payload = payload
       /\ next' = AddGraphic(next, id, pid, payload, r)

DrawOverlay ==
  /\ Drawing
  /\ \E r \in Covers, g \in Narrow : next' = Fill(next, r, g, 1)

\* Cells nobody knows.
Scribbled(cells, bw) == [p \in Grid(bw) |-> [Blank EXCEPT !.glyph = "?"]]

\* A frame drawn for a size the terminal no longer has lands anywhere.
Flush ==
  /\ ops >= 0 /\ ops' = -1
  /\ \E t \in {Frame(term, prev, next)} :
       term' = IF next.w = w THEN t ELSE [t EXCEPT !.cells = Scribbled(@, w)]
  /\ prev' = next
  /\ UNCHANGED <<w, next>>

\* The terminal may reflow its cells in any way when its size changes; it keeps
\* the images.  watchResizes keeps only the latest size for the loop.
Resize(bw) ==
  /\ bw # w /\ w' = bw
  /\ next.w = w \/ Coalesced
  /\ \E cells \in {Scribbled(term.cells, bw), [p \in Grid(bw) |-> Blank]} : term' = [term EXCEPT !.cells = cells]
  /\ UNCHANGED <<next, prev, ops>>

\* A video has painted over everything; its last command deletes every image,
\* and the repaint it asks for drops the baseline.
ForceRepaint ==
  /\ ops = -1 /\ prev # None /\ prev' = None
  /\ term' = [cells |-> Scribbled(term.cells, w), images |-> [id \in Images |-> None], places |-> {}]
  /\ UNCHANGED <<w, next, ops>>

Init ==
  /\ w \in Widths /\ ops = -1 /\ prev = None /\ next = NewBuffer(w)
  /\ term = [cells |-> Scribbled(<<>>, w), images |-> [id \in Images |-> None], places |-> {}]

Next ==
  \/ Render \/ DrawText \/ DrawImage \/ DrawOverlay \/ Flush \/ ForceRepaint
  \/ \E bw \in Widths : Resize(bw)

Spec == Init /\ [][Next]_vars

(* ------------------------------ properties ----------------------------- *)

\* Nothing has happened to the terminal since the last frame was sent.
Settled == ops = -1 /\ prev # None /\ next.w = w

\* After a frame the terminal shows the cells of its buffer, whatever was
\* there before (diff.go, emitDiff and the resize rule).
CellsShown == Settled => term.cells = next.cells

\* After a frame the terminal has exactly the placements of its images, each
\* with the right payload, and keeps no payload nothing shows
\* (diff.go, GraphicDiff: clears, frees, shared payloads, strips).
GraphicsShown ==
  Settled =>
    LET rs == Elems(resolveGraphics(next))
    IN /\ term.places = UNION {{Placement(r.g.id, r.g.pid, i, r.rects[i]) : i \in DOMAIN r.rects} : r \in rs}
       /\ \A r \in rs : term.images[r.g.id] = r.g.payload
       /\ \A id \in Images : term.images[id] # None => \E r \in rs : r.g.id = id

\* An image never lies over a cell an overlay painted, and is cut away only
\* within the bounding box of those cells (buffer.go, resolveGraphics).
NoBleed ==
  ops = -1 =>
    \A g \in Elems(next.graphics) :
      LET seen == UNION {UNION {Inside(rs.rects[i]) : i \in DOMAIN rs.rects} : rs \in {Resolve(next, g)}}
          hid  == Painted(next, g.rect)
      IN seen \cap hid = {} /\ (hid = {} => seen = Inside(g.rect))
=============================================================================
