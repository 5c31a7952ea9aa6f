---------------------------- MODULE MessageRing ----------------------------
(***************************************************************************)
(* The ring buffer behind a channel's messages (internal/store/ring.go):   *)
(* slots, a start index and a size.  Module MessageStore works on the      *)
(* sequence the slots stand for; this module keeps the slots and checks    *)
(* that the two agree, wherever the ring starts and however full it is.    *)
(*                                                                         *)
(* An entry is an ID, a nonce and a body; the revisions it also carries    *)
(* are written together with it and left to MessageStore.                  *)
(***************************************************************************)
EXTENDS MessageStore

CONSTANT MaxBody  \* bound on edits

VARIABLES
  buf,    \* ring.buf
  start,  \* ring.start
  size    \* ring.size

vars == <<buf, start, size>>

Slots == 0 .. HistoryLimit - 1

Entry == [id: Ids \cup {0}, nonce: Nonces \cup {NoNonce}, body: 0 .. MaxBody]

Blank == [id |-> 0, nonce |-> NoNonce, body |-> 0]

\* The slot of the n-th entry, counting from 0.
Slot(n) == (start + n) % HistoryLimit

\* ring.slice
Slice == [k \in 1 .. size |-> buf[Slot(k - 1)]]

Init ==
  /\ buf = [p \in Slots |-> Blank]
  /\ start = 0 /\ size = 0

-----------------------------------------------------------------------------

\* Mutant: the start index does not move on from the slot it gave up.
PushInPlace(m) ==
  IF size < HistoryLimit
  THEN buf' = [buf EXCEPT ![Slot(size)] = m] /\ size' = size + 1 /\ UNCHANGED start
  ELSE buf' = [buf EXCEPT ![start] = m] /\ UNCHANGED <<start, size>>

PushEntry(m) ==
  IF size < HistoryLimit
  THEN buf' = [buf EXCEPT ![Slot(size)] = m] /\ size' = size + 1 /\ UNCHANGED start
  ELSE buf' = [buf EXCEPT ![start] = m] /\ start' = (start + 1) % HistoryLimit /\ UNCHANGED size

\* A message from the gateway, or a local echo: callers push nothing cached.
Pushes(m) == (m.id = 0 \/ m.id \notin IdsOf(Slice)) /\ PushEntry(m)

\* The first entry that matches, searching from the oldest.
Found(n, Matches(_)) == Matches(buf[Slot(n)]) /\ \A k \in 0 .. n - 1 : ~ Matches(buf[Slot(k)])

ReplaceByNonce(nonce, m) ==
  /\ \E n \in 0 .. size - 1 :
       /\ Found(n, LAMBDA e : e.nonce = nonce)
       /\ buf' = [buf EXCEPT ![Slot(n)] = m]
  /\ UNCHANGED <<start, size>>

UpdateById(id) ==
  /\ \E n \in 0 .. size - 1 :
       /\ Found(n, LAMBDA e : e.id = id) /\ buf[Slot(n)].body < MaxBody
       /\ buf' = [buf EXCEPT ![Slot(n)].body = @ + 1]
  /\ UNCHANGED <<start, size>>

\* The loop of removeByID: one slot down, size - 1 times.
ShiftDown(at) ==
  FoldLeft(LAMBDA b, n : [b EXCEPT ![(at + n - 1) % HistoryLimit] = b[(at + n) % HistoryLimit]],
           buf, [n \in 1 .. size - 1 |-> n])

RemoveById(id) ==
  \E n \in 0 .. size - 1 :
    /\ Found(n, LAMBDA e : e.id = id)
    /\ buf' = [ShiftDown(Slot(n)) EXCEPT ![Slot(size - 1)] = Blank]
    /\ size' = size - 1
    /\ start' = IF size = 1 THEN 0 ELSE start

\* SetMessages and replaceMessages push into a ring of their own.
NewRing == buf' = [p \in Slots |-> Blank] /\ start' = 0 /\ size' = 0

Cached(id) == [Blank EXCEPT !.id = id]

Echo(n) == [Blank EXCEPT !.nonce = n]

Confirmed(n, id) == [Cached(id) EXCEPT !.nonce = n]

Next ==
  \/ \E id \in Ids : Pushes(Cached(id)) \/ UpdateById(id) \/ RemoveById(id)
  \/ \E n \in Nonces : Pushes(Echo(n))
  \/ \E n \in Nonces : \E id \in Ids : ReplaceByNonce(n, Confirmed(n, id))
  \/ NewRing

Spec == Init /\ [][Next]_vars

-----------------------------------------------------------------------------
(* Properties                                                              *)

TypeOK ==
  /\ buf \in [Slots -> Entry]
  /\ start \in Slots
  /\ size \in 0 .. HistoryLimit

\* Every operation on the slots is MessageStore's operation on the sequence,
\* whatever the start index and whatever removals left in the unused slots.
AsTheWindow ==
  /\ \A id \in Ids :
       LET at == IndexById(Slice, id)
       IN  /\ Pushes(Cached(id)) => Slice' = Push(Slice, Cached(id))
           /\ UpdateById(id) => Slice' = [Slice EXCEPT ![at].body = @ + 1]
           /\ RemoveById(id) => Slice' = RemovedAt(Slice, at)
  /\ \A n \in Nonces :
       /\ Pushes(Echo(n)) => Slice' = Push(Slice, Echo(n))
       /\ \A id \in Ids : ReplaceByNonce(n, Confirmed(n, id)) =>
            Slice' = [Slice EXCEPT ![IndexByNonce(Slice, n)] = Confirmed(n, id)]
ImplementsWindow == [][AsTheWindow]_vars

\* mutation.go:18-19: RemoveMessage deletes message id from the channel's ring.
\* So a removal takes out one entry and leaves the others in their order.
RemovesOne ==
  [][\A id \in Ids : RemoveById(id) => Slice' = RemoveAt(Slice, IndexById(Slice, id))]_vars
=============================================================================
