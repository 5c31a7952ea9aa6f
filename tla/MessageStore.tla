----------------------------- MODULE MessageStore -----------------------------
(***************************************************************************)
(* The normalized store's message state for one channel, as pure operators *)
(* on a record: internal/store/store.go, mutation.go, channels.go.  Every  *)
(* operation runs on the UI goroutine, so it is atomic; a module that      *)
(* models the goroutines around the store applies them in its actions.     *)
(*                                                                         *)
(* A message is abstracted to what the operations tell apart: its ID, its  *)
(* nonce, which server version of the body it carries, whether it is still *)
(* an unconfirmed local echo, and the revision the store stamped on it.    *)
(* The ring's physical layout is the subject of module MessageRing: here a *)
(* ring is the oldest-first sequence it stands for.                        *)
(*                                                                         *)
(* Operators whose comment starts with `Mutant' are wrong versions of the  *)
(* definition after them: no specification uses them, and a property that  *)
(* they would not break would say nothing about the code.                  *)
(***************************************************************************)
EXTENDS Integers, FiniteSets, Sequences, SequencesExt

CONSTANTS
  HistoryLimit,  \* store.New's historyLimit: capacity of the ring and of the tombstones
  Ids,           \* message snowflakes; 0 is the ID of a local echo
  Nonces,        \* nonces newNonce can return
  NoNonce        \* the empty nonce

ASSUME StoreAssumption ==
  /\ HistoryLimit \in Nat \ {0}
  /\ Ids \subseteq Nat \ {0}
  /\ NoNonce \notin Nonces

Message == [id: Ids \cup {0}, nonce: Nonces \cup {NoNonce}, body: Nat,
            st: {"ok", "pending", "failed"}, rev: Nat]

\* ringRev = 0 stands for "no ring yet" (a nil entry of Store.messages).
StoreState ==
  [rev: Nat, msgs: Seq(Message), ringRev: Nat, tombs: [Ids -> Nat],
   pruned: Nat, latest: Nat]

\* The channel's generation, and whether it is hydrated.
Lifetime == [gen: Nat, known: BOOLEAN]

\* store.New, and one channel hydrated by UpsertChannel.
NewStore ==
  [rev |-> 0, msgs |-> <<>>, ringRev |-> 0, tombs |-> [i \in Ids |-> 0],
   pruned |-> 0, latest |-> 0]

FirstLifetime == [gen |-> 1, known |-> TRUE]

-----------------------------------------------------------------------------
(* Lookups                                                                 *)

Larger(a, b) == IF a > b THEN a ELSE b

Smaller(a, b) == IF a < b THEN a ELSE b

IndexById(msgs, id) == SelectInSeq(msgs, LAMBDA m : m.id = id)

IndexByNonce(msgs, nonce) == SelectInSeq(msgs, LAMBDA m : m.nonce = nonce)

HasMessage(s, id) == IndexById(s.msgs, id) # 0

IdsOf(msgs) == {m.id : m \in ToSet(msgs)} \ {0}

Unresolved(m) == m.st \in {"pending", "failed"}

\* The entries of a sequence at a set of its indices, in their order.  This and
\* Where are written out because the provers know SelectSeq by its name only.
ChosenUpTo(msgs, at) ==
  LET upTo[k \in 0 .. Len(msgs)] ==
        IF k = 0 THEN <<>> ELSE IF k \in at THEN Append(upTo[k - 1], msgs[k]) ELSE upTo[k - 1]
  IN  upTo

Chosen(msgs, at) == ChosenUpTo(msgs, at)[Len(msgs)]

Where(msgs, Test(_)) == Chosen(msgs, {k \in DOMAIN msgs : Test(msgs[k])})

\* Mutant: tombstones are recorded and never consulted.
NeverTombstoned(s, id) == FALSE

MessageTombstoned(s, id) == id # 0 /\ s.tombs[id] # 0

TombstonesPrunedSince(s, revision) == s.pruned > revision

MsgRev(s) == s.ringRev

-----------------------------------------------------------------------------
(* The ring and the tombstones                                             *)

\* The newest HistoryLimit entries of a sequence: what pushing it leaves.
Window(msgs) == SubSeq(msgs, Larger(1, Len(msgs) - HistoryLimit + 1), Len(msgs))

Push(msgs, m) == Window(Append(msgs, m))

ClearTombstones(s, ids) == [i \in Ids |-> IF i \in ids THEN 0 ELSE s.tombs[i]]

AppendMessage(s, m) ==
  LET rev == s.rev + 1
  IN  [s EXCEPT !.rev = rev, !.ringRev = rev,
                !.msgs = Push(@, [m EXCEPT !.rev = rev]),
                !.tombs = ClearTombstones(s, {m.id}),
                !.latest = Larger(@, m.id)]

\* Mutant: the entry is stamped and the ring's revision is not.
StampEntryOnly(s, i, m) ==
  [s EXCEPT !.rev = @ + 1, !.msgs[i] = [m EXCEPT !.rev = s.rev + 1]]

\* Overwrites the entry at index i with m under a fresh revision.
Stamp(s, i, m) ==
  [s EXCEPT !.rev = @ + 1, !.ringRev = s.rev + 1,
            !.msgs[i] = [m EXCEPT !.rev = s.rev + 1]]

\* A failed lookup in an existing ring still uses up a revision.
Burn(s) == IF s.ringRev = 0 THEN s ELSE [s EXCEPT !.rev = @ + 1]

ReplacesEcho(s, nonce) == nonce # NoNonce /\ IndexByNonce(s.msgs, nonce) # 0

ReplaceMessage(s, nonce, confirmed) ==
  IF ReplacesEcho(s, nonce)
  THEN [Stamp(s, IndexByNonce(s.msgs, nonce), confirmed)
          EXCEPT !.tombs = ClearTombstones(s, {confirmed.id}),
                 !.latest = Larger(@, confirmed.id)]
  ELSE IF nonce = NoNonce THEN s ELSE Burn(s)

MarkFailed(s, nonce) ==
  LET i == IndexByNonce(s.msgs, nonce)
  IN  IF i = 0 THEN Burn(s) ELSE Stamp(s, i, [s.msgs[i] EXCEPT !.st = "failed"])

\* UpdateMessage with the patch of a MESSAGE_UPDATE: the body moves on.
UpdateMessage(s, id, body) ==
  LET i == IndexById(s.msgs, id)
  IN  IF i = 0 THEN Burn(s) ELSE Stamp(s, i, [s.msgs[i] EXCEPT !.body = body])

\* Mutant: what a linear buffer would leave.
Without(msgs, at) == RemoveAt(msgs, at)

\* What ring.removeByID leaves when it removes the entry at index `at'.  It
\* shifts Len(msgs) - 1 slots down, however few entries follow the removed one,
\* and in a full or almost full ring the shift runs past the newest entry and
\* into the oldest ones: see module MessageRing.
RemovedAt(msgs, at) ==
  [k \in 1 .. Len(msgs) - 1 |->
     IF k >= at \/ k + HistoryLimit <= at + Len(msgs) - 2 THEN msgs[k + 1] ELSE msgs[k]]

\* Records a tombstone whether or not the message is cached; the tombstones
\* are bounded, and the newest evicted one raises the pruning watermark.
RemoveMessage(s, id) ==
  LET rev    == s.rev + 1
      marked == [s.tombs EXCEPT ![id] = rev]
      held   == {i \in Ids : marked[i] # 0}
      oldest == CHOOSE i \in held : \A j \in held : marked[i] <= marked[j]
      full   == Cardinality(held) > HistoryLimit
      at     == IndexById(s.msgs, id)
  IN  [s EXCEPT !.rev = rev,
                !.tombs = IF full THEN [marked EXCEPT ![oldest] = 0] ELSE marked,
                !.pruned = IF full THEN Larger(@, marked[oldest]) ELSE @,
                !.msgs = IF at = 0 THEN @ ELSE RemovedAt(@, at),
                !.ringRev = IF at = 0 THEN @ ELSE rev]

\* The store after the first k removals of a sequence.
RemovalStates(s, ids) ==
  LET after[k \in 0 .. Len(ids)] == IF k = 0 THEN s ELSE RemoveMessage(after[k - 1], ids[k])
  IN  after

-----------------------------------------------------------------------------
(* Installing history                                                      *)

\* Mutant: a page replaces the echoes too.
NoEchoes(s, incoming) == <<>>

UnconfirmedEchoes(s, incoming) ==
  Where(s.msgs, LAMBDA m : /\ Unresolved(m)
                           /\ ~ \E c \in ToSet(incoming) :
                                  c.nonce = m.nonce /\ m.nonce # NoNonce)

\* Every message of the sequence under a fresh revision of its own.
Restamped(s, msgs) == [k \in DOMAIN msgs |-> [msgs[k] EXCEPT !.rev = s.rev + k]]

SetMessages(s, incoming) ==
  LET echoes == UnconfirmedEchoes(s, incoming)
      pushed == Restamped(s, incoming) \o echoes
      none   == pushed = <<>>
      newest == CHOOSE m \in ToSet(pushed) : \A k \in ToSet(pushed) : k.rev <= m.rev
  IN  [s EXCEPT !.rev = @ + Len(incoming),
                !.msgs = Window(pushed),
                !.ringRev = IF none THEN 0 ELSE newest.rev,
                !.tombs = ClearTombstones(s, IdsOf(incoming))]

ReplaceMessages(s, msgs) ==
  [s EXCEPT !.rev = @ + Len(msgs), !.msgs = Restamped(s, msgs),
            !.ringRev = IF msgs = <<>> THEN 0 ELSE s.rev + Len(msgs)]

\* Echoes and everything mutated after the request may not give way to a page.
Protected(m, revision) == Unresolved(m) \/ m.rev > revision

\* Mutant: the newest messages take every slot.
WholeBudget(held) == HistoryLimit - held

\* How many unprotected messages of the newest edge stay: half of the window,
\* and at least one slot for the older page.
RecentBudget(held) == Larger(Smaller((HistoryLimit + 1) \div 2, HistoryLimit - held - 1), 0)

\* The indices PrependMessagesSince keeps of the page followed by the ring.
KeptIndices(combined, revision) ==
  LET dom     == DOMAIN combined
      held    == {i \in dom : Protected(combined[i], revision)}
      rest    == dom \ held
      \* the n highest, or lowest, members of a set of indices
      Top(S, n) == {i \in S : Cardinality({j \in S : j > i}) < n}
      Low(S, n) == {i \in S : Cardinality({j \in S : j < i}) < n}
      recent  == Top(rest, RecentBudget(Cardinality(held)))
      room    == HistoryLimit - Cardinality(held \cup recent)
  IN  IF Cardinality(held) >= HistoryLimit
      THEN Top(held, HistoryLimit)
      ELSE held \cup recent \cup Low(rest \ recent, room)

PrependMessagesSince(s, page, revision) ==
  LET fresh    == Where(page, LAMBDA m : ~ MessageTombstoned(s, m.id)
                                         /\ m.id \notin IdsOf(s.msgs))
      combined == fresh \o s.msgs
  IN  IF page = <<>> THEN s
      ELSE ReplaceMessages(s, Chosen(combined, KeptIndices(combined, revision)))

-----------------------------------------------------------------------------
(* The channel's lifetime                                                  *)

\* RemoveChannel forgets the messages ...
RemoveChannel(s) ==
  [s EXCEPT !.msgs = <<>>, !.ringRev = 0, !.tombs = [i \in Ids |-> 0],
            !.pruned = 0, !.latest = 0]

\* ... and moves to the next lifetime, whether or not the channel was hydrated.
EndLifetime(life) == [gen |-> life.gen + 1, known |-> FALSE]

\* UpsertChannel never moves the newest known message backwards ...
UpsertChannel(s, last) == [s EXCEPT !.latest = Larger(@, last)]

\* ... and starts a lifetime only when the channel is new.
BeginLifetime(life) == [gen |-> IF life.known THEN life.gen ELSE life.gen + 1, known |-> TRUE]
=============================================================================
