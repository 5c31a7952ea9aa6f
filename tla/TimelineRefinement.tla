------------------------- MODULE TimelineRefinement -------------------------
(***************************************************************************)
(* Timeline implements the two mechanisms whose theorems hold for every    *)
(* value of the constants: the load gate and the tombstones.               *)
(***************************************************************************)
EXTENDS Timeline

\* The history gate, with the history requests as its loaders.
TokenOf(r) ==
  IF InFlight(r) THEN [running |-> TRUE, version |-> reqs[r].ver]
  ELSE [running |-> FALSE, version |-> 0]

Tokens == [r \in Requests |-> TokenOf(r)]

LG == INSTANCE LoadGate WITH
        Loaders <- Requests, MaxVersion <- MaxLifetimes,
        gate <- gate, token <- Tokens

\* A request as the tombstones see it; one that failed still counts as asked.
RequestOf(r) ==
  IF InFlight(r)
  THEN [phase |-> IF reqs[r].phase = "answered" THEN "answered" ELSE "asked",
        rev |-> reqs[r].rev, gen |-> reqs[r].gen, page |-> IdsOf(reqs[r].page)]
  ELSE [phase |-> "idle", rev |-> 0, gen |-> 0, page |-> {}]

Deleted == {i \in Ids : server[i].state = "deleted"}

SeenRequests == [r \in Requests |-> RequestOf(r)]

TB == INSTANCE Tombstones WITH
        Revs <- Nat, MaxGen <- MaxLifetimes,
        rev <- store.rev, gen <- life.gen, cached <- IdsOf(store.msgs),
        tomb <- store.tombs, pruned <- store.pruned,
        reqs <- SeenRequests,
        deleted <- Deleted, gone <- gone

\* A request holds the version and the generation it began under.  It is current
\* only in the lifetime it began in: a recreated channel begins its new lifetime
\* after a version the request does not have.
BeganBefore(r) ==
  /\ DOMAIN reqs[r] = {"phase", "kind", "rev", "gen", "ver", "before", "page"}
  /\ reqs[r].ver \in Nat /\ reqs[r].ver <= gate.version
  /\ ~ life.known => reqs[r].ver < gate.version
  /\ reqs[r].ver = gate.version => reqs[r].gen = life.gen

\* The gate's version stays within its bound because every version it gets ends
\* a lifetime, and the events that end one are counted from when they are sent.
WireBounded ==
  /\ wire \in Seq(ToSet(wire))
  /\ LifetimeEvents(wire) # {} => Lifetimes <= MaxLifetimes

\* The inductive invariant behind ImplementsLoadGate.
GateIInv ==
  /\ gate \in Gate /\ life \in Lifetime
  /\ gate.version < life.gen
  /\ WireBounded
  /\ DOMAIN reqs = Requests
  /\ \A r \in Requests : InFlight(r) => BeganBefore(r)

\* No revision the store has given out lies in the future, and a ring that holds
\* messages has one of its own.
Sound(s) ==
  /\ s \in StoreState
  /\ s.ringRev <= s.rev /\ s.pruned <= s.rev
  /\ \A i \in Ids : s.tombs[i] <= s.rev
  /\ \A k \in DOMAIN s.msgs : s.msgs[k].rev \in 1 .. s.rev
  /\ s.ringRev = 0 => s.msgs = <<>>

\* The events the server sends: what it reports as deleted, it has deleted.
Legal == {e \in Event : e.type = "delete" => e.ids # <<>> /\ ToSet(e.ids) \subseteq Deleted}

CallsKnown ==
  /\ calls \in [Nonces -> Call]
  /\ \A n \in Nonces : calls[n].phase = "accepted" => calls[n].id # 0

\* The inductive invariant behind ImplementsTombstones.
TombIInv ==
  /\ Sound(store)
  /\ server \in [Ids -> ServerMessage]
  /\ wire \in Seq(Legal)
  /\ deletes \subseteq Deleted
  /\ CallsKnown
  /\ \A r \in Requests : InFlight(r) => reqs[r] \in Request

\* Every step of the timeline is a step of the gate, or leaves it alone: pages,
\* failures, discarded replies and lifetimes use it as its invariant needs.
ImplementsLoadGate == LG!Safe

\* Every step of the timeline is a step of the tombstones' mechanism: no handler
\* clears a tombstone, moves the watermark or installs a page in a way the
\* theorem DeletedStaysDeleted does not cover.
ImplementsTombstones == TB!Spec

\* For TLC: history requests are interchangeable.
Symmetry == Permutations(Requests)
=============================================================================
