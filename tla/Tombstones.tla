----------------------------- MODULE Tombstones -----------------------------
(***************************************************************************)
(* What the store promises about deleted messages (store.go:351-358): a    *)
(* history response that was in flight when a delete arrived does not      *)
(* bring the message back, although the tombstones are bounded.            *)
(*                                                                         *)
(* This is the mechanism without its data: revisions, tombstones, the      *)
(* watermark of evicted tombstones and the channel's generation, for any   *)
(* set of messages and requests.  Which tombstone is evicted, which cached *)
(* messages a page displaces and what else the store does meanwhile are    *)
(* left open; module Timeline implements it.                               *)
(***************************************************************************)
EXTENDS Naturals

CONSTANTS
  Ids,       \* message IDs
  Requests,  \* history requests
  Revs,      \* revisions the store may reach
  MaxGen     \* bound on the channel's generation

ASSUME TombstonesAssumption == Revs \subseteq Nat /\ MaxGen \in Nat

VARIABLES
  rev,      \* Store.rev
  gen,      \* Store.channelGeneration
  cached,   \* IDs in the channel's ring
  tomb,     \* Store.deletedMessages: the revision of each delete, or 0
  pruned,   \* Store.prunedDeleteRevision
  reqs,     \* history requests
  deleted,  \* IDs deleted on the server
  gone      \* IDs the client has removed and nothing has created since

vars == <<rev, gen, cached, tomb, pruned, reqs, deleted, gone>>

NoRequest == [phase |-> "idle", rev |-> 0, gen |-> 0, page |-> {}]

Request == [phase: {"idle", "asked", "answered"}, rev: Nat, gen: Nat, page: SUBSET Ids]

NoTombs == [i \in Ids |-> 0]

Init ==
  /\ rev = 0 /\ gen \in 0 .. MaxGen
  /\ cached = {} /\ tomb = NoTombs /\ pruned = 0
  /\ reqs = [r \in Requests |-> NoRequest]
  /\ deleted \in SUBSET Ids /\ gone = {}

-----------------------------------------------------------------------------
(* The server                                                              *)

ServerDelete(ids) ==
  /\ deleted' = deleted \cup ids
  /\ UNCHANGED <<rev, gen, cached, tomb, pruned, reqs, gone>>

-----------------------------------------------------------------------------
(* The store                                                               *)

RevsFrom(least) == {n \in Revs : n >= least}

\* Edits, echoes, trims: nothing that concerns deletes.
Touch ==
  /\ rev' \in RevsFrom(rev)
  /\ cached' \in SUBSET cached
  /\ UNCHANGED <<gen, tomb, pruned, reqs, deleted, gone>>

\* A create, from the gateway or a REST reply, clears its own tombstone, unless
\* the message is cached: then nothing is appended and the tombstone stays.
Create(id) ==
  /\ rev' \in RevsFrom(rev)
  /\ cached' \in SUBSET (cached \cup {id})
  /\ tomb' \in {tomb, [tomb EXCEPT ![id] = 0]}
  /\ gone' = gone \ {id}
  /\ UNCHANGED <<gen, pruned, reqs, deleted>>

\* Mutant: the watermark stays behind the evicted tombstone.
Unaccounted(was) == pruned' + 1 >= was

\* Whether a tombstone that held revision `was' may be missing afterwards.
Accounted(was) == pruned' >= was

\* Deletes the server has made: every one leaves a tombstone newer than all
\* before, or raises the watermark over it; older ones may be evicted, under
\* the watermark too.
Remove(ids) ==
  /\ ids # {} /\ ids \subseteq deleted
  /\ rev' \in RevsFrom(rev + 1)
  /\ cached' \in SUBSET cached
  /\ pruned' \in pruned .. rev'
  /\ tomb' \in [Ids -> 0 .. rev']
  /\ \A i \in ids : tomb'[i] > rev \/ Accounted(rev + 1)
  /\ \A i \in Ids \ ids : tomb'[i] = tomb[i] \/ (tomb'[i] = 0 /\ Accounted(tomb[i]))
  /\ gone' = gone \cup ids
  /\ UNCHANGED <<gen, reqs, deleted>>

\* The channel is removed, or hydrated again.
NextLifetime ==
  /\ gen < MaxGen /\ gen' = gen + 1
  /\ \/ cached' = {} /\ tomb' = NoTombs /\ pruned' = 0
     \/ UNCHANGED <<cached, tomb, pruned>>
  /\ UNCHANGED <<rev, reqs, deleted, gone>>

-----------------------------------------------------------------------------
(* A history request                                                       *)

Ask(r) ==
  /\ reqs[r].phase = "idle"
  /\ reqs' = [reqs EXCEPT ![r] = [phase |-> "asked", rev |-> rev, gen |-> gen, page |-> {}]]
  /\ UNCHANGED <<rev, gen, cached, tomb, pruned, deleted, gone>>

\* The page shows messages that exist when the server reads it.
Answer(r, page) ==
  /\ reqs[r].phase = "asked" /\ page \cap deleted = {}
  /\ reqs' = [reqs EXCEPT ![r].phase = "answered", ![r].page = page]
  /\ UNCHANGED <<rev, gen, cached, tomb, pruned, deleted, gone>>

Discard(r) ==
  /\ reqs[r].phase # "idle"
  /\ reqs' = [reqs EXCEPT ![r] = NoRequest]
  /\ UNCHANGED <<rev, gen, cached, tomb, pruned, deleted, gone>>

\* Mutant: a page is only tested against the generation.
InLifetime(r) == reqs[r].gen = gen

Usable(r) == reqs[r].gen = gen /\ pruned <= reqs[r].rev

Install(r) ==
  /\ reqs[r].phase = "answered" /\ Usable(r)
  /\ rev' \in RevsFrom(rev)
  /\ cached' \in SUBSET (cached \cup {i \in reqs[r].page : tomb[i] = 0})
  /\ reqs' = [reqs EXCEPT ![r] = NoRequest]
  /\ UNCHANGED <<gen, tomb, pruned, deleted, gone>>

Next ==
  \/ \E ids \in SUBSET Ids : ServerDelete(ids) \/ Remove(ids)
  \/ \E id \in Ids : Create(id)
  \/ Touch \/ NextLifetime
  \/ \E r \in Requests : Ask(r) \/ Discard(r) \/ Install(r)
  \/ \E r \in Requests : \E page \in SUBSET Ids : Answer(r, page)

Spec == Init /\ [][Next]_vars

-----------------------------------------------------------------------------
(* Properties                                                              *)

TypeOK ==
  /\ rev \in Nat /\ gen \in Nat
  /\ cached \subseteq Ids
  /\ tomb \in [Ids -> Nat] /\ pruned \in Nat
  /\ reqs \in [Requests -> Request]
  /\ deleted \subseteq Ids /\ gone \subseteq Ids

\* No revision or generation on record lies in the future.
InPast ==
  /\ pruned <= rev
  /\ \A i \in Ids : tomb[i] <= rev
  /\ \A r \in Requests : reqs[r].rev <= rev /\ reqs[r].gen <= gen

\* What makes a page harmless: each of its messages that the client has removed
\* has a tombstone from after the request, or the watermark has passed it.
Covered ==
  \A r \in Requests : reqs[r].phase = "answered" /\ reqs[r].gen = gen =>
    \A i \in reqs[r].page \cap gone : tomb[i] > reqs[r].rev \/ pruned > reqs[r].rev

\* The inductive invariant.
IInv == TypeOK /\ InPast /\ gone \subseteq deleted /\ Covered

\* No step of a history request brings back a message the client has removed.
NoStaleResurrection == [][reqs' # reqs => (cached' \cap gone) \subseteq cached]_vars
=============================================================================
