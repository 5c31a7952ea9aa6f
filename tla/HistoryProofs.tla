---------------------------- MODULE HistoryProofs ----------------------------
(***************************************************************************)
(* The two mechanisms a channel's history rests on, for any messages,      *)
(* requests and bounds: deleted messages stay deleted (module Tombstones), *)
(* and a pending gate has one load that will open it (module LoadGate).    *)
(***************************************************************************)
EXTENDS Tombstones, TLAPS

CONSTANTS
  Loaders,    \* of a load gate
  MaxVersion  \* bound on its version

VARIABLES gate, token

LG == INSTANCE LoadGate

(***************************************************************************)
(* Tombstones: every page that may be installed is Covered, and a covered  *)
(* page resurrects nothing.                                                *)
(***************************************************************************)

LEMMA InitIInv == Init => IInv
<1> SUFFICES ASSUME Init PROVE IInv
  OBVIOUS
<1> USE TombstonesAssumption DEF Init, NoTombs, NoRequest
<1>1. TypeOK
  BY DEF TypeOK, Request
<1>2. InPast
  BY DEF InPast
<1>3. gone \subseteq deleted /\ Covered
  BY DEF Covered
<1>. QED BY <1>1, <1>2, <1>3 DEF IInv

\* Deletes are recorded above every request's revision, or counted into the
\* watermark; what they evict was above it already.
LEMMA RemoveIInv ==
  ASSUME IInv, NEW ids \in SUBSET Ids, Remove(ids)
  PROVE  IInv'
<1> USE TombstonesAssumption DEF IInv, Remove, Accounted, RevsFrom
<1>1. rev' \in Nat /\ rev' > rev /\ pruned' \in Nat /\ pruned' >= pruned /\ pruned' <= rev'
  BY DEF TypeOK
<1>2. TypeOK'
  <2>1. tomb' \in [Ids -> Nat]
    BY <1>1
  <2>. QED BY <1>1, <2>1 DEF TypeOK
<1>3. InPast'
  <2>1. \A i \in Ids : tomb'[i] <= rev'
    BY <1>1
  <2>. QED BY <1>1, <1>2, <2>1 DEF InPast, TypeOK, Request
<1>4. Covered'
  <2> SUFFICES ASSUME NEW r \in Requests, reqs[r].phase = "answered", reqs[r].gen = gen,
                      NEW i \in reqs[r].page \cap gone'
               PROVE  tomb'[i] > reqs[r].rev \/ pruned' > reqs[r].rev
    BY DEF Covered
  <2>1. i \in Ids /\ reqs[r].rev \in Nat /\ reqs[r].rev <= rev
    BY DEF TypeOK, Request, InPast
  <2>2. CASE i \in ids
    BY <1>1, <1>2, <2>1, <2>2 DEF TypeOK
  <2>3. CASE i \notin ids
    <3>1. tomb[i] > reqs[r].rev \/ pruned > reqs[r].rev
      BY <2>3 DEF Covered
    <3>2. tomb'[i] = tomb[i] \/ pruned' >= tomb[i]
      BY <2>1, <2>3
    <3>. QED BY <1>1, <2>1, <3>1, <3>2 DEF TypeOK
  <2>. QED BY <2>2, <2>3
<1>. QED BY <1>2, <1>3, <1>4

\* A create takes the message out of `gone' together with its tombstone.
LEMMA CreateIInv ==
  ASSUME IInv, NEW id \in Ids, Create(id)
  PROVE  IInv'
<1> USE TombstonesAssumption DEF IInv, Create, RevsFrom
<1>1. rev' \in Nat /\ rev' >= rev
  BY DEF TypeOK
<1>2. TypeOK'
  BY <1>1 DEF TypeOK
<1>3. InPast'
  BY <1>1, <1>2 DEF InPast, TypeOK, Request
<1>4. Covered'
  BY DEF Covered, TypeOK
<1>. QED BY <1>2, <1>3, <1>4

\* A new generation covers every page at once: none is of this lifetime.
LEMMA NextLifetimeIInv ==
  ASSUME IInv, NextLifetime
  PROVE  IInv'
<1> USE TombstonesAssumption DEF IInv, NextLifetime, NoTombs
<1>1. TypeOK'
  BY DEF TypeOK
<1>2. InPast'
  BY DEF InPast, TypeOK, Request
<1>3. \A r \in Requests : reqs'[r].gen # gen'
  BY DEF InPast, TypeOK, Request
<1>4. Covered'
  BY <1>3 DEF Covered
<1>. QED BY <1>1, <1>2, <1>4

\* A page is read from the server and so holds nothing the client has removed.
LEMMA AnswerIInv ==
  ASSUME IInv, NEW r \in Requests, NEW page \in SUBSET Ids, Answer(r, page)
  PROVE  IInv'
<1> USE DEF IInv, Answer
<1>1. TypeOK'
  BY DEF TypeOK, Request
<1>2. InPast'
  BY <1>1 DEF InPast, TypeOK, Request
<1>3. Covered'
  BY DEF Covered, TypeOK, Request
<1>. QED BY <1>1, <1>2, <1>3

LEMMA NextIInv == IInv /\ [Next]_vars => IInv'
<1> SUFFICES ASSUME IInv, [Next]_vars PROVE IInv'
  OBVIOUS
<1>1. ASSUME NEW ids \in SUBSET Ids, ServerDelete(ids) PROVE IInv'
  BY <1>1 DEF ServerDelete, IInv, TypeOK, InPast, Covered
<1>2. ASSUME NEW ids \in SUBSET Ids, Remove(ids) PROVE IInv'
  BY <1>2, RemoveIInv
<1>3. ASSUME NEW id \in Ids, Create(id) PROVE IInv'
  BY <1>3, CreateIInv
<1>4. CASE Touch
  <2>1. rev' \in Nat /\ rev' >= rev
    BY <1>4, TombstonesAssumption DEF Touch, RevsFrom, IInv, TypeOK
  <2>2. TypeOK'
    BY <1>4, <2>1 DEF Touch, IInv, TypeOK
  <2>3. InPast'
    BY <1>4, <2>1, <2>2 DEF Touch, IInv, InPast, TypeOK, Request
  <2>. QED BY <1>4, <2>2, <2>3 DEF Touch, IInv, Covered
<1>5. CASE NextLifetime
  BY <1>5, NextLifetimeIInv
<1>6. ASSUME NEW r \in Requests, Ask(r) PROVE IInv'
  BY <1>6 DEF Ask, IInv, TypeOK, InPast, Covered, Request
<1>7. ASSUME NEW r \in Requests, NEW page \in SUBSET Ids, Answer(r, page) PROVE IInv'
  BY <1>7, AnswerIInv
<1>8. ASSUME NEW r \in Requests, Discard(r) PROVE IInv'
  BY <1>8 DEF Discard, IInv, TypeOK, InPast, Covered, Request, NoRequest
<1>9. ASSUME NEW r \in Requests, Install(r) PROVE IInv'
  <2>1. rev' \in Nat /\ rev' >= rev
    BY <1>9, TombstonesAssumption DEF Install, RevsFrom, IInv, TypeOK
  <2>2. TypeOK'
    BY <1>9, <2>1 DEF Install, IInv, TypeOK, Request, NoRequest
  <2>3. InPast'
    BY <1>9, <2>1, <2>2 DEF Install, IInv, InPast, TypeOK, Request, NoRequest
  <2>. QED BY <1>9, <2>2, <2>3 DEF Install, IInv, Covered, NoRequest, TypeOK
<1>10. CASE UNCHANGED vars
  BY <1>10 DEF vars, IInv, TypeOK, InPast, Covered
<1>. QED BY <1>1, <1>2, <1>3, <1>4, <1>5, <1>6, <1>7, <1>8, <1>9, <1>10 DEF Next

\* Revisions, tombstones and pages are well-typed and every installable page is
\* covered, in every behaviour.
THEOREM Invariance == Spec => []IInv
BY InitIInv, NextIInv, PTL DEF Spec

\* One step of a request adds to the cache only messages without a tombstone,
\* and a covered page of this lifetime has one for each message in `gone'.
LEMMA StepNoResurrection ==
  IInv /\ [Next]_vars => (reqs' # reqs => (cached' \cap gone) \subseteq cached)
<1> SUFFICES ASSUME IInv, Next, reqs' # reqs
             PROVE  (cached' \cap gone) \subseteq cached
  BY DEF vars
<1>1. ASSUME NEW r \in Requests, Install(r)
      PROVE  (cached' \cap gone) \subseteq cached
  <2> SUFFICES ASSUME NEW i \in cached' \cap gone, i \notin cached PROVE FALSE
    OBVIOUS
  <2>1. i \in reqs[r].page /\ tomb[i] = 0 /\ reqs[r].phase = "answered" /\ reqs[r].gen = gen
        /\ pruned <= reqs[r].rev
    BY <1>1 DEF Install, Usable
  <2>2. tomb[i] > reqs[r].rev \/ pruned > reqs[r].rev
    BY <2>1 DEF IInv, Covered
  <2>3. reqs[r].rev \in Nat /\ pruned \in Nat
    BY DEF IInv, TypeOK, Request
  <2>. QED BY <2>1, <2>2, <2>3
<1>2. ASSUME NEW r \in Requests, Ask(r) \/ Discard(r) PROVE cached' = cached
  BY <1>2 DEF Ask, Discard
<1>3. ASSUME NEW r \in Requests, NEW page \in SUBSET Ids, Answer(r, page)
      PROVE  cached' = cached
  BY <1>3 DEF Answer
<1>. QED BY <1>1, <1>2, <1>3 DEF Next, ServerDelete, Remove, Create, Touch, NextLifetime

\* No history request ever brings back a message the client has removed, for
\* any number of messages and requests, and however tombstones are evicted.
THEOREM DeletedStaysDeleted == Spec => NoStaleResurrection
<1>1. IInv /\ [Next]_vars => [reqs' # reqs => (cached' \cap gone) \subseteq cached]_vars
  BY StepNoResurrection
<1>. QED BY <1>1, Invariance, PTL DEF Spec, NoStaleResurrection

(***************************************************************************)
(* The load gate: the loaders that are current are one if it is pending,   *)
(* and none if it is open.                                                 *)
(***************************************************************************)

\* The initial state, with an open gate and idle loaders, satisfies LG!IInv.
LEMMA InitGate == LG!Init => LG!IInv
BY DEF LG!Init, LG!IInv, LG!TypeOK, LG!TokenPast, LG!OneCurrent, LG!PendingOwned, LG!Current, LG!Running,
       LG!NewGate, LG!Idle, LG!Gate, LG!Token

\* Taking an open gate makes its loader the one current loader, whichever of
\* begin and beginOlder let it in.
LEMMA TakeGate ==
  ASSUME LG!IInv, NEW l \in Loaders, ~ gate.pending, LG!Take(l)
  PROVE  LG!IInv'
<1> USE DEF LG!IInv, LG!TypeOK, LG!Gate, LG!Token, LG!Idle, LG!Running
<1>1. \A k \in Loaders : ~ LG!Current(k)
  BY DEF LG!PendingOwned
<1>2. LG!TypeOK'
  BY DEF LG!Take
<1>3. \A k \in Loaders : LG!Current(k)' <=> k = l
  BY <1>1 DEF LG!Take, LG!Current
<1>4. LG!TokenPast'
  BY DEF LG!Take, LG!TokenPast
<1>5. LG!OneCurrent'
  BY <1>3 DEF LG!OneCurrent
<1>6. LG!PendingOwned'
  BY <1>3 DEF LG!PendingOwned, LG!Take
<1>. QED BY <1>2, <1>4, <1>5, <1>6

\* A completion leaves no loader current if it was, and changes nothing else.
LEMMA FinishGate ==
  ASSUME LG!IInv, NEW l \in Loaders, NEW loaded \in BOOLEAN, NEW exhausted \in BOOLEAN,
         LG!Finish(l, loaded, exhausted)
  PROVE  LG!IInv'
<1> USE DEF LG!IInv, LG!TypeOK, LG!Gate, LG!Token, LG!Idle, LG!Running
<1>1. LG!TypeOK'
  BY DEF LG!Finish
<1>2. gate'.version = gate.version
  BY DEF LG!Finish
<1>3. \A k \in Loaders : LG!Current(k)' <=> LG!Current(k) /\ k # l
  BY <1>2 DEF LG!Finish, LG!Current
<1>4. LG!TokenPast'
  BY <1>2 DEF LG!Finish, LG!TokenPast
<1>5. LG!OneCurrent'
  BY <1>3 DEF LG!OneCurrent
<1>6. LG!PendingOwned'
  <2>1. CASE LG!Current(l)
    BY <2>1, <1>3 DEF LG!Finish, LG!PendingOwned, LG!OneCurrent
  <2>2. CASE ~ LG!Current(l)
    BY <2>2, <1>3 DEF LG!Finish, LG!PendingOwned
  <2>. QED BY <2>1, <2>2
<1>. QED BY <1>1, <1>4, <1>5, <1>6

\* A new version makes every running load stale at once.
LEMMA VersionGate ==
  ASSUME LG!IInv, gate' \in LG!Gate, gate'.version = gate.version + 1, ~ gate'.pending,
         UNCHANGED token
  PROVE  LG!IInv'
<1> USE DEF LG!IInv, LG!TypeOK, LG!Gate, LG!Token, LG!Running
<1>1. LG!TypeOK'
  OBVIOUS
<1>2. LG!TokenPast'
  BY DEF LG!TokenPast
<1>3. \A k \in Loaders : ~ LG!Current(k)'
  BY DEF LG!TokenPast, LG!Current
<1>4. LG!OneCurrent' /\ LG!PendingOwned'
  BY <1>3 DEF LG!OneCurrent, LG!PendingOwned
<1>. QED BY <1>1, <1>2, <1>4

\* Every step preserves the invariant.
LEMMA NextGate == LG!IInv /\ [LG!Next]_LG!vars => LG!IInv'
<1> SUFFICES ASSUME LG!IInv, [LG!Next]_LG!vars PROVE LG!IInv'
  OBVIOUS
<1>1. ASSUME NEW l \in Loaders, LG!Begin(l) PROVE LG!IInv'
  BY <1>1, TakeGate DEF LG!Begin, LG!MayBegin
<1>2. ASSUME NEW l \in Loaders, LG!BeginOlder(l) PROVE LG!IInv'
  BY <1>2, TakeGate DEF LG!BeginOlder
<1>3. ASSUME NEW l \in Loaders, NEW loaded \in BOOLEAN, NEW exhausted \in BOOLEAN,
             LG!Finish(l, loaded, exhausted)
      PROVE  LG!IInv'
  BY <1>3, FinishGate
<1>4. CASE LG!Exhaust
  BY <1>4 DEF LG!Exhaust, LG!IInv, LG!TypeOK, LG!TokenPast, LG!OneCurrent, LG!PendingOwned, LG!Current,
              LG!Running, LG!Gate
<1>5. CASE LG!MarkLoaded
  <2>1. gate \in LG!Gate
    BY DEF LG!IInv, LG!TypeOK
  <2>2. gate.version + 1 \in Nat
    BY <2>1 DEF LG!Gate
  <2>3. gate' \in LG!Gate
    BY <1>5, <2>1, <2>2 DEF LG!MarkLoaded, LG!Gate
  <2>4. gate'.version = gate.version + 1 /\ gate'.pending = FALSE
    BY <1>5, <2>1 DEF LG!MarkLoaded, LG!Gate
  <2>. QED BY <1>5, <2>3, <2>4, VersionGate DEF LG!MarkLoaded
<1>6. CASE LG!Invalidate
  <2>1. gate \in LG!Gate
    BY DEF LG!IInv, LG!TypeOK
  <2>2. gate.version + 1 \in Nat
    BY <2>1 DEF LG!Gate
  <2>3. gate' \in LG!Gate
    BY <1>6, <2>1, <2>2 DEF LG!Invalidate, LG!NextVersion, LG!NewGate, LG!Gate
  <2>4. gate'.version = gate.version + 1 /\ gate'.pending = FALSE
    BY <1>6, <2>1 DEF LG!Invalidate, LG!NextVersion, LG!NewGate, LG!Gate
  <2>. QED BY <1>6, <2>3, <2>4, VersionGate DEF LG!Invalidate
<1>7. CASE UNCHANGED LG!vars
  BY <1>7 DEF LG!vars, LG!IInv, LG!TypeOK, LG!TokenPast, LG!OneCurrent, LG!PendingOwned, LG!Current, LG!Running
<1>. QED BY <1>1, <1>2, <1>3, <1>4, <1>5, <1>6, <1>7 DEF LG!Next

\* The strengthened invariant of the gate holds in every behaviour, fair or not:
\* a specification that implements the safe part inherits it.
THEOREM GateInvariance == LG!Safe => []LG!IInv
BY InitGate, NextGate, PTL DEF LG!Safe

\* However many loaders there are, two loads whose completions would both be
\* accepted never run at once.
THEOREM OneLoadAtATime == LG!Spec => []LG!OneCurrent
<1>1. LG!IInv => LG!OneCurrent
  BY DEF LG!IInv
<1>. QED BY <1>1, GateInvariance, PTL DEF LG!Spec

\* The gate is never left pending without a load that will still open it, nor
\* open while one runs.
THEOREM NeverStuck == LG!Spec => []LG!PendingOwned
<1>1. LG!IInv => LG!PendingOwned
  BY DEF LG!IInv
<1>. QED BY <1>1, GateInvariance, PTL DEF LG!Spec
=============================================================================
