--------------------------- MODULE TimelineProofs ---------------------------
(***************************************************************************)
(* The timeline uses its two mechanisms as their theorems need, for any    *)
(* messages, requests, page sizes and bounds: Timeline implements LoadGate *)
(* and Tombstones, so that one load at a time runs and deleted messages    *)
(* stay deleted.  The invariant behind the second also shows that what     *)
(* changes the messages moves the revision the transcript is kept under.   *)
(***************************************************************************)
EXTENDS TimelineRefinement, FiniteSetTheorems, SequenceTheorems, NaturalsInduction,
        WellFoundedInduction, TLAPS

-----------------------------------------------------------------------------
(* The events under way                                                    *)

\* A sequence of anything is a sequence of its own elements.
LEMMA OwnElements ==
  ASSUME NEW S, NEW w \in Seq(S)
  PROVE  w \in Seq(ToSet(w))
BY DEF ToSet

\* An appended event is one of the new elements.
LEMMA AppendOwnElements ==
  ASSUME NEW S, NEW w \in Seq(S), NEW e
  PROVE  Append(w, e) \in Seq(ToSet(Append(w, e)))
<1>1. w \in Seq(S \cup {e})
  BY SeqMonotonic
<1>2. Append(w, e) \in Seq(S \cup {e})
  BY <1>1
<1>. QED BY <1>2, OwnElements

\* The lifetime events of a sequence are finitely many.
LEMMA CountIsNat ==
  ASSUME NEW S, NEW w \in Seq(S)
  PROVE  IsFiniteSet(LifetimeEvents(w)) /\ Cardinality(LifetimeEvents(w)) \in Nat
<1>1. LifetimeEvents(w) \in SUBSET (1 .. Len(w)) /\ Len(w) \in Nat
  BY DEF LifetimeEvents
<1>2. IsFiniteSet(1 .. Len(w))
  BY <1>1, FS_Interval
<1>3. IsFiniteSet(LifetimeEvents(w))
  BY <1>1, <1>2, FS_Subset
<1>. QED BY <1>3, FS_CardinalityType

\* Sending an event adds it to the lifetime events, or leaves them alone.
LEMMA CountAppend ==
  ASSUME NEW S, NEW w \in Seq(S), NEW e
  PROVE  IF e.type \in {"channelDelete", "channelCreate"}
         THEN Cardinality(LifetimeEvents(Append(w, e))) = Cardinality(LifetimeEvents(w)) + 1
         ELSE LifetimeEvents(Append(w, e)) = LifetimeEvents(w)
<1> DEFINE n == Len(w) + 1
<1>1. n \in Nat /\ n \notin LifetimeEvents(w)
  BY DEF LifetimeEvents
<1>2. /\ DOMAIN Append(w, e) = DOMAIN w \cup {n}
      /\ Append(w, e)[n] = e
      /\ \A k \in DOMAIN w : Append(w, e)[k] = w[k]
  OBVIOUS
<1>3. CASE e.type \in {"channelDelete", "channelCreate"}
  <2>1. LifetimeEvents(Append(w, e)) = LifetimeEvents(w) \cup {n}
    BY <1>2, <1>3 DEF LifetimeEvents
  <2>. QED BY <1>1, <1>3, <2>1, CountIsNat, FS_AddElement
<1>4. CASE e.type \notin {"channelDelete", "channelCreate"}
  <2>1. LifetimeEvents(Append(w, e)) = LifetimeEvents(w)
    BY <1>2, <1>4 DEF LifetimeEvents
  <2>. QED BY <1>4, <2>1
<1>. QED BY <1>3, <1>4

\* Taking an event leaves no more lifetime events, and one less if it was one.
LEMMA CountTail ==
  ASSUME NEW S, NEW w \in Seq(S), w # <<>>
  PROVE  /\ Cardinality(LifetimeEvents(Tail(w))) <= Cardinality(LifetimeEvents(w))
         /\ LifetimeEvents(w) = {} => LifetimeEvents(Tail(w)) = {}
         /\ Head(w).type \in {"channelDelete", "channelCreate"} =>
              /\ LifetimeEvents(w) # {}
              /\ Cardinality(LifetimeEvents(Tail(w))) + 1 <= Cardinality(LifetimeEvents(w))
<1> DEFINE rest == LifetimeEvents(w) \ {1}
           shift == [k \in LifetimeEvents(Tail(w)) |-> k + 1]
<1>1. /\ Len(w) \in Nat /\ Len(w) > 0 /\ DOMAIN w = 1 .. Len(w)
      /\ Tail(w) \in Seq(S) /\ DOMAIN Tail(w) = 1 .. Len(w) - 1
      /\ \A k \in DOMAIN Tail(w) : Tail(w)[k] = w[k + 1]
      /\ Head(w) = w[1]
  BY HeadTailProperties
<1>2. \A k \in LifetimeEvents(Tail(w)) : k \in Nat /\ k + 1 \in rest
  BY <1>1 DEF LifetimeEvents
<1>3. shift \in Injection(LifetimeEvents(Tail(w)), rest)
  BY <1>2 DEF Injection, IsInjective
<1>4. /\ IsFiniteSet(rest)
      /\ Cardinality(rest) = IF 1 \in LifetimeEvents(w) THEN Cardinality(LifetimeEvents(w)) - 1
                             ELSE Cardinality(LifetimeEvents(w))
  BY CountIsNat, FS_RemoveElement
<1>5. Cardinality(LifetimeEvents(Tail(w))) <= Cardinality(rest)
  BY <1>3, <1>4, FS_Injection
<1>6. Cardinality(LifetimeEvents(Tail(w))) \in Nat /\ Cardinality(LifetimeEvents(w)) \in Nat
  BY <1>1, CountIsNat
<1>7. Head(w).type \in {"channelDelete", "channelCreate"} => 1 \in LifetimeEvents(w)
  BY <1>1 DEF LifetimeEvents
<1>8. LifetimeEvents(w) = {} => LifetimeEvents(Tail(w)) = {}
  BY <1>2
<1>. QED BY <1>4, <1>5, <1>6, <1>7, <1>8

-----------------------------------------------------------------------------
(* The invariant                                                           *)

\* The timeline starts with an open gate, no request and nothing under way.
LEMMA InitGate ==
  ASSUME Init
  PROVE  GateIInv /\ LG!Init
<1>1. gate = NewGate /\ reqs = [r \in Requests |-> NoRequest] /\ life = FirstLifetime /\ wire = <<>>
  BY DEF Init, NewStore, LastLive
<1>2. \A r \in Requests : ~ InFlight(r)
  BY <1>1 DEF InFlight, NoRequest
<1>3. WireBounded
  BY <1>1 DEF WireBounded, LifetimeEvents
<1>4. GateIInv
  BY <1>1, <1>2, <1>3 DEF GateIInv, NewGate, Gate, FirstLifetime, Lifetime
<1>5. LG!Init
  BY <1>1, <1>2 DEF LG!Init, LG!NewGate, LG!Idle, NewGate, Tokens, TokenOf
<1>. QED BY <1>4, <1>5

\* An event that leaves the lifetime alone is sent.
LEMMA WireGrows ==
  ASSUME GateIInv, UNCHANGED life, NEW e, Emit(e),
         e.type \notin {"channelDelete", "channelCreate"}
  PROVE  WireBounded'
<1>1. wire' \in Seq(ToSet(wire)')
  BY AppendOwnElements DEF GateIInv, WireBounded, Emit
<1>2. LifetimeEvents(wire)' = LifetimeEvents(wire)
  BY CountAppend DEF GateIInv, WireBounded, Emit
<1>. QED BY <1>1, <1>2 DEF GateIInv, WireBounded, Lifetimes

\* The channel is closed or opened: its bound leaves room for one more.
LEMMA WireEnds ==
  ASSUME GateIInv, UNCHANGED life, NEW e, Emit(e),
         e.type \in {"channelDelete", "channelCreate"}, Lifetimes < MaxLifetimes
  PROVE  WireBounded'
<1>1. wire' \in Seq(ToSet(wire)')
  BY AppendOwnElements DEF GateIInv, WireBounded, Emit
<1>2. Cardinality(LifetimeEvents(wire)') = Cardinality(LifetimeEvents(wire)) + 1
  BY CountAppend DEF GateIInv, WireBounded, Emit
<1>3. Cardinality(LifetimeEvents(wire)) \in Nat /\ life.gen \in Nat /\ MaxLifetimes \in Nat
  BY CountIsNat, TimelineAssumption DEF GateIInv, WireBounded, Lifetime
<1>4. Lifetimes' <= MaxLifetimes
  BY <1>2, <1>3 DEF Lifetimes
<1>. QED BY <1>1, <1>4 DEF WireBounded

\* An event is handled or lost.  Handling the end or the beginning of a lifetime
\* uses up the room its sending took.
LEMMA WireShrinks ==
  ASSUME GateIInv, wire # <<>>, wire' = Tail(wire), life'.gen \in Nat,
         \/ life'.gen <= life.gen
         \/ Head(wire).type \in {"channelDelete", "channelCreate"} /\ life'.gen <= life.gen + 1
  PROVE  WireBounded'
<1>1. wire' \in Seq(ToSet(wire)) /\ wire \in Seq(ToSet(wire))
  BY DEF GateIInv, WireBounded
<1>2. Cardinality(LifetimeEvents(wire)) \in Nat /\ Cardinality(LifetimeEvents(wire)') \in Nat
  BY <1>1, CountIsNat
<1>3. life.gen \in Nat /\ MaxLifetimes \in Nat
  BY TimelineAssumption DEF GateIInv, Lifetime
<1>4. ASSUME LifetimeEvents(wire)' # {} PROVE Lifetimes' <= MaxLifetimes
  <2>1. LifetimeEvents(wire) # {}
    BY <1>1, <1>4, CountTail
  <2>2. life.gen + Cardinality(LifetimeEvents(wire)) <= MaxLifetimes
    BY <2>1 DEF GateIInv, WireBounded, Lifetimes
  <2>3. life'.gen + Cardinality(LifetimeEvents(wire)')
          <= life.gen + Cardinality(LifetimeEvents(wire))
    <3>1. CASE life'.gen <= life.gen
      BY <1>1, <1>2, <1>3, <3>1, CountTail
    <3>2. CASE Head(wire).type \in {"channelDelete", "channelCreate"}
               /\ life'.gen <= life.gen + 1
      <4>1. Cardinality(LifetimeEvents(wire)') + 1 <= Cardinality(LifetimeEvents(wire))
        BY <1>1, <3>2, CountTail
      <4>. QED BY <1>2, <1>3, <3>2, <4>1
    <3>. QED BY <3>1, <3>2
  <2>. QED BY <1>2, <1>3, <2>2, <2>3 DEF Lifetimes
<1>5. wire' \in Seq(ToSet(wire)')
  BY <1>1, OwnElements
<1>. QED BY <1>4, <1>5 DEF WireBounded

-----------------------------------------------------------------------------
(* The steps                                                               *)

\* A step that leaves the wire alone keeps its bound.
LEMMA WireStays ==
  ASSUME GateIInv, UNCHANGED <<life, wire>>
  PROVE  WireBounded'
BY DEF GateIInv, WireBounded, Lifetimes, LifetimeEvents, ToSet

\* A step that leaves the gate, the lifetime and the requests alone is a
\* stuttering step of the gate.
LEMMA Apart ==
  ASSUME GateIInv, UNCHANGED <<gate, life, reqs>>, WireBounded'
  PROVE  GateIInv' /\ UNCHANGED LG!vars
<1>1. GateIInv'
  BY DEF GateIInv, BeganBefore, InFlight
<1>2. Tokens' = Tokens
  BY DEF Tokens, TokenOf, InFlight
<1>. QED BY <1>1, <1>2 DEF LG!vars

\* A request begins under the gate's version, in a lifetime that has begun.
LEMMA Begins ==
  ASSUME GateIInv, NEW r \in Requests, NEW kind, NEW before,
         life.known, reqs[r] = NoRequest, gate' = [gate EXCEPT !.pending = TRUE],
         reqs' = [reqs EXCEPT ![r] = NewRequest(kind, before)],
         UNCHANGED <<life, wire>>
  PROVE  GateIInv' /\ LG!Take(r)
<1> DEFINE q == NewRequest(kind, before)
<1>1. /\ DOMAIN q = {"phase", "kind", "rev", "gen", "ver", "before", "page"}
      /\ q.phase = "asked" /\ q.gen = life.gen /\ q.ver = gate.version
  BY DEF NewRequest
<1>2. gate \in Gate /\ gate' \in Gate /\ gate'.version = gate.version
  BY DEF GateIInv, Gate
<1>3. /\ DOMAIN reqs' = Requests /\ reqs'[r] = q
      /\ \A k \in Requests \ {r} : reqs'[k] = reqs[k]
  BY DEF GateIInv
<1>4. \A k \in Requests : InFlight(k)' => BeganBefore(k)'
  <2>1. BeganBefore(r)'
    BY <1>1, <1>2, <1>3 DEF BeganBefore, Gate
  <2>2. \A k \in Requests \ {r} : InFlight(k)' => BeganBefore(k)'
    BY <1>2, <1>3 DEF GateIInv, InFlight, BeganBefore
  <2>. QED BY <2>1, <2>2
<1>5. GateIInv'
  BY <1>2, <1>3, <1>4, WireStays DEF GateIInv
<1>6. ~ InFlight(r) /\ InFlight(r)'
  BY <1>1, <1>3 DEF InFlight, NoRequest
<1>7. Tokens' = [Tokens EXCEPT ![r] = [running |-> TRUE, version |-> gate.version]]
  BY <1>1, <1>3, <1>6 DEF Tokens, TokenOf, InFlight
<1>8. ~ LG!Running(r)
  BY <1>6 DEF LG!Running, Tokens, TokenOf
<1>. QED BY <1>5, <1>7, <1>8 DEF LG!Take

\* A reply that travels changes nothing the gate sees.
LEMMA Replies ==
  ASSUME GateIInv, NEW r \in Requests, NEW q, InFlight(r),
         DOMAIN q = DOMAIN reqs[r], q.phase \in {"asked", "answered", "refused"},
         q.gen = reqs[r].gen, q.ver = reqs[r].ver,
         reqs' = [reqs EXCEPT ![r] = q], UNCHANGED <<gate, life, wire>>
  PROVE  GateIInv' /\ UNCHANGED LG!vars
<1>1. /\ DOMAIN reqs' = Requests /\ reqs'[r] = q
      /\ \A k \in Requests \ {r} : reqs'[k] = reqs[k]
  BY DEF GateIInv
<1>2. \A k \in Requests : InFlight(k)' => BeganBefore(k)'
  BY <1>1 DEF GateIInv, InFlight, BeganBefore
<1>3. GateIInv'
  BY <1>1, <1>2, WireStays DEF GateIInv
<1>4. \A k \in Requests : TokenOf(k)' = TokenOf(k)
  BY <1>1 DEF TokenOf, InFlight
<1>. QED BY <1>3, <1>4 DEF LG!vars, Tokens

\* A completion frees its token.  It is stale for the timeline, by the version or
\* by the generation, exactly if it is stale for the gate, by the version alone.
LEMMA Completes ==
  ASSUME GateIInv, NEW r \in Requests, CompleteRequest(r)
  PROVE  GateIInv' /\ \E loaded, exhausted \in BOOLEAN : LG!Finish(r, loaded, exhausted)
<1>1. /\ DOMAIN reqs' = Requests /\ reqs'[r] = Spent
      /\ \A k \in Requests \ {r} : reqs'[k] = reqs[k]
  BY DEF GateIInv, CompleteRequest
<1>2. InFlight(r) /\ ~ InFlight(r)'
  BY <1>1 DEF CompleteRequest, InFlight, Spent
<1>3. Tokens' = [Tokens EXCEPT ![r] = LG!Idle]
  BY <1>1, <1>2 DEF Tokens, TokenOf, InFlight, LG!Idle
<1>4. LG!Running(r) /\ (LG!Current(r) <=> ~ Stale(r))
  BY <1>2 DEF GateIInv, BeganBefore, LG!Running, LG!Current, Tokens, TokenOf, Stale
<1>5. \E loaded, exhausted \in BOOLEAN :
        IF Stale(r) THEN UNCHANGED gate ELSE FinishLoad(loaded, exhausted)
  <2>1. CASE Stale(r)
    BY <2>1 DEF CompleteRequest
  <2>2. CASE ~ Stale(r) /\ FinishLoad(FALSE, FALSE)
    BY <2>2
  <2>3. CASE ~ Stale(r) /\ InstallPage(r)
    <3>1. Short(r) \in BOOLEAN
      BY DEF Short
    <3>2. \E loaded \in BOOLEAN : FinishLoad(loaded, Short(r))
      BY <2>3 DEF InstallPage
    <3>. QED BY <2>3, <3>1, <3>2
  <2>. QED BY <2>1, <2>2, <2>3 DEF CompleteRequest
<1>6. /\ gate' \in Gate /\ gate'.version = gate.version
      /\ \E loaded, exhausted \in BOOLEAN : LG!Finish(r, loaded, exhausted)
  BY <1>3, <1>4, <1>5 DEF GateIInv, Gate, FinishLoad, LG!Finish
<1>7. \A k \in Requests : InFlight(k)' => BeganBefore(k)'
  BY <1>1, <1>2, <1>6 DEF GateIInv, InFlight, BeganBefore, CompleteRequest
<1>8. GateIInv'
  BY <1>1, <1>6, <1>7, WireStays DEF GateIInv, CompleteRequest
<1>. QED BY <1>6, <1>8

\* The channel's end: every request becomes stale, and the version stays below
\* the bound because this event was counted when it was sent.
LEMMA Ends ==
  ASSUME GateIInv, wire # <<>>, wire' = Tail(wire), Head(wire).type = "channelDelete",
         HandleChannelDelete, UNCHANGED reqs
  PROVE  GateIInv' /\ LG!Invalidate
<1>1. /\ life'.gen = life.gen + 1 /\ life' \in Lifetime /\ ~ life'.known
      /\ life.gen \in Nat
  BY DEF GateIInv, HandleChannelDelete, EndLifetime, Lifetime
<1>2. /\ gate \in Gate /\ gate' \in Gate /\ gate'.version = gate.version + 1
      /\ gate' = LG!NextVersion
  <2>1. gate \in Gate /\ gate.version + 1 \in Nat
    BY DEF GateIInv, Gate
  <2>2. gate' = [NewGate EXCEPT !.version = gate.version + 1]
    BY DEF HandleChannelDelete, Invalidate
  <2>3. gate' \in Gate /\ gate'.version = gate.version + 1
    BY <2>1, <2>2 DEF NewGate, Gate
  <2>4. gate' = LG!NextVersion
    BY <2>2 DEF NewGate, LG!NextVersion, LG!NewGate
  <2>. QED BY <2>1, <2>3, <2>4
<1>3. WireBounded'
  BY <1>1, WireShrinks
<1>4. \A r \in Requests : InFlight(r)' => BeganBefore(r)'
  BY <1>2 DEF GateIInv, InFlight, BeganBefore, Gate
<1>5. GateIInv'
  BY <1>1, <1>2, <1>3, <1>4 DEF GateIInv, Gate
<1>6. gate.version < MaxLifetimes
  <2>1. wire \in Seq(ToSet(wire)) /\ (LifetimeEvents(wire) # {} => Lifetimes <= MaxLifetimes)
    BY DEF GateIInv, WireBounded
  <2>2. Lifetimes <= MaxLifetimes
    BY <2>1, CountTail
  <2>3. Cardinality(LifetimeEvents(wire)) \in Nat
    BY <2>1, CountIsNat
  <2>. QED BY <1>1, <1>2, <2>2, <2>3, TimelineAssumption DEF GateIInv, Gate, Lifetimes
<1>7. UNCHANGED Tokens
  BY DEF Tokens, TokenOf, InFlight
<1>. QED BY <1>2, <1>5, <1>6, <1>7 DEF LG!Invalidate

\* The channel's return: only a channel that was gone gets a new generation, and
\* then no request that is under way has the gate's version.
LEMMA Returns ==
  ASSUME GateIInv, wire # <<>>, wire' = Tail(wire), Head(wire).type = "channelCreate",
         HandleChannelUpsert(Head(wire)), UNCHANGED reqs
  PROVE  GateIInv' /\ UNCHANGED LG!vars
<1>1. /\ life.gen \in Nat /\ life' \in Lifetime /\ life'.known
      /\ life'.gen = IF life.known THEN life.gen ELSE life.gen + 1
  BY DEF GateIInv, HandleChannelUpsert, BeginLifetime, Lifetime
<1>2. gate' = gate /\ gate.version \in Nat
  BY DEF GateIInv, HandleChannelUpsert, Gate
<1>3. WireBounded'
  BY <1>1, WireShrinks DEF Lifetime
<1>4. \A r \in Requests : InFlight(r)' => BeganBefore(r)'
  BY <1>1, <1>2 DEF GateIInv, InFlight, BeganBefore
<1>5. GateIInv'
  BY <1>1, <1>2, <1>3, <1>4 DEF GateIInv
<1>6. UNCHANGED Tokens
  BY DEF Tokens, TokenOf, InFlight
<1>. QED BY <1>2, <1>5, <1>6 DEF LG!vars

\* A message event that is handled or lost.
LEMMA MessageEvents ==
  ASSUME GateIInv, wire # <<>>, wire' = Tail(wire), UNCHANGED <<gate, life, reqs>>
  PROVE  GateIInv' /\ UNCHANGED LG!vars
<1>1. life'.gen \in Nat /\ life'.gen <= life.gen
  BY DEF GateIInv, Lifetime
<1>. QED BY <1>1, WireShrinks, Apart

\* What the gateway's handlers do to the gate.
LEMMA Events ==
  ASSUME GateIInv, HandleEvent
  PROVE  GateIInv' /\ (LG!Next \/ UNCHANGED LG!vars)
<1> DEFINE e == Head(wire)
<1>1. wire # <<>> /\ wire' = Tail(wire) /\ UNCHANGED reqs
  BY DEF HandleEvent
<1>2. CASE e.type = "channelDelete" /\ HandleChannelDelete
  BY <1>1, <1>2, Ends DEF LG!Next
<1>3. CASE e.type = "channelCreate" /\ HandleChannelUpsert(e)
  BY <1>1, <1>3, Returns
<1>4. CASE HandleMessageCreate(e) \/ HandleMessageUpdate(e) \/ HandleMessageDelete(e)
  BY <1>1, <1>4, MessageEvents DEF HandleMessageCreate, HandleMessageUpdate, HandleMessageDelete
<1>. QED BY <1>2, <1>3, <1>4 DEF HandleEvent

\* What the server and the faults do to it.
LEMMA Environments ==
  ASSUME GateIInv, Environment
  PROVE  GateIInv' /\ UNCHANGED LG!vars
<1>1. CASE OthersPost
  BY <1>1, WireGrows, Apart DEF OthersPost, CreateEvent
<1>2. ASSUME NEW id \in Ids, ServerEdits(id) PROVE GateIInv' /\ UNCHANGED LG!vars
  BY <1>2, WireGrows, Apart DEF ServerEdits
<1>3. ASSUME NEW id \in Ids, RestDeletes(id) PROVE GateIInv' /\ UNCHANGED LG!vars
  BY <1>3, WireGrows, Apart DEF RestDeletes
<1>4. ASSUME NEW id \in Ids, Redeliver(id) PROVE GateIInv' /\ UNCHANGED LG!vars
  BY <1>4, WireGrows, Apart DEF Redeliver, CreateEvent
<1>5. ASSUME NEW ids \in SUBSET Ids, ServerDeletes(ids) PROVE GateIInv' /\ UNCHANGED LG!vars
  BY <1>5, WireGrows, Apart DEF ServerDeletes
<1>6. CASE ServerCloses
  BY <1>6, WireEnds, Apart DEF ServerCloses
<1>7. CASE ServerOpens
  BY <1>7, WireEnds, Apart DEF ServerOpens
<1>8. CASE DropEvent
  BY <1>8, MessageEvents DEF DropEvent
<1>9. ASSUME NEW r \in Requests, RequestFails(r) PROVE GateIInv' /\ UNCHANGED LG!vars
  <2> DEFINE q == [reqs[r] EXCEPT !.phase = "refused"]
  <2>1. InFlight(r) /\ BeganBefore(r)
    BY <1>9 DEF RequestFails, InFlight, GateIInv
  <2>2. /\ DOMAIN q = DOMAIN reqs[r] /\ q.phase = "refused"
        /\ q.gen = reqs[r].gen /\ q.ver = reqs[r].ver
    BY <2>1 DEF BeganBefore
  <2>3. reqs' = [reqs EXCEPT ![r] = q] /\ UNCHANGED <<gate, life, wire>>
    BY <1>9 DEF RequestFails
  <2>. QED BY <2>1, <2>2, <2>3, Replies
<1>10. ASSUME NEW n \in Nonces, ReplyLost(n) \/ EmptyReply(n) \/ SendFails(n)
       PROVE  GateIInv' /\ UNCHANGED LG!vars
  BY <1>10, WireStays, Apart DEF ReplyLost, EmptyReply, SendFails
<1>. QED BY <1>1, <1>2, <1>3, <1>4, <1>5, <1>6, <1>7, <1>8, <1>9, <1>10 DEF Environment

\* What the user does: a request that begins takes the gate, and one that finds
\* nothing to page closes it for good.
LEMMA Users ==
  ASSUME GateIInv, User
  PROVE  GateIInv' /\ (LG!Next \/ UNCHANGED LG!vars)
<1>1. ASSUME NEW n \in Nonces, Send(n) PROVE GateIInv' /\ UNCHANGED LG!vars
  BY <1>1, WireStays, Apart DEF Send
<1>2. ASSUME NEW r \in Requests, LoadHistory(r) PROVE GateIInv' /\ LG!Next
  <2>1. GateIInv' /\ LG!Take(r)
    BY <1>2, Begins DEF LoadHistory
  <2>. QED BY <1>2, <2>1 DEF LoadHistory, LG!Next, LG!Begin, LG!MayBegin
<1>3. ASSUME NEW r \in Requests, LoadOlderHistory(r) PROVE GateIInv' /\ LG!Next
  <2>1. /\ life.known /\ reqs[r] = NoRequest /\ ~ gate.pending /\ ~ gate.exhausted
        /\ UNCHANGED <<life, wire>>
    BY <1>3 DEF LoadOlderHistory
  <2>2. CASE gate' = [gate EXCEPT !.exhausted = TRUE] /\ UNCHANGED reqs
    <3>1. gate' \in Gate /\ gate'.version = gate.version
      BY <2>2 DEF GateIInv, Gate
    <3>2. GateIInv'
      BY <2>1, <2>2, <3>1, WireStays DEF GateIInv, InFlight, BeganBefore
    <3>3. UNCHANGED Tokens
      BY <2>2 DEF Tokens, TokenOf, InFlight
    <3>. QED BY <2>1, <2>2, <3>2, <3>3 DEF LG!Next, LG!Exhaust
  <2>3. CASE \E before : /\ gate' = [gate EXCEPT !.pending = TRUE]
                         /\ reqs' = [reqs EXCEPT ![r] = NewRequest("older", before)]
    <3>1. GateIInv' /\ LG!Take(r)
      BY <2>1, <2>3, Begins
    <3>. QED BY <2>1, <3>1 DEF LG!Next, LG!BeginOlder
  <2>. QED BY <1>3, <2>2, <2>3 DEF LoadOlderHistory
<1>. QED BY <1>1, <1>2, <1>3 DEF User

\* The calls that return.
LEMMA Calls ==
  ASSUME GateIInv,
         \/ \E n \in Nonces : SendStep(n)
         \/ \E r \in Requests : RequestStep(r)
         \/ \E id \in Ids : ApplyRestDelete(id)
  PROVE  GateIInv' /\ (LG!Next \/ UNCHANGED LG!vars)
<1>1. ASSUME NEW n \in Nonces, ServerAccepts(n) PROVE GateIInv' /\ UNCHANGED LG!vars
  BY <1>1, WireGrows, Apart DEF ServerAccepts, CreateEvent
<1>2. ASSUME NEW n \in Nonces, ServerRefuses(n) \/ ConfirmSend(n) \/ FailSend(n)
      PROVE  GateIInv' /\ UNCHANGED LG!vars
  BY <1>2, WireStays, Apart DEF ServerRefuses, ConfirmSend, FailSend
<1>3. ASSUME NEW id \in Ids, ApplyRestDelete(id) PROVE GateIInv' /\ UNCHANGED LG!vars
  BY <1>3, WireStays, Apart DEF ApplyRestDelete
<1>4. ASSUME NEW r \in Requests, ServerAnswers(r) PROVE GateIInv' /\ UNCHANGED LG!vars
  <2> DEFINE q == IF open THEN [reqs[r] EXCEPT !.phase = "answered",
                                               !.page = PageOf(reqs[r].before)]
                  ELSE [reqs[r] EXCEPT !.phase = "refused"]
  <2>1. InFlight(r) /\ BeganBefore(r)
    BY <1>4 DEF ServerAnswers, InFlight, GateIInv
  <2>2. /\ DOMAIN q = DOMAIN reqs[r] /\ q.phase \in {"answered", "refused"}
        /\ q.gen = reqs[r].gen /\ q.ver = reqs[r].ver
    BY <2>1 DEF BeganBefore
  <2>3. reqs' = [reqs EXCEPT ![r] = q] /\ UNCHANGED <<gate, life, wire>>
    BY <1>4 DEF ServerAnswers
  <2>. QED BY <2>1, <2>2, <2>3, Replies
<1>5. ASSUME NEW r \in Requests, CompleteRequest(r) PROVE GateIInv' /\ LG!Next
  BY <1>5, Completes DEF LG!Next
<1>. QED BY <1>1, <1>2, <1>3, <1>4, <1>5 DEF SendStep, RequestStep

\* Every step keeps the invariant and is a step of the gate, or leaves it alone.
LEMMA NextGate ==
  ASSUME GateIInv, [Next]_vars
  PROVE  GateIInv' /\ [LG!Next]_LG!vars
<1>1. CASE Environment
  BY <1>1, Environments
<1>2. CASE User
  BY <1>2, Users
<1>3. CASE HandleEvent
  BY <1>3, Events
<1>4. CASE \/ \E n \in Nonces : SendStep(n)
           \/ \E r \in Requests : RequestStep(r)
           \/ \E id \in Ids : ApplyRestDelete(id)
  BY <1>4, Calls
<1>5. CASE UNCHANGED vars
  BY <1>5, WireStays, Apart DEF vars
<1>. QED BY <1>1, <1>2, <1>3, <1>4, <1>5 DEF Next

-----------------------------------------------------------------------------
(* The theorems                                                            *)

\* Whatever the server, the socket, the user and the REST calls do, a request's
\* token is in the past, and no version outruns the channel's lifetimes.
THEOREM GateInvariance == Spec => []GateIInv
<1>1. Init => GateIInv
  BY InitGate
<1>2. GateIInv /\ [Next]_vars => GateIInv'
  BY NextGate
<1>. QED BY <1>1, <1>2, PTL DEF Spec

\* Every behaviour of the timeline is one of the gate: what HistoryProofs shows
\* of any loaders holds of history requests, their replies, failures and
\* lifetimes, for every number of them.
THEOREM GateRefinement == Spec => ImplementsLoadGate
<1>1. Init => LG!Init
  BY InitGate
<1>2. GateIInv /\ [Next]_vars => [LG!Next]_LG!vars
  BY NextGate
<1>. QED BY <1>1, <1>2, GateInvariance, PTL DEF Spec, ImplementsLoadGate, LG!Safe

-----------------------------------------------------------------------------
(* Finding the least, and climbing to it                                   *)

\* A set of naturals has a least element.
LEMMA Least ==
  ASSUME NEW T \in SUBSET Nat, T # {}
  PROVE  \E x \in T : \A y \in T : x <= y
<1>1. PICK x \in T : \A y \in T : ~ (<<y, x>> \in OpToRel(<, Nat))
  BY NatLessThanWellFounded, WFMin
<1>2. \A y \in T : ~ (y < x)
  BY <1>1 DEF OpToRel
<1>. QED BY <1>2

\* Induction over an interval, for the members of a set: the least number that
\* is not one of them would follow one that is.
LEMMA Climb ==
  ASSUME NEW n \in Nat, NEW P, 0 \in P,
         \A k \in Nat : k < n /\ k \in P => k + 1 \in P
  PROVE  n \in P
<1> DEFINE bad == {k \in 0 .. n : k \notin P}
<1> SUFFICES ASSUME n \notin P PROVE FALSE
  OBVIOUS
<1>1. bad \in SUBSET Nat /\ n \in bad
  OBVIOUS
<1>2. PICK m \in bad : \A k \in bad : m <= k
  <2> HIDE DEF bad
  <2>. QED BY <1>1, Least
<1>3. m \in 0 .. n /\ m \notin P /\ m # 0
  OBVIOUS
<1>4. m - 1 \in 0 .. n /\ m - 1 \in Nat /\ m - 1 < n /\ m - 1 < m
  BY <1>3
<1>5. m - 1 \in P
  BY <1>2, <1>4
<1>6. (m - 1) + 1 \in P
  BY <1>4, <1>5
<1>. QED BY <1>3, <1>6

\* ChosenUpTo solves its equation.
LEMMA ChosenEquation ==
  ASSUME NEW msgs, NEW at, Len(msgs) \in Nat
  PROVE  LET f == ChosenUpTo(msgs, at)
         IN  f = [k \in 0 .. Len(msgs) |->
                    IF k = 0 THEN <<>>
                    ELSE IF k \in at THEN Append(f[k - 1], msgs[k]) ELSE f[k - 1]]
<1> DEFINE Step(f, k) == IF k = 0 THEN <<>>
                         ELSE IF k \in at THEN Append(f[k - 1], msgs[k]) ELSE f[k - 1]
           Solves(f, n) == f = [k \in 0 .. n |-> Step(f, k)]
           solved == {n \in Nat : \E f : Solves(f, n)}
<1>1. 0 \in solved
  <2>1. Solves([k \in 0 .. 0 |-> <<>>], 0)
    OBVIOUS
  <2>. QED BY <2>1
<1>2. ASSUME NEW n \in Nat, n \in solved PROVE n + 1 \in solved
  <2>1. PICK f : Solves(f, n)
    BY <1>2
  <2> DEFINE g == [k \in 0 .. n + 1 |-> IF k = n + 1 THEN Step(f, n + 1) ELSE f[k]]
  <2>2. \A k \in 0 .. n + 1 : g[k] = Step(g, k)
    <3> SUFFICES ASSUME NEW k \in 0 .. n + 1 PROVE g[k] = Step(g, k)
      OBVIOUS
    <3>1. k # 0 => g[k - 1] = f[k - 1]
      OBVIOUS
    <3>2. ASSUME k # n + 1 PROVE f[k] = Step(f, k)
      <4> DEFINE h == [j \in 0 .. n |-> Step(f, j)]
      <4>1. h[k] = Step(f, k)
        BY <3>2
      <4>2. f = h
        BY <2>1
      <4> HIDE DEF h, Step
      <4>. QED BY <4>1, <4>2
    <3>. QED BY <3>1, <3>2
  <2>3. Solves(g, n + 1)
    BY <2>2
  <2>4. \E h : Solves(h, n + 1)
    <3> HIDE DEF g, Solves
    <3>. QED BY <2>3
  <2>5. n + 1 \in Nat
    OBVIOUS
  <2> HIDE DEF Solves
  <2>. QED BY <2>4, <2>5
<1>3. Len(msgs) \in solved
  <2> HIDE DEF solved
  <2>1. \A k \in Nat : k < Len(msgs) /\ k \in solved => k + 1 \in solved
    BY <1>2
  <2>. QED BY <1>1, <2>1, Climb
<1>4. ChosenUpTo(msgs, at) = CHOOSE f : Solves(f, Len(msgs))
  BY DEF ChosenUpTo
<1>. QED BY <1>3, <1>4

\* RemovalStates, too.
LEMMA RemovalEquation ==
  ASSUME NEW s, NEW ids, Len(ids) \in Nat
  PROVE  LET f == RemovalStates(s, ids)
         IN  f = [k \in 0 .. Len(ids) |-> IF k = 0 THEN s ELSE RemoveMessage(f[k - 1], ids[k])]
<1> DEFINE Step(f, k) == IF k = 0 THEN s ELSE RemoveMessage(f[k - 1], ids[k])
           Solves(f, n) == f = [k \in 0 .. n |-> Step(f, k)]
           solved == {n \in Nat : \E f : Solves(f, n)}
<1>1. 0 \in solved
  <2>1. Solves([k \in 0 .. 0 |-> s], 0)
    OBVIOUS
  <2>. QED BY <2>1
<1>2. ASSUME NEW n \in Nat, n \in solved PROVE n + 1 \in solved
  <2>1. PICK f : Solves(f, n)
    BY <1>2
  <2> DEFINE g == [k \in 0 .. n + 1 |-> IF k = n + 1 THEN Step(f, n + 1) ELSE f[k]]
  <2>2. \A k \in 0 .. n + 1 : g[k] = Step(g, k)
    <3> SUFFICES ASSUME NEW k \in 0 .. n + 1 PROVE g[k] = Step(g, k)
      OBVIOUS
    <3>1. k # 0 => g[k - 1] = f[k - 1]
      OBVIOUS
    <3>2. ASSUME k # n + 1 PROVE f[k] = Step(f, k)
      <4> DEFINE h == [j \in 0 .. n |-> Step(f, j)]
      <4>1. h[k] = Step(f, k)
        BY <3>2
      <4>2. f = h
        BY <2>1
      <4> HIDE DEF h, Step
      <4>. QED BY <4>1, <4>2
    <3>. QED BY <3>1, <3>2
  <2>3. Solves(g, n + 1)
    BY <2>2
  <2>4. \E h : Solves(h, n + 1)
    <3> HIDE DEF g, Solves
    <3>. QED BY <2>3
  <2>5. n + 1 \in Nat
    OBVIOUS
  <2> HIDE DEF Solves
  <2>. QED BY <2>4, <2>5
<1>3. Len(ids) \in solved
  <2> HIDE DEF solved
  <2>1. \A k \in Nat : k < Len(ids) /\ k \in solved => k + 1 \in solved
    BY <1>2
  <2>. QED BY <1>1, <2>1, Climb
<1>4. RemovalStates(s, ids) = CHOOSE f : Solves(f, Len(ids))
  BY DEF RemovalStates
<1>. QED BY <1>3, <1>4

\* What is chosen are entries at the chosen indices.
LEMMA ChosenAmong ==
  ASSUME NEW S, NEW msgs \in Seq(S), NEW at
  PROVE  Chosen(msgs, at) \in Seq({msgs[k] : k \in at \cap DOMAIN msgs})
<1> DEFINE M == {msgs[k] : k \in at \cap DOMAIN msgs}
           f == ChosenUpTo(msgs, at)
           P == {k \in 0 .. Len(msgs) : f[k] \in Seq(M)}
<1>1. Len(msgs) \in Nat /\ DOMAIN msgs = 1 .. Len(msgs)
  OBVIOUS
<1>2. f = [k \in 0 .. Len(msgs) |->
             IF k = 0 THEN <<>> ELSE IF k \in at THEN Append(f[k - 1], msgs[k]) ELSE f[k - 1]]
  BY <1>1, ChosenEquation
<1>3. /\ f[0] = <<>>
      /\ \A k \in 1 .. Len(msgs) :
           f[k] = IF k \in at THEN Append(f[k - 1], msgs[k]) ELSE f[k - 1]
  <2> DEFINE h == [k \in 0 .. Len(msgs) |->
             IF k = 0 THEN <<>> ELSE IF k \in at THEN Append(f[k - 1], msgs[k]) ELSE f[k - 1]]
  <2> HIDE DEF f
  <2>1. /\ h[0] = <<>>
        /\ \A k \in 1 .. Len(msgs) :
             h[k] = IF k \in at THEN Append(f[k - 1], msgs[k]) ELSE f[k - 1]
    BY <1>1
  <2>2. f = h
    BY <1>2
  <2> HIDE DEF h
  <2>. QED BY <2>1, <2>2
<1> HIDE DEF f
<1>4. 0 \in P
  <2> HIDE DEF M
  <2>1. f[0] \in Seq(M) /\ 0 \in 0 .. Len(msgs)
    BY <1>1, <1>3
  <2>. QED BY <2>1
<1>5. ASSUME NEW k \in Nat, k < Len(msgs), k \in P PROVE k + 1 \in P
  <2>1. k + 1 \in 1 .. Len(msgs) /\ (k + 1) - 1 = k
    BY <1>1, <1>5
  <2>2. f[k + 1] = IF k + 1 \in at THEN Append(f[k], msgs[k + 1]) ELSE f[k]
    BY <1>3, <2>1
  <2>3. f[k] \in Seq(M)
    BY <1>5
  <2>4. k + 1 \in at => msgs[k + 1] \in M
    BY <1>1, <2>1
  <2>5. f[k + 1] \in Seq(M)
    <3> HIDE DEF M
    <3>. QED BY <2>2, <2>3, <2>4
  <2>. QED BY <1>1, <2>1, <2>5
<1>6. Len(msgs) \in P
  <2> HIDE DEF P
  <2>. QED BY <1>1, <1>4, <1>5, Climb
<1>. QED BY <1>6 DEF Chosen, f

\* A lookup by ID finds the first message that has it, or none has.
LEMMA FindById ==
  ASSUME NEW S, NEW msgs \in Seq(S), NEW id
  PROVE  /\ IndexById(msgs, id) \in 0 .. Len(msgs)
         /\ IndexById(msgs, id) # 0 => msgs[IndexById(msgs, id)].id = id
         /\ IndexById(msgs, id) = 0 => \A k \in DOMAIN msgs : msgs[k].id # id
<1> DEFINE I == {i \in 1 .. Len(msgs) : msgs[i].id = id}
<1>1. IndexById(msgs, id) = IF I # {} THEN Min(I) ELSE 0
  BY DEF IndexById, SelectInSeq
<1>2. I # {} => \E x \in I : \A y \in I : x <= y
  <2>1. I \in SUBSET Nat
    OBVIOUS
  <2> HIDE DEF I
  <2>. QED BY <2>1, Least
<1>3. I # {} => Min(I) \in I
  <2> HIDE DEF I
  <2>. QED BY <1>2 DEF Min
<1>4. Len(msgs) \in Nat /\ DOMAIN msgs = 1 .. Len(msgs)
  OBVIOUS
<1>. QED BY <1>1, <1>3, <1>4

\* So does a lookup by nonce.
LEMMA FindByNonce ==
  ASSUME NEW S, NEW msgs \in Seq(S), NEW nonce
  PROVE  /\ IndexByNonce(msgs, nonce) \in 0 .. Len(msgs)
         /\ IndexByNonce(msgs, nonce) # 0 => msgs[IndexByNonce(msgs, nonce)].nonce = nonce
<1> DEFINE I == {i \in 1 .. Len(msgs) : msgs[i].nonce = nonce}
<1>1. IndexByNonce(msgs, nonce) = IF I # {} THEN Min(I) ELSE 0
  BY DEF IndexByNonce, SelectInSeq
<1>2. I # {} => \E x \in I : \A y \in I : x <= y
  <2>1. I \in SUBSET Nat
    OBVIOUS
  <2> HIDE DEF I
  <2>. QED BY <2>1, Least
<1>3. I # {} => Min(I) \in I
  <2> HIDE DEF I
  <2>. QED BY <1>2 DEF Min
<1>4. Len(msgs) \in Nat
  OBVIOUS
<1>. QED BY <1>1, <1>3, <1>4

\* The window of a sequence is made of its entries, and is empty with it.
LEMMA Windowed ==
  ASSUME NEW S, NEW msgs \in Seq(S)
  PROVE  /\ Window(msgs) \in Seq(S)
         /\ \A k \in DOMAIN Window(msgs) : \E j \in DOMAIN msgs : Window(msgs)[k] = msgs[j]
         /\ (msgs = <<>>) <=> (Window(msgs) = <<>>)
<1> DEFINE from == Larger(1, Len(msgs) - HistoryLimit + 1)
<1>1. Len(msgs) \in Nat /\ HistoryLimit \in Nat \ {0} /\ from \in Nat /\ from >= 1
      /\ (Len(msgs) > 0 => from <= Len(msgs)) /\ from <= Len(msgs) + 1
  BY StoreAssumption DEF Larger
<1>2. Window(msgs) = SubSeq(msgs, from, Len(msgs))
  BY DEF Window
<1> HIDE DEF from
<1>3. Window(msgs) \in Seq(S) /\ Len(Window(msgs)) = Len(msgs) - from + 1
      /\ \A k \in 1 .. Len(msgs) - from + 1 : Window(msgs)[k] = msgs[from + k - 1]
  BY <1>1, <1>2, SubSeqProperties
<1>4. DOMAIN Window(msgs) = 1 .. Len(msgs) - from + 1
  BY <1>3
<1>5. \A k \in 1 .. Len(msgs) - from + 1 : from + k - 1 \in DOMAIN msgs
  BY <1>1
<1>6. msgs = <<>> <=> Len(msgs) = 0
  BY EmptySeq
<1>7. Window(msgs) = <<>> <=> Len(Window(msgs)) = 0
  BY <1>3, EmptySeq
<1>. QED BY <1>1, <1>3, <1>4, <1>5, <1>6, <1>7

\* What a removal, a page or an edit leaves of the IDs, entry by entry.
LEMMA IdsOfEntries ==
  ASSUME NEW msgs, NEW i
  PROVE  i \in IdsOf(msgs) <=> i # 0 /\ \E k \in DOMAIN msgs : msgs[k].id = i
BY DEF IdsOf, ToSet

\* A store later than s: what it changed of the messages, it has stamped, or it
\* holds no message any more.
Follows(s, t) ==
  /\ Sound(t) /\ t.rev >= s.rev
  /\ \/ t.msgs = s.msgs /\ t.ringRev = s.ringRev
     \/ t.ringRev > s.rev
     \/ t.msgs = <<>> /\ t.ringRev = 0

\* Two steps of the store are one.
LEMMA FollowsTwice ==
  ASSUME NEW s, NEW t, NEW u, Sound(s), Follows(s, t), Follows(t, u)
  PROVE  Follows(s, u)
<1>1. s.rev \in Nat /\ t.rev \in Nat /\ u.rev \in Nat /\ u.ringRev \in Nat /\ t.ringRev \in Nat
      /\ s.ringRev \in Nat
  BY DEF Follows, Sound, StoreState
<1>. QED BY <1>1 DEF Follows

\* Only the revision moves.
LEMMA Burns ==
  ASSUME NEW s, Sound(s)
  PROVE  /\ Follows(s, Burn(s)) /\ Follows(s, s)
         /\ Burn(s).msgs = s.msgs /\ Burn(s).tombs = s.tombs /\ Burn(s).pruned = s.pruned
BY DEF Burn, Follows, Sound, StoreState

\* Cleared tombstones are tombstones: some of the old ones, and zeros.
LEMMA Clears ==
  ASSUME NEW s, Sound(s), NEW ids
  PROVE  /\ ClearTombstones(s, ids) \in [Ids -> Nat]
         /\ \A i \in Ids : ClearTombstones(s, ids)[i] <= s.rev
         /\ \A i \in Ids : ClearTombstones(s, ids)[i] = IF i \in ids THEN 0 ELSE s.tombs[i]
BY DEF ClearTombstones, Sound, StoreState

\* A message under a new revision is otherwise the same.
LEMMA StampedMessage ==
  ASSUME NEW m \in Message, NEW n \in Nat
  PROVE  /\ [m EXCEPT !.rev = n] \in Message
         /\ [m EXCEPT !.rev = n].id = m.id /\ [m EXCEPT !.rev = n].rev = n
BY DEF Message

\* The newest known message stays a number.
LEMMA LatestMoves ==
  ASSUME NEW s, Sound(s), NEW m \in Message
  PROVE  Larger(s.latest, m.id) \in Nat
<1>1. s.latest \in Nat
  BY DEF Sound, StoreState
<1>2. m.id \in Ids \cup {0}
  BY DEF Message
<1>3. m.id \in Nat
  <2>1. Ids \cup {0} \subseteq Nat
    BY StoreAssumption
  <2>. QED BY <1>2, <2>1
<1>. QED BY <1>1, <1>3 DEF Larger

\* A message is appended, and the oldest one may leave.
LEMMA Appends ==
  ASSUME NEW s, Sound(s), NEW m \in Message
  PROVE  LET t == AppendMessage(s, m)
         IN  /\ Follows(s, t)
             /\ IdsOf(t.msgs) \subseteq IdsOf(s.msgs) \cup {m.id}
             /\ t.tombs = ClearTombstones(s, {m.id}) /\ t.pruned = s.pruned
<1> DEFINE new == [m EXCEPT !.rev = s.rev + 1]
           all == Append(s.msgs, new)
           t == AppendMessage(s, m)
<1>1. /\ s \in StoreState /\ s.rev \in Nat /\ s.msgs \in Seq(Message)
      /\ s.latest \in Nat /\ s.pruned \in Nat /\ s.ringRev \in Nat
      /\ s.pruned <= s.rev /\ s.ringRev <= s.rev
  BY DEF Sound, StoreState
<1>2. new \in Message /\ new.id = m.id /\ new.rev = s.rev + 1
  BY <1>1, StampedMessage
<1>3. /\ all \in Seq(Message)
      /\ \A k \in DOMAIN all : all[k] = new \/ \E j \in DOMAIN s.msgs : all[k] = s.msgs[j]
      /\ all # <<>>
  BY <1>1, <1>2
<1>4. /\ Window(all) \in Seq(Message) /\ Window(all) # <<>>
      /\ \A k \in DOMAIN Window(all) :
           Window(all)[k] = new \/ \E j \in DOMAIN s.msgs : Window(all)[k] = s.msgs[j]
  <2> HIDE DEF all, new
  <2>. QED BY <1>3, Windowed
<1>5. /\ t.rev = s.rev + 1 /\ t.ringRev = s.rev + 1 /\ t.msgs = Window(all)
      /\ t.tombs = ClearTombstones(s, {m.id}) /\ t.latest = Larger(s.latest, m.id)
      /\ t.pruned = s.pruned
      /\ DOMAIN t = {"rev", "msgs", "ringRev", "tombs", "pruned", "latest"}
  BY <1>1 DEF AppendMessage, StoreState, Push
<1>6. Larger(s.latest, m.id) \in Nat
  BY LatestMoves
<1>7. t \in StoreState
  <2> DEFINE c == ClearTombstones(s, {m.id})
             w == Window(all)
             l == Larger(s.latest, m.id)
  <2>1. t = [s EXCEPT !.rev = s.rev + 1, !.ringRev = s.rev + 1, !.msgs = w, !.tombs = c,
                      !.latest = l]
    BY <1>1 DEF AppendMessage, Push
  <2>2. c \in [Ids -> Nat] /\ w \in Seq(Message) /\ l \in Nat /\ s.rev + 1 \in Nat
    BY <1>1, <1>4, <1>6, Clears
  <2> HIDE DEF t, c, w, l
  <2>. QED BY <1>1, <2>1, <2>2 DEF StoreState
<1>8. \A k \in DOMAIN t.msgs : t.msgs[k].rev \in 1 .. t.rev
  <2> HIDE DEF t, all, new
  <2>. QED BY <1>1, <1>2, <1>4, <1>5 DEF Sound
<1>9. \A i \in Ids : t.tombs[i] <= t.rev
  <2>1. \A i \in Ids : ClearTombstones(s, {m.id})[i] <= s.rev /\ ClearTombstones(s, {m.id})[i] \in Nat
    BY Clears
  <2>2. \A i \in Ids : t.tombs[i] <= s.rev /\ t.tombs[i] \in Nat
    BY <1>5, <2>1
  <2>3. t.rev = s.rev + 1
    BY <1>5
  <2> HIDE DEF t
  <2>. QED BY <1>1, <2>2, <2>3
<1>10. Follows(s, t)
  <2>1. t.msgs # <<>> /\ t.rev >= s.rev /\ t.ringRev > s.rev /\ t.ringRev <= t.rev
        /\ t.pruned <= t.rev
    BY <1>1, <1>4, <1>5
  <2> HIDE DEF t, all
  <2>. QED BY <1>1, <1>7, <1>8, <1>9, <2>1 DEF Follows, Sound
<1>11. IdsOf(t.msgs) \subseteq IdsOf(s.msgs) \cup {m.id}
  <2> HIDE DEF t, all, new
  <2>. QED BY <1>2, <1>4, <1>5, IdsOfEntries
<1>. QED BY <1>5, <1>10, <1>11

\* The entry at an index is overwritten.
LEMMA Overwrites ==
  ASSUME NEW s, Sound(s), NEW i \in 1 .. Len(s.msgs), NEW m \in Message
  PROVE  LET t == Stamp(s, i, m)
         IN  /\ Follows(s, t)
             /\ IdsOf(t.msgs) \subseteq IdsOf(s.msgs) \cup {m.id}
             /\ t.tombs = s.tombs /\ t.pruned = s.pruned /\ t.rev = s.rev + 1
<1> DEFINE new == [m EXCEPT !.rev = s.rev + 1]
           all == [s.msgs EXCEPT ![i] = new]
           t == Stamp(s, i, m)
<1>1. /\ s \in StoreState /\ s.rev \in Nat /\ s.msgs \in Seq(Message)
      /\ s.pruned \in Nat /\ s.ringRev \in Nat /\ s.pruned <= s.rev /\ s.ringRev <= s.rev
  BY DEF Sound, StoreState
<1>2. new \in Message /\ new.id = m.id /\ new.rev = s.rev + 1
  BY <1>1, StampedMessage
<1>3. /\ all \in Seq(Message) /\ DOMAIN all = DOMAIN s.msgs /\ all # <<>>
      /\ \A k \in DOMAIN all : all[k] = IF k = i THEN new ELSE s.msgs[k]
  <2> HIDE DEF new
  <2>. QED BY <1>1, <1>2
<1>4. t = [s EXCEPT !.rev = s.rev + 1, !.ringRev = s.rev + 1, !.msgs = all]
  BY <1>1 DEF Stamp, StoreState
<1> HIDE DEF t, all, new
<1>5. /\ t \in StoreState /\ t.rev = s.rev + 1 /\ t.ringRev = s.rev + 1 /\ t.msgs = all
      /\ t.tombs = s.tombs /\ t.pruned = s.pruned
  <2>1. s.rev + 1 \in Nat
    BY <1>1
  <2>. QED BY <1>1, <1>3, <1>4, <2>1 DEF StoreState
<1>6. \A k \in DOMAIN t.msgs : t.msgs[k].rev \in 1 .. t.rev
  <2>1. \A k \in DOMAIN s.msgs : s.msgs[k].rev \in 1 .. s.rev
    BY DEF Sound
  <2>. QED BY <1>1, <1>2, <1>3, <1>5, <2>1
<1>7. \A j \in Ids : t.tombs[j] <= t.rev
  <2>1. \A j \in Ids : s.tombs[j] <= s.rev /\ s.tombs[j] \in Nat
    BY <1>1 DEF Sound, StoreState
  <2>. QED BY <1>1, <1>5, <2>1
<1>8. Follows(s, t)
  BY <1>1, <1>3, <1>5, <1>6, <1>7 DEF Follows, Sound
<1>9. IdsOf(t.msgs) \subseteq IdsOf(s.msgs) \cup {m.id}
  BY <1>2, <1>3, <1>5, IdsOfEntries
<1>. QED BY <1>5, <1>8, <1>9 DEF t

\* Tombstones are cleared: nothing else.
LEMMA Clearing ==
  ASSUME NEW s, NEW t, Sound(s), Follows(s, t), NEW ids, NEW u \in StoreState,
         u.tombs = ClearTombstones(s, ids), u.msgs = t.msgs, u.pruned = t.pruned,
         u.rev = t.rev, u.ringRev = t.ringRev
  PROVE  Follows(s, u)
<1>1. t \in StoreState /\ t.rev \in Nat /\ s.rev \in Nat /\ t.rev >= s.rev
  BY DEF Follows, Sound, StoreState
<1>2. \A i \in Ids : u.tombs[i] <= s.rev /\ u.tombs[i] \in Nat
  BY Clears
<1>. QED BY <1>1, <1>2 DEF Follows, Sound

\* An echo gives way to its confirmation.
LEMMA Replaces ==
  ASSUME NEW s, Sound(s), NEW m \in Message, ReplacesEcho(s, m.nonce)
  PROVE  LET t == ReplaceMessage(s, m.nonce, m)
         IN  /\ Follows(s, t)
             /\ IdsOf(t.msgs) \subseteq IdsOf(s.msgs) \cup {m.id}
             /\ t.tombs = ClearTombstones(s, {m.id}) /\ t.pruned = s.pruned
<1> DEFINE i == IndexByNonce(s.msgs, m.nonce)
           t == Stamp(s, i, m)
           l == Larger(t.latest, m.id)
<1>1. s.msgs \in Seq(Message)
  BY DEF Sound, StoreState
<1>2. i \in 1 .. Len(s.msgs)
  <2>1. i \in 0 .. Len(s.msgs) /\ i # 0 /\ Len(s.msgs) \in Nat
    BY <1>1, FindByNonce DEF ReplacesEcho
  <2>. QED BY <2>1
<1>3. /\ Follows(s, t) /\ t.tombs = s.tombs /\ t.pruned = s.pruned
      /\ IdsOf(t.msgs) \subseteq IdsOf(s.msgs) \cup {m.id}
  <2> HIDE DEF i
  <2>. QED BY <1>2, Overwrites
<1>4. l \in Nat
  BY <1>3, LatestMoves DEF Follows
<1>5. ReplaceMessage(s, m.nonce, m) = [t EXCEPT !.tombs = ClearTombstones(s, {m.id}), !.latest = l]
  BY DEF ReplaceMessage
<1> DEFINE u == [t EXCEPT !.tombs = ClearTombstones(s, {m.id}), !.latest = l]
<1>6. ReplaceMessage(s, m.nonce, m) = u
  BY <1>5
<1>7. /\ u \in StoreState /\ u.msgs = t.msgs /\ u.pruned = t.pruned
      /\ u.tombs = ClearTombstones(s, {m.id}) /\ u.rev = t.rev /\ u.ringRev = t.ringRev
  <2> DEFINE c == ClearTombstones(s, {m.id})
  <2>1. c \in [Ids -> Nat]
    BY Clears
  <2>2. t \in StoreState
    BY <1>3 DEF Follows, Sound
  <2> HIDE DEF t, l, c
  <2>3. [t EXCEPT !.tombs = c, !.latest = l] \in StoreState
    BY <1>4, <2>1, <2>2 DEF StoreState
  <2>. QED BY <2>2, <2>3 DEF c, StoreState
<1> HIDE DEF t, l, u
<1>8. Follows(s, u)
  BY <1>3, <1>7, Clearing
<1>. QED BY <1>3, <1>6, <1>7, <1>8

\* A creation, from the gateway or from the REST reply.
LEMMA Reconciles ==
  ASSUME NEW s, Sound(s), NEW m \in Message
  PROVE  LET t == Reconcile(s, m)
         IN  /\ Follows(s, t)
             /\ IdsOf(t.msgs) \subseteq IdsOf(s.msgs) \cup {m.id}
             /\ t.tombs \in {s.tombs, ClearTombstones(s, {m.id})} /\ t.pruned = s.pruned
<1> DEFINE tried == ReplaceMessage(s, m.nonce, m)
<1>1. CASE ReplacesEcho(s, m.nonce)
  BY <1>1, Replaces DEF Reconcile
<1>2. CASE ~ ReplacesEcho(s, m.nonce)
  <2>1. tried = s \/ tried = Burn(s)
    BY <1>2 DEF ReplaceMessage
  <2>2. /\ Follows(s, tried) /\ tried.msgs = s.msgs /\ tried.tombs = s.tombs
        /\ tried.pruned = s.pruned
    BY <2>1, Burns
  <2>3. CASE HasMessage(tried, m.id)
    BY <1>2, <2>2, <2>3 DEF Reconcile
  <2>4. CASE ~ HasMessage(tried, m.id)
    <3> DEFINE t == AppendMessage(tried, m)
    <3> HIDE DEF tried
    <3>1. /\ Follows(tried, t) /\ IdsOf(t.msgs) \subseteq IdsOf(tried.msgs) \cup {m.id}
          /\ t.tombs = ClearTombstones(tried, {m.id}) /\ t.pruned = tried.pruned
      BY <2>2, Appends DEF Follows
    <3>2. ClearTombstones(tried, {m.id}) = ClearTombstones(s, {m.id})
      BY <2>2 DEF ClearTombstones
    <3>3. Follows(s, t)
      BY <2>2, <3>1, FollowsTwice
    <3>4. Reconcile(s, m) = t
      BY <1>2, <2>4 DEF Reconcile, tried
    <3> HIDE DEF t
    <3>. QED BY <2>2, <3>1, <3>2, <3>3, <3>4
  <2>. QED BY <2>3, <2>4
<1>. QED BY <1>1, <1>2

\* An edit, and the mark of a failed send.
LEMMA Edits ==
  ASSUME NEW s, Sound(s), NEW id, NEW body \in Nat, NEW nonce
  PROVE  \A t \in {UpdateMessage(s, id, body), MarkFailed(s, nonce)} :
           /\ Follows(s, t)
           /\ IdsOf(t.msgs) \subseteq IdsOf(s.msgs)
           /\ t.tombs = s.tombs /\ t.pruned = s.pruned
<1>1. s.msgs \in Seq(Message)
  BY DEF Sound, StoreState
<1>2. ASSUME NEW i \in 1 .. Len(s.msgs), NEW m \in Message, m.id = s.msgs[i].id
      PROVE  /\ Follows(s, Stamp(s, i, m))
             /\ IdsOf(Stamp(s, i, m).msgs) \subseteq IdsOf(s.msgs)
             /\ Stamp(s, i, m).tombs = s.tombs /\ Stamp(s, i, m).pruned = s.pruned
  <2>1. m.id \in IdsOf(s.msgs) \cup {0}
    BY <1>1, <1>2, IdsOfEntries
  <2>2. 0 \notin IdsOf(Stamp(s, i, m).msgs)
    BY DEF IdsOf
  <2>3. /\ Follows(s, Stamp(s, i, m))
        /\ IdsOf(Stamp(s, i, m).msgs) \subseteq IdsOf(s.msgs) \cup {m.id}
        /\ Stamp(s, i, m).tombs = s.tombs /\ Stamp(s, i, m).pruned = s.pruned
    BY Overwrites
  <2>. QED BY <2>1, <2>2, <2>3
<1>3. ASSUME NEW i \in 1 .. Len(s.msgs)
      PROVE  /\ [s.msgs[i] EXCEPT !.body = body] \in Message
             /\ [s.msgs[i] EXCEPT !.body = body].id = s.msgs[i].id
             /\ [s.msgs[i] EXCEPT !.st = "failed"] \in Message
             /\ [s.msgs[i] EXCEPT !.st = "failed"].id = s.msgs[i].id
  <2>1. s.msgs[i] \in Message
    BY <1>1
  <2>. QED BY <2>1 DEF Message
<1>4. IndexById(s.msgs, id) \in 0 .. Len(s.msgs) /\ IndexByNonce(s.msgs, nonce) \in 0 .. Len(s.msgs)
      /\ Len(s.msgs) \in Nat
  BY <1>1, FindById, FindByNonce
<1>5. /\ Follows(s, Burn(s)) /\ Burn(s).msgs = s.msgs /\ Burn(s).tombs = s.tombs
      /\ Burn(s).pruned = s.pruned
  BY Burns
<1>6. /\ Follows(s, UpdateMessage(s, id, body))
      /\ IdsOf(UpdateMessage(s, id, body).msgs) \subseteq IdsOf(s.msgs)
      /\ UpdateMessage(s, id, body).tombs = s.tombs /\ UpdateMessage(s, id, body).pruned = s.pruned
  <2>1. CASE IndexById(s.msgs, id) = 0
    BY <1>5, <2>1 DEF UpdateMessage
  <2>2. CASE IndexById(s.msgs, id) # 0
    <3> DEFINE i == IndexById(s.msgs, id)
    <3>1. i \in 1 .. Len(s.msgs)
      BY <1>4, <2>2
    <3> DEFINE m == [s.msgs[i] EXCEPT !.body = body]
    <3>2. UpdateMessage(s, id, body) = Stamp(s, i, m)
      BY <2>2 DEF UpdateMessage
    <3> HIDE DEF i
    <3>3. m \in Message /\ m.id = s.msgs[i].id
      BY <1>3, <3>1
    <3> HIDE DEF m
    <3>. QED BY <1>2, <3>1, <3>2, <3>3
  <2>. QED BY <2>1, <2>2
<1>7. /\ Follows(s, MarkFailed(s, nonce))
      /\ IdsOf(MarkFailed(s, nonce).msgs) \subseteq IdsOf(s.msgs)
      /\ MarkFailed(s, nonce).tombs = s.tombs /\ MarkFailed(s, nonce).pruned = s.pruned
  <2>1. CASE IndexByNonce(s.msgs, nonce) = 0
    BY <1>5, <2>1 DEF MarkFailed
  <2>2. CASE IndexByNonce(s.msgs, nonce) # 0
    <3> DEFINE i == IndexByNonce(s.msgs, nonce)
    <3>1. i \in 1 .. Len(s.msgs)
      BY <1>4, <2>2
    <3> DEFINE m == [s.msgs[i] EXCEPT !.st = "failed"]
    <3>2. MarkFailed(s, nonce) = Stamp(s, i, m)
      BY <2>2 DEF MarkFailed
    <3> HIDE DEF i
    <3>3. m \in Message /\ m.id = s.msgs[i].id
      BY <1>3, <3>1
    <3> HIDE DEF m
    <3>. QED BY <1>2, <3>1, <3>2, <3>3
  <2>. QED BY <2>1, <2>2
<1>. QED BY <1>6, <1>7

\* Every one of the deletes is recorded above s's revision, or the watermark has
\* passed it; what was recorded before stays, or the watermark has passed that.
Removes(s, t, ids) ==
  /\ Follows(s, t)
  /\ IdsOf(t.msgs) \subseteq IdsOf(s.msgs)
  /\ t.pruned >= s.pruned
  /\ \A i \in ids : t.rev > s.rev /\ (t.tombs[i] > s.rev \/ t.pruned >= s.rev + 1)
  /\ \A i \in Ids \ ids :
       t.tombs[i] = s.tombs[i] \/ (t.tombs[i] = 0 /\ t.pruned >= s.tombs[i])

\* However many slots the shift of a removal moves, it leaves entries of the ring.
LEMMA RemovedEntries ==
  ASSUME NEW msgs \in Seq(Message), NEW i \in 1 .. Len(msgs)
  PROVE  /\ RemovedAt(msgs, i) \in Seq(Message)
         /\ \A k \in DOMAIN RemovedAt(msgs, i) :
              \E j \in DOMAIN msgs : RemovedAt(msgs, i)[k] = msgs[j]
<1> DEFINE from(k) == IF k >= i \/ k + HistoryLimit <= i + Len(msgs) - 2 THEN k + 1 ELSE k
           left == RemovedAt(msgs, i)
<1>1. Len(msgs) \in Nat /\ Len(msgs) - 1 \in Nat /\ DOMAIN msgs = 1 .. Len(msgs)
  OBVIOUS
<1>2. left = [k \in 1 .. Len(msgs) - 1 |-> msgs[from(k)]]
  BY DEF RemovedAt
<1>3. \A k \in 1 .. Len(msgs) - 1 : from(k) \in 1 .. Len(msgs)
  BY <1>1
<1> HIDE DEF left, from
<1>4. DOMAIN left = 1 .. Len(msgs) - 1 /\ \A k \in DOMAIN left : left[k] = msgs[from(k)]
  BY <1>2
<1>5. \A k \in 1 .. Len(msgs) - 1 : msgs[from(k)] \in Message
  BY <1>1, <1>3
<1>6. left \in Seq(Message)
  BY <1>1, <1>2, <1>5
<1>. QED BY <1>1, <1>3, <1>4, <1>6 DEF left

\* One delete: its tombstone, and the one evicted for it.
LEMMA RemovesOneId ==
  ASSUME NEW s, Sound(s), NEW id \in Ids
  PROVE  Removes(s, RemoveMessage(s, id), {id})
<1> DEFINE rev == s.rev + 1
           marked == [s.tombs EXCEPT ![id] = rev]
           held == {i \in Ids : marked[i] # 0}
           oldest == CHOOSE i \in held : \A j \in held : marked[i] <= marked[j]
           full == Cardinality(held) > HistoryLimit
           at == IndexById(s.msgs, id)
           t == RemoveMessage(s, id)
           tombs == IF full THEN [marked EXCEPT ![oldest] = 0] ELSE marked
           pruned == IF full THEN Larger(s.pruned, marked[oldest]) ELSE s.pruned
           msgs == IF at = 0 THEN s.msgs ELSE RemovedAt(s.msgs, at)
           ringRev == IF at = 0 THEN s.ringRev ELSE rev
<1>1. /\ s \in StoreState /\ s.rev \in Nat /\ s.msgs \in Seq(Message) /\ s.tombs \in [Ids -> Nat]
      /\ s.pruned \in Nat /\ s.ringRev \in Nat /\ s.pruned <= s.rev /\ s.ringRev <= s.rev
      /\ \A i \in Ids : s.tombs[i] <= s.rev
  BY DEF Sound, StoreState
<1>2. t = [s EXCEPT !.rev = rev, !.tombs = tombs, !.pruned = pruned, !.msgs = msgs,
                    !.ringRev = ringRev]
  BY <1>1 DEF RemoveMessage, StoreState
<1>3. /\ rev \in Nat /\ marked \in [Ids -> Nat]
      /\ marked[id] = rev /\ \A i \in Ids \ {id} : marked[i] = s.tombs[i]
      /\ \A i \in Ids : marked[i] <= rev
  BY <1>1
<1>4. oldest \in Ids
  <2>1. {marked[i] : i \in held} \in SUBSET Nat /\ {marked[i] : i \in held} # {}
    <3>1. id \in held
      BY <1>3, <1>1
    <3> HIDE DEF marked
    <3>. QED BY <1>3, <3>1
  <2>2. PICK n \in {marked[i] : i \in held} : \A y \in {marked[i] : i \in held} : n <= y
    <3> HIDE DEF held, marked
    <3>. QED BY <2>1, Least
  <2>3. \E i \in held : \A j \in held : marked[i] <= marked[j]
    BY <2>2
  <2>4. oldest \in held
    <3> HIDE DEF held, marked
    <3>. QED BY <2>3
  <2>. QED BY <2>4
<1> HIDE DEF marked, oldest, rev, held
<1>5. /\ tombs \in [Ids -> Nat] /\ \A i \in Ids : tombs[i] <= rev
      /\ pruned \in Nat /\ pruned <= rev /\ pruned >= s.pruned
      /\ tombs[id] > s.rev \/ pruned >= s.rev + 1
      /\ \A i \in Ids \ {id} :
           tombs[i] = s.tombs[i] \/ (tombs[i] = 0 /\ pruned >= s.tombs[i])
  <2>1. rev = s.rev + 1
    BY DEF rev
  <2>2. CASE full
    <3>1. tombs = [marked EXCEPT ![oldest] = 0] /\ pruned = Larger(s.pruned, marked[oldest])
      BY <2>2
    <3>2. /\ pruned \in Nat /\ pruned >= s.pruned /\ pruned >= marked[oldest] /\ pruned <= rev
      BY <1>1, <1>3, <1>4, <2>1, <3>1 DEF Larger
    <3>3. tombs \in [Ids -> Nat] /\ tombs[oldest] = 0 /\ \A i \in Ids \ {oldest} : tombs[i] = marked[i]
      BY <1>3, <1>4, <3>1
    <3> HIDE DEF tombs, pruned
    <3>. QED BY <1>1, <1>3, <1>4, <2>1, <3>2, <3>3
  <2>3. CASE ~ full
    <3>1. tombs = marked /\ pruned = s.pruned
      BY <2>3
    <3>2. pruned <= rev
      BY <1>1, <2>1, <3>1
    <3> HIDE DEF tombs, pruned
    <3>. QED BY <1>1, <1>3, <2>1, <3>1, <3>2
  <2> HIDE DEF full, tombs, pruned
  <2>. QED BY <2>2, <2>3
<1>6. at \in 0 .. Len(s.msgs) /\ Len(s.msgs) \in Nat
  BY <1>1, FindById
<1> HIDE DEF at
<1>7. /\ msgs \in Seq(Message)
      /\ \A k \in DOMAIN msgs : \E j \in DOMAIN s.msgs : msgs[k] = s.msgs[j]
  <2>1. CASE at = 0
    BY <1>1, <2>1
  <2>2. CASE at # 0
    <3>1. at \in 1 .. Len(s.msgs)
      BY <1>6, <2>2
    <3>2. msgs = RemovedAt(s.msgs, at)
      BY <2>2
    <3> HIDE DEF msgs
    <3>. QED BY <1>1, <3>1, <3>2, RemovedEntries
  <2>. QED BY <2>1, <2>2
<1>8. /\ ringRev \in Nat /\ ringRev <= rev
      /\ ringRev = 0 => at = 0
      /\ at = 0 => msgs = s.msgs /\ ringRev = s.ringRev
      /\ at # 0 => ringRev = rev
  BY <1>1, <1>3 DEF rev
<1> HIDE DEF tombs, pruned, msgs, ringRev, t
<1>9. /\ t \in StoreState /\ t.rev = rev /\ t.tombs = tombs /\ t.pruned = pruned /\ t.msgs = msgs
      /\ t.ringRev = ringRev
  BY <1>1, <1>2, <1>3, <1>5, <1>7, <1>8 DEF StoreState
<1>10. rev = s.rev + 1
  BY DEF rev
<1>11. Sound(t)
  <2>1. \A k \in DOMAIN msgs : msgs[k].rev \in 1 .. rev
    <3>1. \A j \in DOMAIN s.msgs : s.msgs[j].rev \in 1 .. s.rev
      BY DEF Sound
    <3>. QED BY <1>1, <1>7, <1>10, <3>1
  <2>2. ringRev = 0 => msgs = <<>>
    BY <1>8 DEF Sound
  <2>. QED BY <1>5, <1>8, <1>9, <2>1, <2>2 DEF Sound
<1>12. Follows(s, t)
  BY <1>1, <1>8, <1>9, <1>10, <1>11 DEF Follows
<1>13. IdsOf(t.msgs) \subseteq IdsOf(s.msgs)
  BY <1>7, <1>9, IdsOfEntries
<1>. QED BY <1>1, <1>5, <1>9, <1>10, <1>12, <1>13 DEF Removes, t

\* One more delete after several.
LEMMA RemovesTwice ==
  ASSUME NEW s, NEW t, NEW u, NEW A \in SUBSET Ids, NEW id \in Ids,
         Sound(s), Removes(s, t, A), Removes(t, u, {id})
  PROVE  Removes(s, u, A \cup {id})
<1>1. /\ s.rev \in Nat /\ t.rev \in Nat /\ u.rev \in Nat
      /\ s.pruned \in Nat /\ t.pruned \in Nat /\ u.pruned \in Nat
      /\ s.tombs \in [Ids -> Nat] /\ t.tombs \in [Ids -> Nat] /\ u.tombs \in [Ids -> Nat]
      /\ t.rev >= s.rev /\ u.rev >= t.rev
  BY DEF Removes, Follows, Sound, StoreState
<1>2. Follows(s, u)
  BY FollowsTwice DEF Removes
<1>3. IdsOf(u.msgs) \subseteq IdsOf(s.msgs) /\ u.pruned >= s.pruned
  BY <1>1 DEF Removes
<1>4. ASSUME NEW i \in A \cup {id}
      PROVE  u.rev > s.rev /\ (u.tombs[i] > s.rev \/ u.pruned >= s.rev + 1)
  <2>1. CASE i = id
    BY <1>1, <2>1 DEF Removes
  <2>2. CASE i # id
    <3>1. i \in A /\ i \in Ids /\ i \in Ids \ {id}
      BY <2>2
    <3>2. t.rev > s.rev /\ (t.tombs[i] > s.rev \/ t.pruned >= s.rev + 1)
      BY <3>1 DEF Removes
    <3>3. u.tombs[i] = t.tombs[i] \/ (u.tombs[i] = 0 /\ u.pruned >= t.tombs[i])
      BY <3>1 DEF Removes
    <3>4. u.pruned >= t.pruned /\ t.tombs[i] \in Nat /\ u.tombs[i] \in Nat
      BY <1>1, <3>1 DEF Removes
    <3>. QED BY <1>1, <3>2, <3>3, <3>4
  <2>. QED BY <2>1, <2>2
<1>5. ASSUME NEW i \in Ids \ (A \cup {id})
      PROVE  u.tombs[i] = s.tombs[i] \/ (u.tombs[i] = 0 /\ u.pruned >= s.tombs[i])
  <2>1. t.tombs[i] = s.tombs[i] \/ (t.tombs[i] = 0 /\ t.pruned >= s.tombs[i])
    BY DEF Removes
  <2>2. u.tombs[i] = t.tombs[i] \/ (u.tombs[i] = 0 /\ u.pruned >= t.tombs[i])
    BY DEF Removes
  <2>3. u.pruned >= t.pruned /\ s.tombs[i] \in Nat
    BY <1>1 DEF Removes
  <2>. QED BY <1>1, <2>1, <2>2, <2>3
<1>. QED BY <1>2, <1>3, <1>4, <1>5 DEF Removes

\* Several deletes, one after the other.
LEMMA RemovesAll ==
  ASSUME NEW s, Sound(s), NEW ids \in Seq(Ids)
  PROVE  Removes(s, RemovalStates(s, ids)[Len(ids)], ToSet(ids))
<1> DEFINE f == RemovalStates(s, ids)
           first(k) == {ids[j] : j \in 1 .. k}
           P == {k \in 0 .. Len(ids) : Removes(s, f[k], first(k))}
<1>1. Len(ids) \in Nat /\ DOMAIN ids = 1 .. Len(ids)
  OBVIOUS
<1>2. f = [k \in 0 .. Len(ids) |-> IF k = 0 THEN s ELSE RemoveMessage(f[k - 1], ids[k])]
  BY <1>1, RemovalEquation
<1>3. f[0] = s /\ \A k \in 1 .. Len(ids) : f[k] = RemoveMessage(f[k - 1], ids[k])
  <2> DEFINE h == [k \in 0 .. Len(ids) |-> IF k = 0 THEN s ELSE RemoveMessage(f[k - 1], ids[k])]
  <2> HIDE DEF f
  <2>1. h[0] = s /\ \A k \in 1 .. Len(ids) : h[k] = RemoveMessage(f[k - 1], ids[k])
    BY <1>1
  <2>2. f = h
    BY <1>2
  <2> HIDE DEF h
  <2>. QED BY <2>1, <2>2
<1> HIDE DEF f
<1>4. 0 \in P
  <2>0. Follows(s, s) /\ s.pruned \in Nat
    <3> HIDE DEF first
    <3>. QED BY Burns DEF Sound, StoreState
  <2>1. Follows(s, s) /\ s.pruned \in Nat /\ first(0) = {}
    BY <2>0
  <2>2. Removes(s, f[0], first(0))
    BY <1>3, <2>1 DEF Removes
  <2>. QED BY <1>1, <2>2
<1>5. ASSUME NEW k \in Nat, k < Len(ids), k \in P PROVE k + 1 \in P
  <2>1. k + 1 \in 1 .. Len(ids) /\ (k + 1) - 1 = k /\ k \in 0 .. Len(ids)
    BY <1>1, <1>5
  <2>2. ids[k + 1] \in Ids /\ first(k) \in SUBSET Ids /\ first(k + 1) = first(k) \cup {ids[k + 1]}
    <3>1. ids[k + 1] \in Ids /\ \A j \in 1 .. k : ids[j] \in Ids
      BY <1>1, <2>1
    <3>2. 1 .. k + 1 = 1 .. k \cup {k + 1}
      BY <2>1
    <3>. QED BY <3>1, <3>2
  <2> HIDE DEF first
  <2>3. Removes(s, f[k], first(k))
    BY <1>5
  <2>4. Removes(f[k], f[k + 1], {ids[k + 1]})
    <3>1. Sound(f[k])
      BY <2>3 DEF Removes, Follows
    <3>2. f[k + 1] = RemoveMessage(f[k], ids[k + 1])
      BY <1>3, <2>1
    <3>. QED BY <2>2, <3>1, <3>2, RemovesOneId
  <2>5. Removes(s, f[k + 1], first(k + 1))
    BY <2>2, <2>3, <2>4, RemovesTwice
  <2>. QED BY <2>1, <2>5
<1>6. Len(ids) \in P
  <2> HIDE DEF P
  <2>. QED BY <1>1, <1>4, <1>5, Climb
<1>7. first(Len(ids)) = ToSet(ids)
  BY <1>1 DEF ToSet
<1>8. Removes(s, f[Len(ids)], first(Len(ids)))
  <2> HIDE DEF first
  <2>. QED BY <1>6
<1>. QED BY <1>7, <1>8 DEF f

\* What passes a test is among the sequence's entries, and does pass it.
LEMMA ChosenEntries ==
  ASSUME NEW S, NEW msgs \in Seq(S), NEW at
  PROVE  /\ Chosen(msgs, at) \in Seq(S)
         /\ \A k \in DOMAIN Chosen(msgs, at) :
              \E j \in at \cap DOMAIN msgs : Chosen(msgs, at)[k] = msgs[j]
<1> DEFINE M == {msgs[k] : k \in at \cap DOMAIN msgs}
           c == Chosen(msgs, at)
<1>1. c \in Seq(M)
  BY ChosenAmong
<1>2. M \subseteq S
  OBVIOUS
<1>3. c \in Seq(S)
  <2> HIDE DEF M, c
  <2>. QED BY <1>1, <1>2, SeqMonotonic
<1>4. \A k \in DOMAIN c : c[k] \in M
  <2> HIDE DEF M, c
  <2>. QED BY <1>1
<1> HIDE DEF c
<1>. QED BY <1>3, <1>4 DEF c

\* Messages under fresh revisions, one after the other.
LEMMA RestampedEntries ==
  ASSUME NEW s, Sound(s), NEW msgs \in Seq(Message)
  PROVE  LET new == Restamped(s, msgs)
         IN  /\ new \in Seq(Message) /\ DOMAIN new = DOMAIN msgs
             /\ \A k \in DOMAIN new : new[k].id = msgs[k].id /\ new[k].rev = s.rev + k
<1> DEFINE new == Restamped(s, msgs)
<1>1. s.rev \in Nat /\ Len(msgs) \in Nat /\ DOMAIN msgs = 1 .. Len(msgs)
  BY DEF Sound, StoreState
<1>2. \A k \in 1 .. Len(msgs) : s.rev + k \in Nat /\ msgs[k] \in Message
  BY <1>1
<1>3. new = [k \in 1 .. Len(msgs) |-> [msgs[k] EXCEPT !.rev = s.rev + k]]
  BY <1>1 DEF Restamped
<1> HIDE DEF new
<1>4. DOMAIN new = 1 .. Len(msgs) /\ \A k \in 1 .. Len(msgs) : new[k] = [msgs[k] EXCEPT !.rev = s.rev + k]
  BY <1>3
<1>5. \A k \in 1 .. Len(msgs) : /\ new[k] \in Message /\ new[k].id = msgs[k].id
                                /\ new[k].rev = s.rev + k
  <2> SUFFICES ASSUME NEW k \in 1 .. Len(msgs)
               PROVE  new[k] \in Message /\ new[k].id = msgs[k].id /\ new[k].rev = s.rev + k
    OBVIOUS
  <2> DEFINE m == msgs[k]
             n == s.rev + k
  <2>1. m \in Message /\ n \in Nat /\ new[k] = [m EXCEPT !.rev = n]
    BY <1>2, <1>4
  <2> HIDE DEF m, n
  <2>2. new[k] \in Message /\ new[k].id = m.id /\ new[k].rev = n
    BY <2>1, StampedMessage
  <2>. QED BY <2>2 DEF m, n
<1>6. new \in Seq(Message)
  <2>1. new = [k \in 1 .. Len(msgs) |-> new[k]]
    BY <1>3, <1>4
  <2>. QED BY <1>1, <1>5, <2>1
<1>. QED BY <1>1, <1>4, <1>5, <1>6 DEF new

\* An older page takes its place before the messages it does not displace.
LEMMA Prepends ==
  ASSUME NEW s, Sound(s), NEW page \in Seq(Message), NEW revision
  PROVE  LET t == PrependMessagesSince(s, page, revision)
         IN  /\ Follows(s, t)
             /\ \A i \in IdsOf(t.msgs) :
                  i \in IdsOf(s.msgs) \/ (i \in IdsOf(page) /\ ~ MessageTombstoned(s, i))
             /\ t.tombs = s.tombs /\ t.pruned = s.pruned
<1> DEFINE at == {k \in DOMAIN page : /\ ~ MessageTombstoned(s, page[k].id)
                                      /\ page[k].id \notin IdsOf(s.msgs)}
           fresh == Chosen(page, at)
           combined == fresh \o s.msgs
           kept == Chosen(combined, KeptIndices(combined, revision))
           new == Restamped(s, kept)
           t == ReplaceMessages(s, kept)
<1>1. /\ s \in StoreState /\ s.rev \in Nat /\ s.msgs \in Seq(Message) /\ s.ringRev \in Nat
      /\ s.pruned <= s.rev /\ s.ringRev <= s.rev
      /\ \A i \in Ids : s.tombs[i] <= s.rev /\ s.tombs[i] \in Nat
  BY DEF Sound, StoreState
<1>2. PrependMessagesSince(s, page, revision) = IF page = <<>> THEN s ELSE t
  BY DEF PrependMessagesSince, Where
<1>3. /\ fresh \in Seq(Message)
      /\ \A k \in DOMAIN fresh : \E j \in at : fresh[k] = page[j]
  <2> HIDE DEF at
  <2>. QED BY ChosenEntries
<1> HIDE DEF fresh
<1>4. /\ combined \in Seq(Message)
      /\ \A k \in DOMAIN combined : \/ \E j \in DOMAIN fresh : combined[k] = fresh[j]
                                    \/ \E j \in DOMAIN s.msgs : combined[k] = s.msgs[j]
  <2>1. combined \in Seq(Message)
    BY <1>1, <1>3
  <2>2. /\ Len(fresh) \in Nat /\ Len(s.msgs) \in Nat /\ Len(combined) = Len(fresh) + Len(s.msgs)
        /\ DOMAIN fresh = 1 .. Len(fresh) /\ DOMAIN s.msgs = 1 .. Len(s.msgs)
        /\ DOMAIN combined = 1 .. Len(combined)
        /\ \A k \in 1 .. Len(combined) :
             combined[k] = IF k <= Len(fresh) THEN fresh[k] ELSE s.msgs[k - Len(fresh)]
    BY <1>1, <1>3
  <2>3. ASSUME NEW k \in DOMAIN combined
        PROVE  \/ \E j \in DOMAIN fresh : combined[k] = fresh[j]
               \/ \E j \in DOMAIN s.msgs : combined[k] = s.msgs[j]
    <3> HIDE DEF combined
    <3>1. CASE k <= Len(fresh)
      <4>1. k \in DOMAIN fresh /\ combined[k] = fresh[k]
        BY <2>2, <3>1
      <4>. QED BY <4>1
    <3>2. CASE ~ k <= Len(fresh)
      <4>1. k - Len(fresh) \in DOMAIN s.msgs /\ combined[k] = s.msgs[k - Len(fresh)]
        BY <2>2, <3>2
      <4>. QED BY <4>1
    <3>. QED BY <3>1, <3>2
  <2>. QED BY <2>1, <2>3
<1> HIDE DEF combined
<1>5. /\ kept \in Seq(Message)
      /\ \A k \in DOMAIN kept : \E j \in DOMAIN combined : kept[k] = combined[j]
  BY <1>4, ChosenEntries
<1> HIDE DEF kept
<1>6. /\ new \in Seq(Message) /\ DOMAIN new = DOMAIN kept
      /\ \A k \in DOMAIN new : new[k].id = kept[k].id /\ new[k].rev = s.rev + k
  BY <1>5, RestampedEntries
<1>7. Len(kept) \in Nat /\ DOMAIN kept = 1 .. Len(kept) /\ (kept = <<>> <=> Len(kept) = 0)
  BY <1>5, EmptySeq
<1>8. t = [s EXCEPT !.rev = s.rev + Len(kept), !.msgs = new,
                    !.ringRev = IF kept = <<>> THEN 0 ELSE s.rev + Len(kept)]
  BY <1>1 DEF ReplaceMessages, StoreState
<1>9. new = <<>> <=> kept = <<>>
  BY <1>6, <1>7, EmptySeq
<1> HIDE DEF new, t, at
<1>10. /\ t \in StoreState /\ t.rev = s.rev + Len(kept) /\ t.msgs = new
       /\ t.ringRev = (IF kept = <<>> THEN 0 ELSE s.rev + Len(kept))
       /\ t.tombs = s.tombs /\ t.pruned = s.pruned
  <2>1. s.rev + Len(kept) \in Nat
    BY <1>1, <1>7
  <2>. QED BY <1>1, <1>6, <1>8, <2>1 DEF StoreState
<1>11. Sound(t)
  <2>1. \A k \in DOMAIN t.msgs : t.msgs[k].rev \in 1 .. t.rev
    BY <1>1, <1>6, <1>7, <1>10
  <2>2. \A i \in Ids : t.tombs[i] <= t.rev
    BY <1>1, <1>7, <1>10
  <2>3. t.ringRev <= t.rev /\ t.pruned <= t.rev /\ (t.ringRev = 0 => t.msgs = <<>>)
    BY <1>1, <1>7, <1>9, <1>10 DEF StoreState
  <2>. QED BY <1>10, <2>1, <2>2, <2>3 DEF Sound
<1>12. Follows(s, t)
  <2>1. kept # <<>> => t.ringRev > s.rev
    BY <1>1, <1>7, <1>10
  <2>. QED BY <1>1, <1>7, <1>9, <1>10, <1>11, <2>1 DEF Follows
<1>13. ASSUME NEW i \in IdsOf(t.msgs)
       PROVE  i \in IdsOf(s.msgs) \/ (i \in IdsOf(page) /\ ~ MessageTombstoned(s, i))
  <2>1. PICK k \in DOMAIN new : new[k].id = i /\ i # 0
    BY <1>10, IdsOfEntries
  <2>2. PICK j \in DOMAIN combined : combined[j].id = i
    BY <1>5, <1>6, <2>1
  <2>3. CASE \E l \in DOMAIN s.msgs : combined[j] = s.msgs[l]
    BY <2>1, <2>2, <2>3, IdsOfEntries
  <2>4. CASE \E l \in DOMAIN fresh : combined[j] = fresh[l]
    <3>1. PICK h \in at : page[h].id = i
      BY <1>3, <2>2, <2>4
    <3>2. h \in DOMAIN page /\ ~ MessageTombstoned(s, i)
      BY <3>1 DEF at
    <3>. QED BY <2>1, <3>1, <3>2, IdsOfEntries
  <2>. QED BY <1>4, <2>3, <2>4
<1>14. CASE page = <<>>
  <2>1. Follows(s, s)
    BY Burns
  <2>. QED BY <1>2, <1>14, <2>1
<1>15. CASE page # <<>>
  BY <1>2, <1>10, <1>12, <1>13, <1>15
<1>. QED BY <1>14, <1>15

\* A sequence of messages has a newest one.
LEMMA Newest ==
  ASSUME NEW msgs \in Seq(Message), msgs # <<>>, NEW n \in Nat,
         \A k \in DOMAIN msgs : msgs[k].rev \in 1 .. n
  PROVE  LET newest == CHOOSE m \in ToSet(msgs) : \A k \in ToSet(msgs) : k.rev <= m.rev
         IN  /\ newest \in ToSet(msgs) /\ newest.rev \in 1 .. n
             /\ \A k \in DOMAIN msgs : msgs[k].rev <= newest.rev
<1> DEFINE M == ToSet(msgs)
           ages == {n - m.rev : m \in M}
           newest == CHOOSE m \in M : \A k \in M : k.rev <= m.rev
<1>1. \A m \in M : m.rev \in 1 .. n
  BY DEF ToSet
<1>2. \A k \in DOMAIN msgs : msgs[k] \in M
  BY DEF ToSet
<1>3. M # {}
  <2>1. Len(msgs) \in Nat \ {0}
    BY EmptySeq
  <2>2. 1 \in DOMAIN msgs
    BY <2>1
  <2>. QED BY <1>2, <2>2
<1> HIDE DEF M
<1>4. ages \in SUBSET Nat /\ ages # {}
  BY <1>1, <1>3
<1>5. PICK a \in ages : \A b \in ages : a <= b
  <2> HIDE DEF ages
  <2>. QED BY <1>4, Least
<1>6. PICK m \in M : a = n - m.rev
  OBVIOUS
<1>7. \A k \in M : k.rev <= m.rev
  <2> SUFFICES ASSUME NEW k \in M PROVE k.rev <= m.rev
    OBVIOUS
  <2>1. n - k.rev \in ages
    OBVIOUS
  <2>2. n - m.rev <= n - k.rev
    BY <1>5, <1>6, <2>1
  <2>3. k.rev \in 1 .. n /\ m.rev \in 1 .. n
    BY <1>1
  <2>. QED BY <2>2, <2>3
<1>8. newest \in M /\ \A k \in M : k.rev <= newest.rev
  BY <1>7
<1> HIDE DEF newest
<1>9. newest \in M /\ newest.rev \in 1 .. n /\ \A k \in DOMAIN msgs : msgs[k].rev <= newest.rev
  BY <1>1, <1>2, <1>8
<1>. QED BY <1>9 DEF newest, M

\* The entries of a concatenation are those of its parts.
LEMMA JoinedEntries ==
  ASSUME NEW S, NEW a \in Seq(S), NEW b \in Seq(S)
  PROVE  /\ a \o b \in Seq(S)
         /\ \A k \in DOMAIN (a \o b) : \/ \E j \in DOMAIN a : (a \o b)[k] = a[j]
                                       \/ \E j \in DOMAIN b : (a \o b)[k] = b[j]
         /\ \A k \in DOMAIN a : k \in DOMAIN (a \o b) /\ (a \o b)[k] = a[k]
         /\ a \o b = <<>> => a = <<>>
<1> DEFINE c == a \o b
<1>1. c \in Seq(S)
  OBVIOUS
<1>2. /\ Len(a) \in Nat /\ Len(b) \in Nat /\ Len(c) = Len(a) + Len(b)
      /\ DOMAIN a = 1 .. Len(a) /\ DOMAIN b = 1 .. Len(b) /\ DOMAIN c = 1 .. Len(c)
      /\ \A k \in 1 .. Len(c) : c[k] = IF k <= Len(a) THEN a[k] ELSE b[k - Len(a)]
  OBVIOUS
<1>3. ASSUME NEW k \in DOMAIN c
      PROVE  (\E j \in DOMAIN a : c[k] = a[j]) \/ (\E j \in DOMAIN b : c[k] = b[j])
  <2> HIDE DEF c
  <2>1. CASE k <= Len(a)
    <3>1. k \in DOMAIN a /\ c[k] = a[k]
      BY <1>2, <2>1
    <3>. QED BY <3>1
  <2>2. CASE ~ k <= Len(a)
    <3>1. k - Len(a) \in DOMAIN b /\ c[k] = b[k - Len(a)]
      BY <1>2, <2>2
    <3>. QED BY <3>1
  <2>. QED BY <2>1, <2>2
<1>4. \A k \in DOMAIN a : k \in DOMAIN c /\ c[k] = a[k]
  <2> HIDE DEF c
  <2>. QED BY <1>2
<1>5. c = <<>> => a = <<>>
  <2>1. c = <<>> => Len(c) = 0
    BY EmptySeq
  <2>2. Len(a) = 0 => a = <<>>
    BY EmptySeq
  <2> HIDE DEF c
  <2>. QED BY <1>2, <2>1, <2>2
<1>. QED BY <1>1, <1>3, <1>4, <1>5

\* A page is installed, and the echoes it does not confirm stay.
LEMMA Installs ==
  ASSUME NEW s, Sound(s), NEW page \in Seq(Message)
  PROVE  LET t == SetMessages(s, page)
         IN  /\ Sound(t) /\ t.rev >= s.rev
             /\ \/ Follows(s, t)
                \/ /\ page = <<>> /\ t.msgs # <<>>
                   /\ \A m \in ToSet(t.msgs) : Unresolved(m) /\ m \in ToSet(s.msgs)
             /\ \A i \in IdsOf(t.msgs) : i \in IdsOf(s.msgs) \/ i \in IdsOf(page)
             /\ t.tombs = ClearTombstones(s, IdsOf(page)) /\ t.pruned = s.pruned
<1> DEFINE at == {k \in DOMAIN s.msgs : /\ Unresolved(s.msgs[k])
                                        /\ ~ \E c \in ToSet(page) :
                                             c.nonce = s.msgs[k].nonce /\ s.msgs[k].nonce # NoNonce}
           echoes == Chosen(s.msgs, at)
           new == Restamped(s, page)
           pushed == new \o echoes
           newest == CHOOSE m \in ToSet(pushed) : \A k \in ToSet(pushed) : k.rev <= m.rev
           ringRev == IF pushed = <<>> THEN 0 ELSE newest.rev
           window == Window(pushed)
           tombs == ClearTombstones(s, IdsOf(page))
           rev == s.rev + Len(page)
           t == SetMessages(s, page)
<1>1. /\ s \in StoreState /\ s.rev \in Nat /\ s.msgs \in Seq(Message) /\ s.ringRev \in Nat
      /\ s.pruned <= s.rev /\ s.ringRev <= s.rev /\ s.pruned \in Nat
      /\ \A k \in DOMAIN s.msgs : s.msgs[k].rev \in 1 .. s.rev
  BY DEF Sound, StoreState
<1>2. UnconfirmedEchoes(s, page) = echoes
  BY DEF UnconfirmedEchoes, Where
<1>3. t = [s EXCEPT !.rev = rev, !.msgs = window, !.ringRev = ringRev, !.tombs = tombs]
  <2> HIDE DEF echoes
  <2>. QED BY <1>1, <1>2 DEF SetMessages, StoreState
<1>4. /\ echoes \in Seq(Message)
      /\ \A k \in DOMAIN echoes : \E j \in DOMAIN s.msgs :
           echoes[k] = s.msgs[j] /\ Unresolved(s.msgs[j])
  <2>1. /\ echoes \in Seq(Message)
        /\ \A k \in DOMAIN echoes : \E j \in at : echoes[k] = s.msgs[j]
    <3> HIDE DEF at
    <3>. QED BY <1>1, ChosenEntries
  <2> HIDE DEF echoes
  <2>. QED BY <2>1
<1>5. /\ new \in Seq(Message) /\ DOMAIN new = DOMAIN page
      /\ \A k \in DOMAIN new : new[k].id = page[k].id /\ new[k].rev = s.rev + k
  BY RestampedEntries
<1>6. Len(page) \in Nat /\ DOMAIN page = 1 .. Len(page) /\ (page = <<>> <=> Len(page) = 0)
  BY EmptySeq
<1> HIDE DEF echoes, new, at
<1>7. /\ pushed \in Seq(Message)
      /\ \A k \in DOMAIN pushed : \/ \E j \in DOMAIN new : pushed[k] = new[j]
                                  \/ \E j \in DOMAIN echoes : pushed[k] = echoes[j]
      /\ \A k \in DOMAIN new : k \in DOMAIN pushed /\ pushed[k] = new[k]
      /\ pushed = <<>> => new = <<>>
  BY <1>4, <1>5, JoinedEntries
<1> HIDE DEF pushed
<1>8. rev \in Nat /\ rev >= s.rev /\ \A k \in DOMAIN pushed : pushed[k].rev \in 1 .. rev
  <2>1. rev \in Nat /\ rev >= s.rev
    BY <1>1, <1>6
  <2>2. ASSUME NEW k \in DOMAIN pushed PROVE pushed[k].rev \in 1 .. rev
    <3>1. CASE \E j \in DOMAIN new : pushed[k] = new[j]
      BY <1>1, <1>5, <1>6, <3>1
    <3>2. CASE \E j \in DOMAIN echoes : pushed[k] = echoes[j]
      <4>1. PICK j \in DOMAIN s.msgs : pushed[k] = s.msgs[j]
        BY <1>4, <3>2
      <4>2. s.msgs[j].rev \in 1 .. s.rev
        BY <1>1
      <4> HIDE DEF rev
      <4>. QED BY <1>1, <2>1, <4>1, <4>2
    <3>. QED BY <1>7, <3>1, <3>2
  <2>. QED BY <2>1, <2>2
<1>9. /\ window \in Seq(Message)
      /\ \A k \in DOMAIN window : \E j \in DOMAIN pushed : window[k] = pushed[j]
      /\ (pushed = <<>>) <=> (window = <<>>)
  BY <1>7, Windowed
<1>10. pushed # <<>> => /\ newest.rev \in 1 .. rev
                        /\ \A k \in DOMAIN pushed : pushed[k].rev <= newest.rev
  <2> HIDE DEF rev
  <2>. QED BY <1>7, <1>8, Newest
<1> HIDE DEF newest
<1>11. /\ ringRev \in Nat /\ ringRev <= rev
       /\ pushed = <<>> => ringRev = 0
       /\ pushed # <<>> => ringRev > 0
  <2> HIDE DEF rev
  <2>. QED BY <1>8, <1>10
<1>12. page # <<>> => ringRev > s.rev
  <2> SUFFICES ASSUME page # <<>> PROVE ringRev > s.rev
    OBVIOUS
  <2>1. 1 \in DOMAIN page /\ 1 \in DOMAIN new /\ new[1].rev = s.rev + 1
    BY <1>5, <1>6
  <2>2. pushed # <<>>
    <3>1. new # <<>>
      BY <2>1
    <3>. QED BY <1>7, <3>1
  <2>3. s.rev + 1 <= newest.rev /\ newest.rev \in Nat
    <3>1. pushed[1].rev = s.rev + 1 /\ 1 \in DOMAIN pushed
      BY <1>7, <2>1
    <3>2. newest.rev \in 1 .. rev
      BY <1>10, <2>2
    <3> HIDE DEF rev
    <3>. QED BY <1>10, <2>2, <3>1, <3>2
  <2>. QED BY <1>1, <2>2, <2>3
<1>13. /\ tombs \in [Ids -> Nat] /\ \A i \in Ids : tombs[i] <= rev
  <2>1. tombs \in [Ids -> Nat] /\ \A i \in Ids : tombs[i] <= s.rev
    BY Clears
  <2>2. \A i \in Ids : tombs[i] \in Nat
    BY <2>1
  <2> HIDE DEF tombs, rev
  <2>. QED BY <1>1, <1>8, <2>1, <2>2
<1> HIDE DEF t, ringRev, window, tombs, rev
<1>14. /\ t \in StoreState /\ t.rev = rev /\ t.msgs = window /\ t.ringRev = ringRev
       /\ t.tombs = tombs /\ t.pruned = s.pruned
  BY <1>1, <1>3, <1>8, <1>9, <1>11, <1>13 DEF StoreState
<1>15. Sound(t)
  <2>1. \A k \in DOMAIN t.msgs : t.msgs[k].rev \in 1 .. t.rev
    BY <1>8, <1>9, <1>14
  <2>2. t.pruned <= t.rev
    BY <1>1, <1>8, <1>14
  <2>3. t.ringRev = 0 => t.msgs = <<>>
    BY <1>9, <1>11, <1>14
  <2>. QED BY <1>11, <1>13, <1>14, <2>1, <2>2, <2>3 DEF Sound
<1>16. \/ Follows(s, t)
       \/ /\ page = <<>> /\ t.msgs # <<>>
          /\ \A m \in ToSet(t.msgs) : Unresolved(m) /\ m \in ToSet(s.msgs)
  <2>1. CASE page # <<>>
    BY <1>8, <1>12, <1>14, <1>15, <2>1 DEF Follows
  <2>2. CASE pushed = <<>>
    BY <1>8, <1>9, <1>11, <1>14, <1>15, <2>2 DEF Follows
  <2>3. CASE page = <<>> /\ pushed # <<>>
    <3>1. t.msgs # <<>>
      BY <1>9, <1>14, <2>3
    <3>2. DOMAIN new = {}
      BY <1>5, <1>6, <2>3
    <3>3. ASSUME NEW k \in DOMAIN t.msgs
          PROVE  \E j \in DOMAIN s.msgs : t.msgs[k] = s.msgs[j] /\ Unresolved(s.msgs[j])
      BY <1>4, <1>7, <1>9, <1>14, <3>2
    <3>4. \A m \in ToSet(t.msgs) : Unresolved(m) /\ m \in ToSet(s.msgs)
      BY <3>3 DEF ToSet
    <3>. QED BY <2>3, <3>1, <3>4
  <2>. QED BY <2>1, <2>2, <2>3
<1>17. ASSUME NEW i \in IdsOf(t.msgs) PROVE i \in IdsOf(s.msgs) \/ i \in IdsOf(page)
  <2>1. PICK k \in DOMAIN pushed : pushed[k].id = i /\ i # 0
    BY <1>9, <1>14, IdsOfEntries
  <2>2. CASE \E j \in DOMAIN new : pushed[k] = new[j]
    BY <1>5, <2>1, <2>2, IdsOfEntries
  <2>3. CASE \E j \in DOMAIN echoes : pushed[k] = echoes[j]
    BY <1>4, <2>1, <2>3, IdsOfEntries
  <2>. QED BY <1>7, <2>2, <2>3
<1>. QED BY <1>8, <1>14, <1>15, <1>16, <1>17 DEF t, tombs

\* The messages an initial page and the cache are merged into: none of them has a
\* tombstone, and each is in the page or in the cache.
LEMMA Merges ==
  ASSUME NEW s, Sound(s), NEW page \in Seq(Message), NEW revision
  PROVE  LET merged == MergeInitialHistory(s, page, revision)
         IN  /\ merged \in Seq(Message)
             /\ \A i \in IdsOf(merged) :
                  /\ ~ MessageTombstoned(s, i)
                  /\ i \in IdsOf(page) \/ i \in IdsOf(s.msgs)
<1> DEFINE same(m) == {k \in DOMAIN s.msgs : s.msgs[k].id = m.id}
           at == {k \in DOMAIN page : ~ MessageTombstoned(s, page[k].id)}
           late == {k \in DOMAIN s.msgs : /\ Newer(s.msgs[k], revision) /\ ~ Unresolved(s.msgs[k])
                                          /\ ~ MessageTombstoned(s, s.msgs[k].id)
                                          /\ s.msgs[k].id \notin IdsOf(page)}
           current == Chosen(page, at)
           arrivals == Chosen(s.msgs, late)
           won(k) == Winner(Chosen(s.msgs, same(current[k])), current[k], revision)
           winners == [k \in DOMAIN current |-> won(k)]
           merged == winners \o arrivals
<1>1. s.msgs \in Seq(Message)
  BY DEF Sound, StoreState
<1>2. MergeInitialHistory(s, page, revision) = merged
  BY DEF MergeInitialHistory, Where
<1>3. /\ current \in Seq(Message)
      /\ \A k \in DOMAIN current : \E j \in DOMAIN page :
           current[k] = page[j] /\ ~ MessageTombstoned(s, page[j].id)
  <2>1. /\ current \in Seq(Message)
        /\ \A k \in DOMAIN current : \E j \in at : current[k] = page[j]
    <3> HIDE DEF at
    <3>. QED BY ChosenEntries
  <2> HIDE DEF current
  <2>. QED BY <2>1
<1>4. /\ arrivals \in Seq(Message)
      /\ \A k \in DOMAIN arrivals : \E j \in DOMAIN s.msgs :
           arrivals[k] = s.msgs[j] /\ ~ MessageTombstoned(s, s.msgs[j].id)
  <2>1. /\ arrivals \in Seq(Message)
        /\ \A k \in DOMAIN arrivals : \E j \in late : arrivals[k] = s.msgs[j]
    <3> HIDE DEF late
    <3>. QED BY <1>1, ChosenEntries
  <2> HIDE DEF arrivals
  <2>. QED BY <2>1
<1> HIDE DEF current, arrivals
<1>5. ASSUME NEW k \in DOMAIN current PROVE won(k) \in Message /\ won(k).id = current[k].id
  <2> DEFINE copies == Chosen(s.msgs, same(current[k]))
  <2>1. /\ copies \in Seq(Message)
        /\ \A l \in DOMAIN copies : \E j \in same(current[k]) : copies[l] = s.msgs[j]
    <3> HIDE DEF same
    <3>. QED BY <1>1, ChosenEntries
  <2>2. \A l \in DOMAIN copies : copies[l].id = current[k].id
    <3> HIDE DEF copies
    <3>. QED BY <2>1
  <2>3. current[k] \in Message
    BY <1>3
  <2>4. won(k) = IF copies # <<>> /\ Newer(Last(copies), revision) THEN Last(copies) ELSE current[k]
    BY DEF Winner
  <2> HIDE DEF copies, won
  <2>5. copies # <<>> => Last(copies) \in Message /\ Last(copies).id = current[k].id
    <3> SUFFICES ASSUME copies # <<>>
                 PROVE  Last(copies) \in Message /\ Last(copies).id = current[k].id
      OBVIOUS
    <3>1. Len(copies) \in Nat \ {0} /\ DOMAIN copies = 1 .. Len(copies)
      BY <2>1, EmptySeq
    <3>2. Len(copies) \in DOMAIN copies /\ Last(copies) = copies[Len(copies)]
      BY <3>1 DEF Last
    <3>. QED BY <2>1, <2>2, <3>2
  <2>. QED BY <2>3, <2>4, <2>5
<1>6. /\ winners \in Seq(Message)
      /\ \A k \in DOMAIN winners : k \in DOMAIN current /\ winners[k].id = current[k].id
  <2>1. Len(current) \in Nat /\ DOMAIN current = 1 .. Len(current)
    BY <1>3
  <2> HIDE DEF won
  <2>2. winners = [k \in 1 .. Len(current) |-> won(k)]
    BY <2>1
  <2>. QED BY <1>5, <2>1, <2>2
<1> HIDE DEF winners
<1>7. /\ merged \in Seq(Message)
      /\ \A k \in DOMAIN merged : \/ \E j \in DOMAIN winners : merged[k] = winners[j]
                                  \/ \E j \in DOMAIN arrivals : merged[k] = arrivals[j]
  <2>1. winners \in Seq(Message) /\ arrivals \in Seq(Message)
    BY <1>4, <1>6
  <2>2. /\ winners \o arrivals \in Seq(Message)
        /\ \A k \in DOMAIN (winners \o arrivals) :
             \/ \E j \in DOMAIN winners : (winners \o arrivals)[k] = winners[j]
             \/ \E j \in DOMAIN arrivals : (winners \o arrivals)[k] = arrivals[j]
    BY <2>1, JoinedEntries, SMTT(30)
  <2>. QED BY <2>2
<1> HIDE DEF merged
<1>8. ASSUME NEW i \in IdsOf(merged)
      PROVE  /\ ~ MessageTombstoned(s, i)
             /\ i \in IdsOf(page) \/ i \in IdsOf(s.msgs)
  <2>1. PICK k \in DOMAIN merged : merged[k].id = i /\ i # 0
    BY IdsOfEntries
  <2>2. CASE \E j \in DOMAIN winners : merged[k] = winners[j]
    <3>1. PICK j \in DOMAIN current : current[j].id = i
      BY <1>6, <2>1, <2>2
    <3>. QED BY <1>3, <2>1, <3>1, IdsOfEntries
  <2>3. CASE \E j \in DOMAIN arrivals : merged[k] = arrivals[j]
    BY <1>4, <2>1, <2>3, IdsOfEntries
  <2>. QED BY <1>7, <2>2, <2>3
<1>. QED BY <1>2, <1>7, <1>8

RankIn(S, i) == Cardinality({j \in S : j <= i})

\* Ranks number the elements of a finite set of naturals, one for each.
LEMMA RankBijective ==
  ASSUME NEW S \in SUBSET Nat, IsFiniteSet(S)
  PROVE  /\ \A i \in S : RankIn(S, i) \in 1..Cardinality(S)
         /\ \A i, h \in S : RankIn(S, i) = RankIn(S, h) => i = h
         /\ \A n \in 1..Cardinality(S) : \E i \in S : RankIn(S, i) = n
<1> DEFINE upTo(i) == {j \in S : j <= i}
           rank == [i \in S |-> Cardinality(upTo(i))]
           ranks == 1..Cardinality(S)
<1>1. Cardinality(S) \in Nat
  BY FS_CardinalityType
<1>2. \A i \in S : /\ upTo(i) \in SUBSET S /\ IsFiniteSet(upTo(i))
                   /\ Cardinality(upTo(i)) \in Nat /\ Cardinality(upTo(i)) <= Cardinality(S)
  BY FS_Subset, FS_CardinalityType
<1>3. \A i \in S : Cardinality(upTo(i)) # 0
  <2> SUFFICES ASSUME NEW i \in S PROVE Cardinality(upTo(i)) # 0
    OBVIOUS
  <2>1. i \in upTo(i)
    OBVIOUS
  <2>. QED BY <1>2, <2>1, FS_EmptySet
<1>4. rank \in [S -> ranks]
  BY <1>1, <1>2, <1>3
<1>5. \A i, h \in S : i < h => rank[i] # rank[h]
  <2> SUFFICES ASSUME NEW i \in S, NEW h \in S, i < h PROVE rank[i] # rank[h]
    OBVIOUS
  <2>1. i \in Nat /\ h \in Nat /\ \A j \in S : j \in Nat
    OBVIOUS
  <2>2. upTo(i) \in SUBSET upTo(h)
    <3>1. \A j \in S : j <= i => j <= h
      BY <2>1
    <3>. QED BY <3>1
  <2>3. h \in upTo(h) /\ h \notin upTo(i)
    BY <2>1
  <2>4. Cardinality(upTo(h)) # Cardinality(upTo(i))
    BY <1>2, <2>2, <2>3, FS_Subset
  <2>. QED BY <2>4
<1>6. \A i, h \in S : rank[i] = rank[h] => i = h
  <2>1. \A i, h \in S : i < h \/ h < i \/ i = h
    OBVIOUS
  <2>. QED BY <1>5, <2>1
<1>7. rank \in Injection(S, ranks)
  BY <1>4, <1>6 DEF Injection, IsInjective
<1>8. IsFiniteSet(ranks) /\ Cardinality(ranks) = Cardinality(S)
  BY <1>1, FS_Interval
<1>9. rank \in Surjection(S, ranks)
  BY <1>7, <1>8, FS_Injection
<1>10. \A n \in ranks : \E i \in S : rank[i] = n
  BY <1>9 DEF Surjection
<1>11. \A i \in S : RankIn(S, i) = rank[i]
  BY DEF RankIn
<1> HIDE DEF rank
<1>12. \A i \in S : RankIn(S, i) \in ranks
  BY <1>4, <1>11
<1>13. \A i, h \in S : RankIn(S, i) = RankIn(S, h) => i = h
  BY <1>6, <1>11
<1>. QED BY <1>10, <1>11, <1>12, <1>13

\* The first message the server has not given out exists, if there is one.
LEMMA NextIsUnborn ==
  ASSUME Unborn # {}
  PROVE  NextId \in Unborn
<1>1. Unborn \in SUBSET Nat
  BY StoreAssumption DEF Unborn
<1>. QED BY <1>1, Least DEF NextId

\* What the server lists is what it was asked to list.
LEMMA Listed ==
  ASSUME NEW S \in SUBSET Ids
  PROVE  /\ InOrder(S) \in Seq(S) /\ DOMAIN InOrder(S) = 1 .. Cardinality(S)
         /\ Cardinality(S) \in Nat
         /\ S # {} => InOrder(S) # <<>>
         /\ ToSet(InOrder(S)) = S
<1>1. S \in SUBSET Nat /\ IsFiniteSet(S) /\ Cardinality(S) \in Nat
  BY StoreAssumption, TimelineAssumption, FS_Subset, FS_CardinalityType
<1>2. ASSUME NEW n \in 1 .. Cardinality(S)
      PROVE  Nth(S, n) \in S /\ RankIn(S, Nth(S, n)) = n
  <2>1. \E i \in S : Cardinality({j \in S : j <= i}) = n
    BY <1>1, RankBijective DEF RankIn
  <2>. QED BY <2>1 DEF Nth, RankIn
<1>3. InOrder(S) = [k \in 1 .. Cardinality(S) |-> Nth(S, k)]
  BY DEF InOrder
<1>4. InOrder(S) \in Seq(S) /\ DOMAIN InOrder(S) = 1 .. Cardinality(S)
      /\ \A k \in 1 .. Cardinality(S) : InOrder(S)[k] = Nth(S, k)
  BY <1>1, <1>2, <1>3
<1>5. ASSUME NEW i \in S PROVE \E k \in 1 .. Cardinality(S) : InOrder(S)[k] = i
  <2> DEFINE n == RankIn(S, i)
  <2>1. n \in 1 .. Cardinality(S)
    BY <1>1, RankBijective
  <2>2. Nth(S, n) \in S /\ RankIn(S, Nth(S, n)) = n
    <3> HIDE DEF n
    <3>. QED BY <1>2, <2>1
  <2>3. \A h, j \in S : RankIn(S, h) = RankIn(S, j) => h = j
    BY <1>1, RankBijective
  <2>4. Nth(S, n) = i
    BY <2>2, <2>3
  <2>. QED BY <1>4, <2>1, <2>4
<1>6. ToSet(InOrder(S)) = S
  BY <1>2, <1>4, <1>5 DEF ToSet
<1>7. S # {} => InOrder(S) # <<>>
  <2>1. S # {} => DOMAIN InOrder(S) # {}
    BY <1>4, <1>5
  <2>. QED BY <2>1
<1>. QED BY <1>1, <1>4, <1>6, <1>7

-----------------------------------------------------------------------------
(* Events, as the server sends them                                        *)

\* What the server reports as deleted stays deleted.
LEMMA LegalStays ==
  ASSUME Deleted \subseteq Deleted'
  PROVE  Legal \subseteq Legal'
BY DEF Legal, Event

\* An event is sent, or the oldest one is taken.
LEMMA WireKept ==
  ASSUME wire \in Seq(Legal), Deleted \subseteq Deleted',
         \/ wire' = wire
         \/ wire # <<>> /\ wire' = Tail(wire)
         \/ \E e \in Legal' : wire' = Append(wire, e)
  PROVE  wire' \in Seq(Legal')
<1>1. wire \in Seq(Legal')
  BY LegalStays, SeqMonotonic
<1>2. CASE wire' = wire \/ (wire # <<>> /\ wire' = Tail(wire))
  BY <1>1, <1>2
<1>3. ASSUME NEW e \in Legal', wire' = Append(wire, e) PROVE wire' \in Seq(Legal')
  BY <1>1, <1>3
<1>. QED BY <1>2, <1>3

\* The oldest event, by its type.
LEMMA OldestEvent ==
  ASSUME wire \in Seq(Legal), wire # <<>>
  PROVE  LET e == Head(wire)
         IN  /\ e.type \in {"create", "update"} =>
                  e.id \in Ids /\ e.nonce \in Nonces \cup {NoNonce} /\ e.body \in Nat
             /\ e.type = "delete" =>
                  e.ids \in Seq(Ids) /\ e.ids # <<>> /\ ToSet(e.ids) \subseteq Deleted
             /\ e.type = "channelCreate" => e.last \in Ids \cup {0}
<1> DEFINE e == Head(wire)
<1>1. e \in Legal
  OBVIOUS
<1> HIDE DEF e
<1>2. e \in Event /\ (e.type = "delete" => e.ids # <<>> /\ ToSet(e.ids) \subseteq Deleted)
  BY <1>1 DEF Legal
<1>3. /\ e.type \in {"create", "update"} =>
           e.id \in Ids /\ e.nonce \in Nonces \cup {NoNonce} /\ e.body \in Nat
      /\ e.type = "delete" => e.ids \in Seq(Ids)
      /\ e.type = "channelCreate" => e.last \in Ids \cup {0}
  BY <1>2 DEF Event
<1>. QED BY <1>2, <1>3 DEF e

\* The newest message that is live is one of the server's, if there is any.
LEMMA LastLiveKnown == LastLive \in Ids \cup {0} /\ LastLive \in Nat
<1> DEFINE S == Live
<1>1. S \in SUBSET Ids /\ S \in SUBSET Nat /\ IsFiniteSet(S) /\ Cardinality(S) \in Nat
  BY StoreAssumption, TimelineAssumption, FS_Subset, FS_CardinalityType DEF Live
<1> HIDE DEF S
<1>2. ASSUME S # {} PROVE \E i \in S : \A j \in S : j <= i
  <2>1. Cardinality(S) \in 1 .. Cardinality(S)
    BY <1>1, <1>2, FS_EmptySet
  <2>2. PICK i \in S : RankIn(S, i) = Cardinality(S)
    BY <1>1, <2>1, RankBijective
  <2> DEFINE upTo == {j \in S : j <= i}
  <2>3. upTo \in SUBSET S /\ Cardinality(upTo) = Cardinality(S)
    BY <2>2 DEF RankIn
  <2>4. upTo = S
    <3> HIDE DEF upTo
    <3>. QED BY <1>1, <2>3, FS_Subset
  <2>. QED BY <2>4
<1>3. LastLive = IF S = {} THEN 0 ELSE CHOOSE i \in S : \A j \in S : j <= i
  BY DEF LastLive, S
<1>4. S # {} => LastLive \in S
  BY <1>2, <1>3
<1>. QED BY <1>1, <1>3, <1>4

\* What the server may send.
LEMMA Sends ==
  /\ \A id \in Ids : \A nonce \in Nonces \cup {NoNonce} : \A body \in Nat :
       \A type \in {"create", "update"} :
         [type |-> type, id |-> id, nonce |-> nonce, body |-> body] \in Legal
  /\ \A ids \in Seq(Ids) : ids # <<>> /\ ToSet(ids) \subseteq Deleted =>
       [type |-> "delete", ids |-> ids] \in Legal
  /\ [type |-> "channelDelete"] \in Legal
  /\ \A last \in Ids \cup {0} : [type |-> "channelCreate", last |-> last] \in Legal
<1>1. ASSUME NEW id \in Ids, NEW nonce \in Nonces \cup {NoNonce}, NEW body \in Nat,
             NEW type \in {"create", "update"}
      PROVE  [type |-> type, id |-> id, nonce |-> nonce, body |-> body] \in Legal
  BY DEF Legal, Event
<1>2. ASSUME NEW ids \in Seq(Ids), ids # <<>> /\ ToSet(ids) \subseteq Deleted
      PROVE  [type |-> "delete", ids |-> ids] \in Legal
  BY <1>2 DEF Legal, Event
<1>3. [type |-> "channelDelete"] \in Legal
  BY DEF Legal, Event
<1>4. ASSUME NEW last \in Ids \cup {0} PROVE [type |-> "channelCreate", last |-> last] \in Legal
  BY DEF Legal, Event
<1>. QED BY <1>1, <1>2, <1>3, <1>4

-----------------------------------------------------------------------------
(* Steps of the tombstones' mechanism                                      *)

\* A step that is one of the mechanism, or leaves it alone.
StepsTombs == TB!Next \/ UNCHANGED TB!vars

\* What a step changes of the messages it has stamped, but for one case.
Stamps == Follows(store, store') \/ OnlyEchoesLeft

\* Requests that do not change are not seen to change.
LEMMA StillSeen ==
  ASSUME UNCHANGED reqs
  PROVE  UNCHANGED SeenRequests
BY DEF SeenRequests, RequestOf, InFlight, IdsOf, ToSet

\* A step that changes nothing the mechanism sees.
LEMMA Quiet ==
  ASSUME UNCHANGED <<store, life, reqs, gone>>, Deleted' = Deleted
  PROVE  UNCHANGED TB!vars
BY StillSeen DEF TB!vars, IdsOf, ToSet

\* A step that only edits, appends an echo or trims is a Touch.
LEMMA TouchStep ==
  ASSUME TombIInv, Follows(store, store'), IdsOf(store'.msgs) \subseteq IdsOf(store.msgs),
         store'.tombs = store.tombs, store'.pruned = store.pruned,
         UNCHANGED <<life, reqs, gone>>, Deleted' = Deleted
  PROVE  TB!Next
<1>1. store'.rev \in TB!RevsFrom(store.rev)
  BY DEF Follows, Sound, StoreState, TB!RevsFrom
<1>2. IdsOf(store.msgs)' \in SUBSET IdsOf(store.msgs)
  BY DEF IdsOf, ToSet
<1>3. TB!Touch
  BY <1>1, <1>2, StillSeen DEF TB!Touch
<1>. QED BY <1>3 DEF TB!Next

\* A reconciled creation is a Create.
LEMMA CreateStep ==
  ASSUME TombIInv, NEW id \in Ids, Follows(store, store'),
         IdsOf(store'.msgs) \subseteq IdsOf(store.msgs) \cup {id},
         store'.tombs \in {store.tombs, ClearTombstones(store, {id})},
         store'.pruned = store.pruned, gone' = gone \ {id},
         UNCHANGED <<life, reqs>>, Deleted' = Deleted
  PROVE  TB!Next
<1>1. store'.rev \in TB!RevsFrom(store.rev)
  BY DEF Follows, Sound, StoreState, TB!RevsFrom
<1>2. IdsOf(store.msgs)' \in SUBSET (IdsOf(store.msgs) \cup {id})
  BY DEF IdsOf, ToSet
<1>3. store'.tombs \in {store.tombs, [store.tombs EXCEPT ![id] = 0]}
  <2>1. store.tombs \in [Ids -> Nat]
    BY DEF TombIInv, Sound, StoreState
  <2>2. ClearTombstones(store, {id}) = [store.tombs EXCEPT ![id] = 0]
    BY <2>1 DEF ClearTombstones
  <2>. QED BY <2>2
<1>4. TB!Create(id)
  BY <1>1, <1>2, <1>3, StillSeen DEF TB!Create
<1>. QED BY <1>4 DEF TB!Next

\* Deletes the server has made are a Remove.
LEMMA RemoveStep ==
  ASSUME TombIInv, NEW ids \in SUBSET Deleted, ids # {}, Removes(store, store', ids),
         gone' = gone \cup ids, UNCHANGED <<life, reqs>>, Deleted' = Deleted
  PROVE  TB!Next
<1>1. ids \in SUBSET Ids
  BY DEF Deleted
<1>2. /\ store.rev \in Nat /\ store'.rev \in Nat /\ store'.tombs \in [Ids -> Nat]
      /\ store'.pruned \in Nat /\ store'.pruned <= store'.rev /\ store.pruned \in Nat
      /\ \A i \in Ids : store'.tombs[i] <= store'.rev
  BY DEF Removes, Follows, TombIInv, Sound, StoreState
<1>3. store'.rev \in TB!RevsFrom(store.rev + 1)
  <2>1. store'.rev > store.rev
    BY DEF Removes
  <2>. QED BY <1>2, <2>1 DEF TB!RevsFrom
<1>4. IdsOf(store.msgs)' \in SUBSET IdsOf(store.msgs)
  BY DEF Removes, IdsOf, ToSet
<1>5. store'.pruned \in store.pruned .. store'.rev
  BY <1>2 DEF Removes
<1>6. store'.tombs \in [Ids -> 0 .. store'.rev]
  BY <1>2
<1>7. \A i \in ids : store'.tombs[i] > store.rev \/ store'.pruned >= store.rev + 1
  BY DEF Removes
<1>8. \A i \in Ids \ ids : \/ store'.tombs[i] = store.tombs[i]
                           \/ store'.tombs[i] = 0 /\ store'.pruned >= store.tombs[i]
  BY DEF Removes
<1>9. TB!Remove(ids)
  BY <1>3, <1>4, <1>5, <1>6, <1>7, <1>8, StillSeen DEF TB!Remove, TB!Accounted
<1>. QED BY <1>1, <1>9 DEF TB!Next

\* The channel ends or begins again: its bound is the wire's.
LEMMA LifetimeStep ==
  ASSUME GateIInv, wire # <<>>, Head(wire).type \in {"channelDelete", "channelCreate"},
         life'.gen = life.gen + 1, store'.rev = store.rev,
         \/ store'.msgs = <<>> /\ store'.tombs = [i \in Ids |-> 0] /\ store'.pruned = 0
         \/ store'.msgs = store.msgs /\ store'.tombs = store.tombs /\ store'.pruned = store.pruned,
         UNCHANGED <<reqs, gone>>, Deleted' = Deleted
  PROVE  TB!Next
<1>1. life.gen < MaxLifetimes
  <2>1. wire \in Seq(ToSet(wire)) /\ (LifetimeEvents(wire) # {} => Lifetimes <= MaxLifetimes)
    BY DEF GateIInv, WireBounded
  <2>2. /\ Lifetimes <= MaxLifetimes
        /\ Cardinality(LifetimeEvents(Tail(wire))) + 1 <= Cardinality(LifetimeEvents(wire))
    BY <2>1, CountTail
  <2>3. Cardinality(LifetimeEvents(wire)) \in Nat /\ Cardinality(LifetimeEvents(Tail(wire))) \in Nat
    <3>1. Tail(wire) \in Seq(ToSet(wire))
      BY <2>1
    <3>. QED BY <2>1, <3>1, CountIsNat
  <2>4. life.gen \in Nat
    BY DEF GateIInv, Lifetime
  <2>. QED BY <2>2, <2>3, <2>4, TimelineAssumption DEF Lifetimes
<1>2. store'.msgs = <<>> => IdsOf(store.msgs)' = {}
  BY DEF IdsOf, ToSet
<1>3. store'.msgs = store.msgs => IdsOf(store.msgs)' = IdsOf(store.msgs)
  BY DEF IdsOf, ToSet
<1>4. TB!NextLifetime
  BY <1>1, <1>2, <1>3, StillSeen DEF TB!NextLifetime, TB!NoTombs
<1>. QED BY <1>4 DEF TB!Next

\* One request changes, as the mechanism sees it.
LEMMA SeenChange ==
  ASSUME GateIInv, NEW r \in Requests, NEW q, reqs' = [reqs EXCEPT ![r] = q]
  PROVE  /\ reqs'[r] = q /\ \A k \in Requests \ {r} : reqs'[k] = reqs[k]
         /\ SeenRequests' = [SeenRequests EXCEPT ![r] = RequestOf(r)']
         /\ SeenRequests[r] = RequestOf(r)
<1>1. reqs'[r] = q /\ \A k \in Requests \ {r} : reqs'[k] = reqs[k]
  BY DEF GateIInv
<1>2. \A k \in Requests \ {r} : RequestOf(k)' = RequestOf(k)
  BY <1>1 DEF RequestOf, InFlight, IdsOf, ToSet
<1>3. SeenRequests' = [k \in Requests |-> RequestOf(k)'] /\ SeenRequests = [k \in Requests |-> RequestOf(k)]
  BY DEF SeenRequests
<1> HIDE DEF SeenRequests
<1>4. SeenRequests' = [SeenRequests EXCEPT ![r] = RequestOf(r)']
  BY <1>2, <1>3
<1>. QED BY <1>1, <1>3, <1>4

\* A request begins.
LEMMA AskStep ==
  ASSUME TombIInv, GateIInv, NEW r \in Requests, NEW kind \in {"initial", "older"},
         NEW before \in Ids \cup {0}, reqs[r] = NoRequest,
         reqs' = [reqs EXCEPT ![r] = NewRequest(kind, before)],
         UNCHANGED <<store, life, gone>>, Deleted' = Deleted
  PROVE  /\ TB!Next
         /\ \A k \in Requests : InFlight(k)' => reqs'[k] \in Request
<1> DEFINE q == NewRequest(kind, before)
<1>1. /\ q \in Request /\ q.phase = "asked" /\ q.rev = store.rev /\ q.gen = life.gen /\ q.page = <<>>
  <2>1. store.rev \in Nat /\ life.gen \in Nat /\ gate.version \in Nat
    BY DEF TombIInv, Sound, StoreState, GateIInv, Lifetime, Gate
  <2>2. <<>> \in Seq(Message)
    OBVIOUS
  <2>. QED BY <2>1, <2>2 DEF NewRequest, Request
<1> HIDE DEF q
<1>2. /\ reqs'[r] = q /\ \A k \in Requests \ {r} : reqs'[k] = reqs[k]
      /\ SeenRequests' = [SeenRequests EXCEPT ![r] = RequestOf(r)']
      /\ SeenRequests[r] = RequestOf(r)
  BY SeenChange DEF q
<1>3. RequestOf(r)' = [phase |-> "asked", rev |-> store.rev, gen |-> life.gen, page |-> {}]
  <2>1. {m.id : m \in {q.page[k] : k \in DOMAIN q.page}} \ {0} = {}
    BY <1>1
  <2>2. IdsOf(reqs[r].page)' = {}
    BY <1>2, <2>1 DEF IdsOf, ToSet
  <2>3. InFlight(r)'
    BY <1>1, <1>2 DEF InFlight
  <2>. QED BY <1>1, <1>2, <2>2, <2>3 DEF RequestOf
<1>4. SeenRequests[r].phase = "idle"
  BY <1>2 DEF RequestOf, InFlight, NoRequest
<1>5. IdsOf(store.msgs)' = IdsOf(store.msgs)
  BY DEF IdsOf, ToSet
<1>6. TB!Ask(r)
  BY <1>2, <1>3, <1>4, <1>5 DEF TB!Ask
<1>7. \A k \in Requests : InFlight(k)' => reqs'[k] \in Request
  BY <1>1, <1>2 DEF TombIInv, InFlight
<1>. QED BY <1>6, <1>7 DEF TB!Next

\* The server's page is read: none of its messages is deleted there.
LEMMA PageIsLive ==
  ASSUME TombIInv, NEW before
  PROVE  PageOf(before) \in Seq(Message) /\ IdsOf(PageOf(before)) \subseteq Live
<1> DEFINE eligible == {i \in Live : before = 0 \/ i < before}
           newest == {i \in eligible : Cardinality({j \in eligible : j > i}) < PageLimit}
           ids == InOrder(newest)
           nonce(i) == IF PagesCarryNonce THEN server[i].nonce ELSE NoNonce
           page == [k \in DOMAIN ids |-> FromServer(ids[k], nonce(ids[k]), server[ids[k]].body)]
<1>1. PageOf(before) = page
  BY DEF PageOf
<1>2. newest \in SUBSET Live /\ Live \in SUBSET Ids
  BY DEF Live
<1> HIDE DEF newest
<1>3. /\ ids \in Seq(newest) /\ DOMAIN ids = 1 .. Cardinality(newest) /\ Cardinality(newest) \in Nat
  BY <1>2, Listed
<1> HIDE DEF ids
<1>4. \A k \in DOMAIN ids : ids[k] \in Live
  BY <1>2, <1>3
<1>5. ASSUME NEW i \in Live
      PROVE  /\ FromServer(i, nonce(i), server[i].body) \in Message
             /\ FromServer(i, nonce(i), server[i].body).id = i
  <2>1. server[i] \in ServerMessage /\ i \in Ids
    BY <1>2 DEF TombIInv
  <2>2. nonce(i) \in Nonces \cup {NoNonce} /\ server[i].body \in Nat
    BY <2>1 DEF ServerMessage
  <2> HIDE DEF nonce
  <2>. QED BY <2>1, <2>2 DEF FromServer, Message
<1>6. \A k \in DOMAIN ids : page[k] \in Message /\ page[k].id \in Live
  BY <1>4, <1>5
<1>7. page = [k \in 1 .. Cardinality(newest) |-> page[k]] /\ DOMAIN page = DOMAIN ids
  BY <1>3
<1> HIDE DEF page
<1>8. page \in Seq(Message)
  BY <1>3, <1>6, <1>7
<1>9. IdsOf(page) \subseteq Live
  <2> SUFFICES ASSUME NEW i \in IdsOf(page) PROVE i \in Live
    OBVIOUS
  <2>1. PICK k \in DOMAIN page : page[k].id = i
    BY IdsOfEntries
  <2>. QED BY <1>6, <1>7, <2>1
<1>. QED BY <1>1, <1>8, <1>9

\* The reply travels: with a page, or with an error that the mechanism does not see.
LEMMA AnswerStep ==
  ASSUME TombIInv, GateIInv, NEW r \in Requests, ServerAnswers(r) \/ RequestFails(r)
  PROVE  /\ StepsTombs
         /\ \A k \in Requests : InFlight(k)' => reqs'[k] \in Request
<1> DEFINE page == PageOf(reqs[r].before)
           answered == [reqs[r] EXCEPT !.phase = "answered", !.page = page]
           refused == [reqs[r] EXCEPT !.phase = "refused"]
<1>1. reqs[r].phase = "asked" /\ UNCHANGED <<store, life, gone, server>>
  BY DEF ServerAnswers, RequestFails
<1>2. InFlight(r) /\ reqs[r] \in Request
  BY <1>1 DEF InFlight, TombIInv
<1>3. reqs' = [reqs EXCEPT ![r] = answered] \/ reqs' = [reqs EXCEPT ![r] = refused]
  BY DEF ServerAnswers, RequestFails
<1>4. page \in Seq(Message) /\ IdsOf(page) \subseteq Live
  BY PageIsLive
<1>5. Deleted' = Deleted /\ Live \cap Deleted = {} /\ Live \subseteq Ids
  BY <1>1 DEF Deleted, Live
<1>6. IdsOf(store.msgs)' = IdsOf(store.msgs)
  BY <1>1 DEF IdsOf, ToSet
<1> HIDE DEF page
<1>7. CASE reqs' = [reqs EXCEPT ![r] = answered]
  <2>1. /\ answered \in Request /\ answered.phase = "answered" /\ answered.page = page
        /\ answered.rev = reqs[r].rev /\ answered.gen = reqs[r].gen
    BY <1>2, <1>4 DEF Request
  <2> HIDE DEF answered
  <2>2. /\ reqs'[r] = answered /\ \A k \in Requests \ {r} : reqs'[k] = reqs[k]
        /\ SeenRequests' = [SeenRequests EXCEPT ![r] = RequestOf(r)']
        /\ SeenRequests[r] = RequestOf(r)
    BY <1>7, SeenChange
  <2>3. /\ RequestOf(r)' = [phase |-> "answered", rev |-> reqs[r].rev, gen |-> reqs[r].gen,
                            page |-> IdsOf(page)]
        /\ InFlight(r)'
    <3>1. InFlight(r)'
      BY <2>1, <2>2 DEF InFlight
    <3>2. IdsOf(reqs[r].page)' = IdsOf(page)
      BY <2>1, <2>2 DEF IdsOf, ToSet
    <3>. QED BY <2>1, <2>2, <3>1, <3>2 DEF RequestOf
  <2>4. RequestOf(r) = [phase |-> "asked", rev |-> reqs[r].rev, gen |-> reqs[r].gen,
                        page |-> IdsOf(reqs[r].page)]
    BY <1>1, <1>2 DEF RequestOf
  <2>5. SeenRequests' = [SeenRequests EXCEPT ![r].phase = "answered", ![r].page = IdsOf(page)]
    <3> DEFINE S == SeenRequests
               was == [phase |-> "asked", rev |-> reqs[r].rev, gen |-> reqs[r].gen,
                       page |-> IdsOf(reqs[r].page)]
               ids == IdsOf(page)
    <3>1. S[r] = was /\ S' = [S EXCEPT ![r] = [phase |-> "answered", rev |-> was.rev,
                                               gen |-> was.gen, page |-> ids]]
      BY <2>2, <2>3, <2>4
    <3>2. DOMAIN S = Requests
      BY DEF SeenRequests
    <3>0. ASSUME NEW t, t = [was EXCEPT !.phase = "answered", !.page = ids]
          PROVE  t = [phase |-> "answered", rev |-> was.rev, gen |-> was.gen, page |-> ids]
      <4> HIDE DEF ids
      <4>. QED BY <3>0
    <3>3. [was EXCEPT !.phase = "answered", !.page = ids]
            = [phase |-> "answered", rev |-> was.rev, gen |-> was.gen, page |-> ids]
      <4> HIDE DEF was, ids
      <4>. QED BY <3>0
    <3> HIDE DEF was, ids, S
    <3>4. S' = [S EXCEPT ![r] = [S[r] EXCEPT !.phase = "answered", !.page = ids]]
      BY <3>1, <3>3
    <3>5. S' = [S EXCEPT ![r].phase = "answered", ![r].page = ids]
      BY <3>2, <3>4
    <3>. QED BY <3>5 DEF S, ids
  <2>6. TB!Answer(r, IdsOf(page))
    <3>1. SeenRequests[r].phase = "asked" /\ IdsOf(page) \cap Deleted = {}
      BY <1>4, <1>5, <2>2, <2>4
    <3>. QED BY <1>1, <1>5, <1>6, <2>5, <3>1 DEF TB!Answer
  <2>7. IdsOf(page) \in SUBSET Ids
    BY <1>4, <1>5
  <2>8. TB!Next
    BY <2>6, <2>7 DEF TB!Next
  <2>9. \A k \in Requests : InFlight(k)' => reqs'[k] \in Request
    BY <2>1, <2>2 DEF TombIInv, InFlight
  <2>. QED BY <2>8, <2>9 DEF StepsTombs
<1>8. CASE reqs' = [reqs EXCEPT ![r] = refused]
  <2>1. /\ refused \in Request /\ refused.phase = "refused" /\ refused.page = reqs[r].page
        /\ refused.rev = reqs[r].rev /\ refused.gen = reqs[r].gen
    BY <1>2 DEF Request
  <2> HIDE DEF refused
  <2>2. /\ reqs'[r] = refused /\ \A k \in Requests \ {r} : reqs'[k] = reqs[k]
        /\ SeenRequests' = [SeenRequests EXCEPT ![r] = RequestOf(r)']
        /\ SeenRequests[r] = RequestOf(r)
    BY <1>8, SeenChange
  <2>3. RequestOf(r)' = RequestOf(r)
    <3>1. InFlight(r)'
      BY <2>1, <2>2 DEF InFlight
    <3>2. IdsOf(reqs[r].page)' = IdsOf(reqs[r].page)
      BY <2>1, <2>2 DEF IdsOf, ToSet
    <3>. QED BY <1>1, <1>2, <2>1, <2>2, <3>1, <3>2 DEF RequestOf
  <2>4. SeenRequests' = SeenRequests
    BY <2>2, <2>3 DEF SeenRequests
  <2>5. UNCHANGED TB!vars
    BY <1>1, <1>5, <1>6, <2>4 DEF TB!vars
  <2>6. \A k \in Requests : InFlight(k)' => reqs'[k] \in Request
    BY <2>1, <2>2 DEF TombIInv, InFlight
  <2>. QED BY <2>5, <2>6 DEF StepsTombs
<1>. QED BY <1>3, <1>7, <1>8

\* A page is installed only in the lifetime it was asked for in, and only while
\* no tombstone since then has been evicted.
LEMMA InstallStep ==
  ASSUME TombIInv, GateIInv, NEW r \in Requests, CompleteRequest(r),
         ~ Stale(r), reqs[r].phase = "answered", ~ TombstonesPrunedSince(store, reqs[r].rev),
         InstallPage(r)
  PROVE  TB!Install(r) /\ Sound(store') /\ Stamps
<1> DEFINE page == reqs[r].page
           since == reqs[r].rev
<1>1. InFlight(r) /\ reqs[r] \in Request
  BY DEF InFlight, TombIInv
<1>2. page \in Seq(Message) /\ since \in Nat /\ reqs[r].kind \in {"initial", "older"}
  BY <1>1 DEF Request
<1>3. Sound(store) /\ store.tombs \in [Ids -> Nat] /\ store.rev \in Nat /\ store.pruned \in Nat
  BY DEF TombIInv, Sound, StoreState
<1>4. /\ Sound(store') /\ store'.rev >= store.rev
      /\ \A i \in IdsOf(store'.msgs) :
           i \in IdsOf(store.msgs) \/ (i \in IdsOf(page) /\ ~ MessageTombstoned(store, i))
      /\ store'.tombs = store.tombs /\ store'.pruned = store.pruned
      /\ Stamps
  <2>1. CASE reqs[r].kind = "older"
    <3>1. store' = PrependMessagesSince(store, page, since)
      BY <2>1 DEF InstallPage
    <3> HIDE DEF page, since
    <3>2. /\ Follows(store, store')
          /\ \A i \in IdsOf(store'.msgs) :
               i \in IdsOf(store.msgs) \/ (i \in IdsOf(page) /\ ~ MessageTombstoned(store, i))
          /\ store'.tombs = store.tombs /\ store'.pruned = store.pruned
      BY <1>2, <1>3, <3>1, Prepends
    <3>. QED BY <3>2 DEF Follows, Stamps
  <2>2. CASE reqs[r].kind = "initial"
    <3> DEFINE merged == MergeInitialHistory(store, page, since)
    <3>1. store' = SetMessages(store, merged)
      BY <2>2 DEF InstallPage
    <3>2. /\ merged \in Seq(Message)
          /\ \A i \in IdsOf(merged) :
               /\ ~ MessageTombstoned(store, i)
               /\ i \in IdsOf(page) \/ i \in IdsOf(store.msgs)
      <4> HIDE DEF page, since
      <4>. QED BY <1>2, <1>3, Merges
    <3> HIDE DEF merged
    <3>3. /\ Sound(store') /\ store'.rev >= store.rev
          /\ \/ Follows(store, store')
             \/ /\ store'.msgs # <<>>
                /\ \A m \in ToSet(store'.msgs) : Unresolved(m) /\ m \in ToSet(store.msgs)
          /\ \A i \in IdsOf(store'.msgs) : i \in IdsOf(store.msgs) \/ i \in IdsOf(merged)
          /\ store'.tombs = ClearTombstones(store, IdsOf(merged)) /\ store'.pruned = store.pruned
      BY <1>3, <3>1, <3>2, Installs
    <3>4. store'.tombs = store.tombs
      <4>1. \A i \in Ids : i \in IdsOf(merged) => store.tombs[i] = 0
        BY <3>2, StoreAssumption DEF MessageTombstoned
      <4>2. \A i \in Ids : store'.tombs[i] = store.tombs[i]
        BY <1>3, <3>3, <4>1, Clears
      <4>3. store'.tombs \in [Ids -> Nat]
        BY <1>3, <3>3, Clears
      <4>. QED BY <1>3, <4>2, <4>3
    <3>5. Stamps
      <4>1. reqs'[r] = Spent
        BY DEF GateIInv, CompleteRequest
      <4>2. CASE /\ store'.msgs # <<>>
                 /\ \A m \in ToSet(store'.msgs) : Unresolved(m) /\ m \in ToSet(store.msgs)
        BY <1>1, <2>2, <4>1, <4>2 DEF Stamps, OnlyEchoesLeft
      <4>. QED BY <3>3, <4>2 DEF Stamps
    <3>. QED BY <3>2, <3>3, <3>4, <3>5
  <2>. QED BY <1>2, <2>1, <2>2
<1>5. /\ reqs' = [reqs EXCEPT ![r] = Spent] /\ UNCHANGED <<life, gone, server>>
  BY DEF CompleteRequest
<1>6. /\ reqs'[r] = Spent
      /\ SeenRequests' = [SeenRequests EXCEPT ![r] = RequestOf(r)']
      /\ SeenRequests[r] = RequestOf(r)
  BY <1>5, SeenChange
<1>7. RequestOf(r)' = TB!NoRequest
  BY <1>6 DEF RequestOf, InFlight, Spent, TB!NoRequest
<1>8. /\ RequestOf(r).phase = "answered" /\ RequestOf(r).rev = since /\ RequestOf(r).gen = reqs[r].gen
      /\ RequestOf(r).page = IdsOf(page)
  BY <1>1 DEF RequestOf
<1>9. reqs[r].gen = life.gen /\ store.pruned <= since
  BY <1>2, <1>3 DEF Stale, TombstonesPrunedSince
<1>10. IdsOf(store.msgs)' \in SUBSET (IdsOf(store.msgs) \cup {i \in IdsOf(page) : store.tombs[i] = 0})
  <2>1. IdsOf(store.msgs)' = IdsOf(store'.msgs)
    BY DEF IdsOf, ToSet
  <2>2. \A i \in IdsOf(page) : i # 0
    BY DEF IdsOf
  <2>. QED BY <1>4, <2>1, <2>2 DEF MessageTombstoned
<1>11. store'.rev \in TB!RevsFrom(store.rev)
  BY <1>4 DEF Sound, StoreState, TB!RevsFrom
<1>12. Deleted' = Deleted
  BY <1>5 DEF Deleted
<1>13. TB!Install(r)
  <2>1. SeenRequests[r].phase = "answered" /\ TB!Usable(r)
    BY <1>6, <1>8, <1>9 DEF TB!Usable
  <2>2. SeenRequests[r].page = IdsOf(page)
    BY <1>6, <1>8
  <2> HIDE DEF page, since
  <2>. QED BY <1>4, <1>5, <1>6, <1>7, <1>10, <1>11, <1>12, <2>1, <2>2 DEF TB!Install
<1>. QED BY <1>4, <1>13

\* A completion: the page is installed, or it is dropped.
LEMMA CompleteStep ==
  ASSUME TombIInv, GateIInv, NEW r \in Requests, CompleteRequest(r)
  PROVE  /\ TB!Next /\ Sound(store') /\ Stamps
         /\ \A k \in Requests : InFlight(k)' => reqs'[k] \in Request
<1>1. /\ reqs[r].phase \in {"answered", "refused"} /\ reqs' = [reqs EXCEPT ![r] = Spent]
      /\ UNCHANGED <<life, gone, server>>
  BY DEF CompleteRequest
<1>2. /\ reqs'[r] = Spent /\ \A k \in Requests \ {r} : reqs'[k] = reqs[k]
      /\ SeenRequests' = [SeenRequests EXCEPT ![r] = RequestOf(r)']
      /\ SeenRequests[r] = RequestOf(r)
  BY <1>1, SeenChange
<1>3. \A k \in Requests : InFlight(k)' => reqs'[k] \in Request
  BY <1>2 DEF TombIInv, InFlight, Spent
<1>4. CASE UNCHANGED store
  <2>1. RequestOf(r)' = TB!NoRequest
    BY <1>2 DEF RequestOf, InFlight, Spent, TB!NoRequest
  <2>2. SeenRequests[r].phase # "idle"
    BY <1>1, <1>2 DEF RequestOf, InFlight
  <2>3. IdsOf(store.msgs)' = IdsOf(store.msgs) /\ Deleted' = Deleted
    BY <1>1, <1>4 DEF IdsOf, ToSet, Deleted
  <2>4. TB!Discard(r)
    BY <1>1, <1>2, <1>4, <2>1, <2>2, <2>3 DEF TB!Discard
  <2>5. Sound(store') /\ Follows(store, store')
    BY <1>4, Burns DEF TombIInv
  <2>. QED BY <1>3, <2>4, <2>5 DEF TB!Next, Stamps
<1>5. CASE /\ ~ Stale(r)
           /\ reqs[r].phase = "answered" /\ ~ TombstonesPrunedSince(store, reqs[r].rev)
           /\ InstallPage(r)
  BY <1>3, <1>5, InstallStep DEF TB!Next
<1>. QED BY <1>4, <1>5 DEF CompleteRequest

-----------------------------------------------------------------------------
(* The timeline's steps                                                    *)

\* What every step of the timeline does: a step of the mechanism or none, the
\* invariant, and a fresh revision for what it changes.
Implements == StepsTombs /\ TombIInv' /\ Stamps

\* What a step of the environment leaves of the invariant.
Known(d) ==
  /\ server' \in [Ids -> ServerMessage]
  /\ Deleted' = Deleted \cup d
  /\ wire' \in Seq(Legal')
  /\ deletes' \subseteq Deleted'
  /\ CallsKnown'

\* The invariant, part by part.
LEMMA Assembled ==
  ASSUME NEW d, Known(d), Sound(store'), \A r \in Requests : InFlight(r)' => reqs'[r] \in Request
  PROVE  TombIInv'
BY DEF Known, TombIInv

\* A step that only the server, the socket or a REST call notices.
LEMMA Elsewhere ==
  ASSUME TombIInv, UNCHANGED <<store, life, reqs, gone>>, NEW d \in SUBSET Ids, Known(d)
  PROVE  Implements
<1>1. Sound(store') /\ Stamps
  BY Burns DEF TombIInv, Stamps
<1>2. \A r \in Requests : InFlight(r)' => reqs'[r] \in Request
  BY DEF TombIInv, InFlight
<1>3. TombIInv'
  BY <1>1, <1>2, Assembled
<1>4. CASE d = {}
  <2>1. Deleted' = Deleted
    BY <1>4 DEF Known
  <2>. QED BY <1>1, <1>3, <2>1, Quiet DEF Implements, StepsTombs
<1>5. TB!ServerDelete(d)
  <2>1. IdsOf(store.msgs)' = IdsOf(store.msgs)
    BY DEF IdsOf, ToSet
  <2>. QED BY <2>1, StillSeen DEF Known, TB!ServerDelete
<1>6. TB!Next
  BY <1>5 DEF TB!Next
<1>. QED BY <1>1, <1>3, <1>6 DEF Implements, StepsTombs

\* One message changes on the server, and is not deleted.
LEMMA ServerChange ==
  ASSUME TombIInv, NEW id \in Ids, NEW q \in ServerMessage, server' = [server EXCEPT ![id] = q],
         q.state # "deleted", server[id].state # "deleted"
  PROVE  server' \in [Ids -> ServerMessage] /\ Deleted' = Deleted
<1>1. server \in [Ids -> ServerMessage]
  BY DEF TombIInv
<1>2. server'[id] = q /\ \A i \in Ids \ {id} : server'[i] = server[i]
  BY <1>1
<1>. QED BY <1>1, <1>2 DEF Deleted

\* One send changes.
LEMMA CallChange ==
  ASSUME CallsKnown, NEW n \in Nonces, NEW q \in Call, calls' = [calls EXCEPT ![n] = q],
         q.phase = "accepted" => q.id # 0
  PROVE  CallsKnown'
<1>1. calls' \in [Nonces -> Call] /\ calls'[n] = q /\ \A k \in Nonces \ {n} : calls'[k] = calls[k]
  BY DEF CallsKnown
<1>. QED BY <1>1 DEF CallsKnown

\* A message event about a message that is not deleted.
LEMMA Announces ==
  ASSUME TombIInv, Deleted' = Deleted, NEW id \in Ids, NEW nonce \in Nonces \cup {NoNonce},
         NEW body \in Nat, NEW type \in {"create", "update"},
         Emit([type |-> type, id |-> id, nonce |-> nonce, body |-> body])
  PROVE  wire' \in Seq(Legal')
<1> DEFINE e == [type |-> type, id |-> id, nonce |-> nonce, body |-> body]
<1>1. e \in Legal
  BY Sends
<1>2. wire' = Append(wire, e)
  BY DEF Emit
<1> HIDE DEF e
<1>3. e \in Legal'
  BY <1>1, LegalStays
<1>. QED BY <1>2, <1>3, WireKept DEF TombIInv

\* Deletes are announced when they are made.
LEMMA AnnouncesDelete ==
  ASSUME TombIInv, Deleted \subseteq Deleted', NEW ids \in Seq(Ids), ids # <<>>,
         ToSet(ids) \subseteq Deleted', Emit([type |-> "delete", ids |-> ids])
  PROVE  wire' \in Seq(Legal')
<1> DEFINE e == [type |-> "delete", ids |-> ids]
<1>1. e \in Legal'
  BY DEF Legal, Event
<1>2. wire' = Append(wire, e)
  BY DEF Emit
<1> HIDE DEF e
<1>. QED BY <1>1, <1>2, WireKept DEF TombIInv

\* What does not concern messages.
LEMMA Silent ==
  ASSUME TombIInv, UNCHANGED <<server, deletes>>
  PROVE  /\ server' \in [Ids -> ServerMessage] /\ Deleted' = Deleted
         /\ deletes' \subseteq Deleted'
BY DEF TombIInv, Deleted

\* Another member posts.
LEMMA OthersPostStep ==
  ASSUME TombIInv, OthersPost
  PROVE  Implements
<1> DEFINE q == [server[NextId] EXCEPT !.state = "live"]
<1>1. NextId \in Ids /\ server[NextId].state = "none" /\ server[NextId] \in ServerMessage
  BY NextIsUnborn DEF OthersPost, Unborn, TombIInv
<1>2. q \in ServerMessage /\ q.state = "live"
  BY <1>1 DEF ServerMessage
<1>3. server' = [server EXCEPT ![NextId] = q]
  BY DEF OthersPost
<1> HIDE DEF q
<1>4. server' \in [Ids -> ServerMessage] /\ Deleted' = Deleted
  BY <1>1, <1>2, <1>3, ServerChange
<1>5. wire' \in Seq(Legal')
  <2>1. Emit([type |-> "create", id |-> NextId, nonce |-> NoNonce, body |-> 0])
    BY DEF OthersPost, CreateEvent
  <2>. QED BY <1>1, <1>4, <2>1, Announces
<1>6. Known({})
  BY <1>4, <1>5 DEF Known, OthersPost, TombIInv, CallsKnown
<1>. QED BY <1>6, Elsewhere DEF OthersPost

\* The server edits a message.
LEMMA ServerEditsStep ==
  ASSUME TombIInv, NEW id \in Ids, ServerEdits(id)
  PROVE  Implements
<1> DEFINE q == [server[id] EXCEPT !.body = @ + 1]
<1>1. server[id].state = "live" /\ server[id] \in ServerMessage
  BY DEF ServerEdits, Live, TombIInv
<1>2. /\ server[id].body \in Nat /\ server[id].body + 1 \in Nat
      /\ server[id].nonce \in Nonces \cup {NoNonce}
  BY <1>1 DEF ServerMessage
<1>3. q \in ServerMessage /\ q.state = "live"
  BY <1>1, <1>2 DEF ServerMessage
<1>4. server' = [server EXCEPT ![id] = q]
  BY DEF ServerEdits
<1> HIDE DEF q
<1>5. server' \in [Ids -> ServerMessage] /\ Deleted' = Deleted
  BY <1>1, <1>3, <1>4, ServerChange
<1>6. wire' \in Seq(Legal')
  <2> DEFINE nonce == server[id].nonce
             body == server[id].body + 1
  <2>1. Emit([type |-> "update", id |-> id, nonce |-> nonce, body |-> body])
    BY DEF ServerEdits
  <2>2. nonce \in Nonces \cup {NoNonce} /\ body \in Nat
    BY <1>2
  <2> HIDE DEF nonce, body
  <2>. QED BY <1>5, <2>1, <2>2, Announces
<1>7. Known({})
  BY <1>5, <1>6 DEF Known, ServerEdits, TombIInv, CallsKnown
<1>. QED BY <1>7, Elsewhere DEF ServerEdits

\* A creation is announced again.
LEMMA RedeliverStep ==
  ASSUME TombIInv, NEW id \in Ids, Redeliver(id)
  PROVE  Implements
<1> DEFINE nonce == server[id].nonce
           body == server[id].body
<1>1. server[id] \in ServerMessage
  BY DEF TombIInv
<1>2. nonce \in Nonces \cup {NoNonce} /\ body \in Nat
  BY <1>1 DEF ServerMessage
<1>3. Emit([type |-> "create", id |-> id, nonce |-> nonce, body |-> body])
  BY DEF Redeliver, CreateEvent
<1> HIDE DEF nonce, body
<1>4. server' \in [Ids -> ServerMessage] /\ Deleted' = Deleted /\ deletes' \subseteq Deleted'
  BY Silent DEF Redeliver
<1>5. wire' \in Seq(Legal')
  BY <1>2, <1>3, <1>4, Announces
<1>6. Known({})
  BY <1>4, <1>5 DEF Known, Redeliver, TombIInv, CallsKnown
<1>. QED BY <1>6, Elsewhere DEF Redeliver

\* The server deletes messages, singly or in bulk.
LEMMA DeletesStep ==
  ASSUME TombIInv, NEW ids \in SUBSET Ids, ServerDeletes(ids)
  PROVE  Implements
<1>1. /\ server \in [Ids -> ServerMessage] /\ ids # {} /\ ids \subseteq Live
      /\ server' = [i \in Ids |-> IF i \in ids THEN [server[i] EXCEPT !.state = "deleted"]
                                  ELSE server[i]]
  BY DEF TombIInv, ServerDeletes
<1>2. \A i \in Ids : /\ [server[i] EXCEPT !.state = "deleted"] \in ServerMessage
                     /\ [server[i] EXCEPT !.state = "deleted"].state = "deleted"
  BY <1>1 DEF ServerMessage
<1>3. server' \in [Ids -> ServerMessage] /\ Deleted' = Deleted \cup ids
  <2>1. server' \in [Ids -> ServerMessage]
    BY <1>1, <1>2
  <2>2. \A i \in Ids : server'[i].state = IF i \in ids THEN "deleted" ELSE server[i].state
    BY <1>1, <1>2
  <2>. QED BY <2>1, <2>2 DEF Deleted
<1>4. /\ InOrder(ids) \in Seq(ids) /\ InOrder(ids) # <<>> /\ ToSet(InOrder(ids)) = ids
  BY <1>1, Listed
<1>5. InOrder(ids) \in Seq(Ids)
  BY <1>4, SeqMonotonic
<1>6. wire' \in Seq(Legal')
  <2> DEFINE list == InOrder(ids)
  <2>1. Emit([type |-> "delete", ids |-> list])
    BY DEF ServerDeletes
  <2>2. list \in Seq(Ids) /\ list # <<>> /\ ToSet(list) \subseteq Deleted' /\ Deleted \subseteq Deleted'
    BY <1>3, <1>4, <1>5
  <2> HIDE DEF list
  <2>. QED BY <2>1, <2>2, AnnouncesDelete
<1>7. Known(ids)
  BY <1>3, <1>6 DEF Known, ServerDeletes, TombIInv, CallsKnown
<1>. QED BY <1>7, Elsewhere DEF ServerDeletes

\* The server deletes what DeleteMessage asked it to.
LEMMA RestDeletesStep ==
  ASSUME TombIInv, NEW id \in Ids, RestDeletes(id)
  PROVE  Implements
<1> DEFINE q == [server[id] EXCEPT !.state = "deleted"]
<1>1. server \in [Ids -> ServerMessage]
  BY DEF TombIInv
<1>2. q \in ServerMessage /\ q.state = "deleted"
  BY <1>1 DEF ServerMessage
<1>3. server' = [server EXCEPT ![id] = q] /\ deletes' = deletes \cup {id}
  BY DEF RestDeletes
<1> HIDE DEF q
<1>4. server' \in [Ids -> ServerMessage] /\ Deleted' = Deleted \cup {id}
  BY <1>1, <1>2, <1>3 DEF Deleted
<1>5. wire' \in Seq(Legal')
  <2> DEFINE list == <<id>>
  <2>1. Emit([type |-> "delete", ids |-> list])
    BY DEF RestDeletes
  <2>2. list \in Seq(Ids) /\ list # <<>> /\ ToSet(list) = {id}
    BY DEF ToSet
  <2> HIDE DEF list
  <2>. QED BY <1>4, <2>1, <2>2, AnnouncesDelete
<1>6. Known({id})
  BY <1>3, <1>4, <1>5 DEF Known, RestDeletes, TombIInv, CallsKnown
<1>. QED BY <1>6, Elsewhere DEF RestDeletes

\* The channel closes or opens, or an event is lost.
LEMMA ChannelStep ==
  ASSUME TombIInv, ServerCloses \/ ServerOpens \/ DropEvent
  PROVE  Implements
<1>1. /\ server' \in [Ids -> ServerMessage] /\ Deleted' = Deleted /\ deletes' \subseteq Deleted'
  BY Silent DEF ServerCloses, ServerOpens, DropEvent
<1>2. \/ wire # <<>> /\ wire' = Tail(wire)
      \/ \E e \in Legal : wire' = Append(wire, e)
  BY Sends, LastLiveKnown DEF ServerCloses, ServerOpens, DropEvent, Emit
<1>3. wire' \in Seq(Legal')
  BY <1>1, <1>2, LegalStays, WireKept DEF TombIInv
<1>4. Known({})
  BY <1>1, <1>3 DEF Known, ServerCloses, ServerOpens, DropEvent, TombIInv, CallsKnown
<1>. QED BY <1>4, Elsewhere DEF ServerCloses, ServerOpens, DropEvent

\* A send's reply travels, or is lost.
LEMMA ReplyStep ==
  ASSUME TombIInv, NEW n \in Nonces,
         ServerRefuses(n) \/ SendFails(n) \/ ReplyLost(n) \/ EmptyReply(n)
  PROVE  Implements
<1>1. /\ server' \in [Ids -> ServerMessage] /\ Deleted' = Deleted /\ deletes' \subseteq Deleted'
      /\ UNCHANGED wire
  BY Silent DEF ServerRefuses, SendFails, ReplyLost, EmptyReply
<1>2. wire' \in Seq(Legal')
  BY <1>1, WireKept DEF TombIInv
<1>3. \E phase \in {"refused", "done"} : calls' = [calls EXCEPT ![n] = [@ EXCEPT !.phase = phase]]
  BY DEF ServerRefuses, SendFails, ReplyLost, EmptyReply
<1>4. CallsKnown'
  <2>1. PICK phase \in {"refused", "done"} : calls' = [calls EXCEPT ![n] = [@ EXCEPT !.phase = phase]]
    BY <1>3
  <2> DEFINE q == [calls[n] EXCEPT !.phase = phase]
  <2>2. q \in Call /\ q.phase # "accepted"
    BY DEF TombIInv, CallsKnown, Call
  <2>3. calls' = [calls EXCEPT ![n] = q]
    BY <2>1
  <2> HIDE DEF q
  <2>. QED BY <2>2, <2>3, CallChange DEF TombIInv
<1>5. Known({})
  BY <1>1, <1>2, <1>4 DEF Known
<1>. QED BY <1>5, Elsewhere DEF ServerRefuses, SendFails, ReplyLost, EmptyReply

\* The server takes a send: a message is born.
LEMMA AcceptStep ==
  ASSUME TombIInv, NEW n \in Nonces, ServerAccepts(n)
  PROVE  Implements
<1> DEFINE q == [state |-> "live", nonce |-> n, body |-> 0]
           c == [phase |-> "accepted", id |-> NextId]
<1>1. NextId \in Ids /\ server[NextId].state = "none" /\ NextId # 0
  BY NextIsUnborn, StoreAssumption DEF ServerAccepts, Unborn
<1>2. q \in ServerMessage /\ q.state = "live"
  BY DEF ServerMessage
<1>3. server' = [server EXCEPT ![NextId] = q]
  BY DEF ServerAccepts
<1>4. server' \in [Ids -> ServerMessage] /\ Deleted' = Deleted
  <2> HIDE DEF q
  <2>. QED BY <1>1, <1>2, <1>3, ServerChange
<1>5. wire' \in Seq(Legal')
  <2>1. Emit([type |-> "create", id |-> NextId, nonce |-> n, body |-> 0])
    BY DEF ServerAccepts, CreateEvent
  <2>. QED BY <1>1, <1>4, <2>1, Announces
<1>6. CallsKnown'
  <2>1. c \in Call /\ c.id # 0 /\ calls' = [calls EXCEPT ![n] = c]
    BY <1>1 DEF Call, ServerAccepts
  <2> HIDE DEF c
  <2>. QED BY <2>1, CallChange DEF TombIInv
<1>7. Known({})
  BY <1>4, <1>5, <1>6 DEF Known, ServerAccepts, TombIInv
<1>. QED BY <1>7, Elsewhere DEF ServerAccepts

\* A step of the store: what it does to the messages, and what it leaves.
LEMMA StoreStep ==
  ASSUME TombIInv, Follows(store, store'), UNCHANGED reqs, Known({}), StepsTombs
  PROVE  Implements
<1>1. \A r \in Requests : InFlight(r)' => reqs'[r] \in Request
  BY DEF TombIInv, InFlight
<1>2. Sound(store')
  BY DEF Follows
<1>. QED BY <1>1, <1>2, Assembled DEF Implements, Stamps

\* The environment is left alone, but for the sends or the oldest event.
LEMMA OnlyCalls ==
  ASSUME TombIInv, CallsKnown', UNCHANGED server, deletes' \subseteq deletes,
         wire' = wire \/ (wire # <<>> /\ wire' = Tail(wire))
  PROVE  Known({}) /\ Deleted' = Deleted
<1>1. server' \in [Ids -> ServerMessage] /\ Deleted' = Deleted
  BY DEF TombIInv, Deleted
<1>2. wire' \in Seq(Legal')
  BY <1>1, WireKept DEF TombIInv
<1>. QED BY <1>1, <1>2 DEF Known, TombIInv

\* An echo is appended: its ID is 0, and 0 has no tombstone to clear.
LEMMA SendStepHolds ==
  ASSUME TombIInv, NEW n \in Nonces, Send(n)
  PROVE  Implements
<1> DEFINE m == [id |-> 0, nonce |-> n, body |-> 0, st |-> "pending", rev |-> 0]
           q == [calls[n] EXCEPT !.phase = "sending"]
<1>1. m \in Message /\ m.id = 0 /\ store' = AppendMessage(store, m)
  BY DEF Message, Send
<1> HIDE DEF m
<1>2. /\ Follows(store, store') /\ IdsOf(store'.msgs) \subseteq IdsOf(store.msgs) \cup {0}
      /\ store'.tombs = ClearTombstones(store, {0}) /\ store'.pruned = store.pruned
  BY <1>1, Appends DEF TombIInv
<1>3. IdsOf(store'.msgs) \subseteq IdsOf(store.msgs)
  BY <1>2 DEF IdsOf
<1>4. store'.tombs = store.tombs
  <2>1. store.tombs \in [Ids -> Nat] /\ 0 \notin Ids
    BY StoreAssumption DEF TombIInv, Sound, StoreState
  <2>. QED BY <1>2, <2>1 DEF ClearTombstones
<1>5. CallsKnown'
  <2>1. q \in Call /\ q.phase # "accepted"
    BY DEF TombIInv, CallsKnown, Call
  <2>2. calls' = [calls EXCEPT ![n] = q]
    BY DEF Send
  <2> HIDE DEF q
  <2>. QED BY <2>1, <2>2, CallChange DEF TombIInv
<1>6. Known({}) /\ Deleted' = Deleted
  BY <1>5, OnlyCalls DEF Send
<1>7. TB!Next
  BY <1>2, <1>3, <1>4, <1>6, TouchStep DEF Send
<1>. QED BY <1>2, <1>6, <1>7, StoreStep DEF StepsTombs, Send

\* A failed send is marked.
LEMMA FailStep ==
  ASSUME TombIInv, NEW n \in Nonces, FailSend(n)
  PROVE  Implements
<1> DEFINE q == [calls[n] EXCEPT !.phase = "done"]
<1>1. /\ Follows(store, store') /\ IdsOf(store'.msgs) \subseteq IdsOf(store.msgs)
      /\ store'.tombs = store.tombs /\ store'.pruned = store.pruned
  <2>1. store' = MarkFailed(store, n) /\ Sound(store) /\ 0 \in Nat
    BY DEF FailSend, TombIInv
  <2>. QED BY <2>1, Edits
<1>2. CallsKnown'
  <2>1. q \in Call /\ q.phase # "accepted"
    BY DEF TombIInv, CallsKnown, Call
  <2>2. calls' = [calls EXCEPT ![n] = q]
    BY DEF FailSend
  <2> HIDE DEF q
  <2>. QED BY <2>1, <2>2, CallChange DEF TombIInv
<1>3. Known({}) /\ Deleted' = Deleted
  BY <1>2, OnlyCalls DEF FailSend
<1>4. TB!Next
  BY <1>1, <1>3, TouchStep DEF FailSend
<1>. QED BY <1>1, <1>3, <1>4, StoreStep DEF StepsTombs, FailSend

\* A creation is reconciled, wherever it comes from.
LEMMA Created ==
  ASSUME TombIInv, NEW id \in Ids, NEW nonce \in Nonces \cup {NoNonce}, NEW body \in Nat,
         store' = Reconcile(store, FromServer(id, nonce, body)), gone' = gone \ {id},
         UNCHANGED <<life, reqs>>, Known({}), Deleted' = Deleted
  PROVE  Implements
<1> DEFINE m == FromServer(id, nonce, body)
<1>1. m \in Message /\ m.id = id
  BY DEF FromServer, Message
<1> HIDE DEF m
<1>2. store' = Reconcile(store, m) /\ Sound(store)
  BY DEF m, TombIInv
<1>3. /\ Follows(store, store') /\ IdsOf(store'.msgs) \subseteq IdsOf(store.msgs) \cup {id}
      /\ store'.tombs \in {store.tombs, ClearTombstones(store, {id})}
      /\ store'.pruned = store.pruned
  BY <1>1, <1>2, Reconciles
<1>4. TB!Next
  BY <1>3, CreateStep
<1>. QED BY <1>3, <1>4, StoreStep DEF StepsTombs

\* A send is confirmed by its reply.
LEMMA ConfirmStep ==
  ASSUME TombIInv, NEW n \in Nonces, ConfirmSend(n)
  PROVE  Implements
<1> DEFINE q == [calls[n] EXCEPT !.phase = "done"]
           id == calls[n].id
<1>1. id \in Ids
  BY DEF TombIInv, CallsKnown, Call, ConfirmSend
<1>2. CallsKnown'
  <2>1. q \in Call /\ q.phase # "accepted"
    BY DEF TombIInv, CallsKnown, Call
  <2>2. calls' = [calls EXCEPT ![n] = q]
    BY DEF ConfirmSend
  <2> HIDE DEF q
  <2>. QED BY <2>1, <2>2, CallChange DEF TombIInv
<1>3. Known({}) /\ Deleted' = Deleted
  BY <1>2, OnlyCalls DEF ConfirmSend
<1>4. store' = Reconcile(store, FromServer(id, n, 0)) /\ gone' = gone \ {id}
  BY DEF ConfirmSend
<1> HIDE DEF id
<1>. QED BY <1>1, <1>3, <1>4, Created DEF ConfirmSend

\* The reply of a REST delete is applied.
LEMMA ApplyStep ==
  ASSUME TombIInv, NEW id \in Ids, ApplyRestDelete(id)
  PROVE  Implements
<1>1. Removes(store, store', {id})
  BY RemovesOneId DEF ApplyRestDelete, TombIInv
<1>2. CallsKnown'
  BY DEF TombIInv, CallsKnown, ApplyRestDelete
<1>3. Known({}) /\ Deleted' = Deleted
  BY <1>2, OnlyCalls DEF ApplyRestDelete
<1>4. {id} \in SUBSET Deleted
  BY DEF ApplyRestDelete, TombIInv
<1>5. TB!Next
  BY <1>1, <1>3, <1>4, RemoveStep DEF ApplyRestDelete
<1>6. Follows(store, store')
  BY <1>1 DEF Removes
<1>. QED BY <1>3, <1>5, <1>6, StoreStep DEF StepsTombs, ApplyRestDelete

\* A step of a history request: the rest of the invariant is left alone.
LEMMA RequestStepHolds ==
  ASSUME TombIInv, Sound(store'), Stamps, StepsTombs,
         UNCHANGED <<server, calls, deletes, wire>>,
         \A r \in Requests : InFlight(r)' => reqs'[r] \in Request
  PROVE  Implements
<1>1. CallsKnown'
  BY DEF TombIInv, CallsKnown
<1>2. Known({})
  BY <1>1, OnlyCalls
<1>. QED BY <1>2, Assembled DEF Implements

\* A load begins, or the channel counts as exhausted.
LEMMA LoadStep ==
  ASSUME TombIInv, GateIInv, NEW r \in Requests, LoadHistory(r) \/ LoadOlderHistory(r)
  PROVE  Implements
<1> DEFINE oldest == IF store.msgs = <<>> THEN 0 ELSE store.msgs[1].id
<1>1. UNCHANGED <<store, life, server, calls, deletes, wire, gone>>
  BY DEF LoadHistory, LoadOlderHistory
<1>2. Sound(store') /\ Stamps /\ Deleted' = Deleted
  BY <1>1, Burns DEF TombIInv, Stamps, Deleted
<1>3. oldest \in Ids \cup {0}
  <2>1. store.msgs \in Seq(Message)
    BY DEF TombIInv, Sound, StoreState
  <2>2. store.msgs # <<>> => store.msgs[1] \in Message
    BY <2>1
  <2>. QED BY <2>2 DEF Message
<1>4. \/ UNCHANGED reqs
      \/ /\ reqs[r] = NoRequest
         /\ reqs' = [reqs EXCEPT ![r] = NewRequest("initial", 0)]
      \/ /\ reqs[r] = NoRequest
         /\ reqs' = [reqs EXCEPT ![r] = NewRequest("older", oldest)]
  BY DEF LoadHistory, LoadOlderHistory
<1> HIDE DEF oldest
<1>5. CASE UNCHANGED reqs
  <2>1. UNCHANGED TB!vars
    BY <1>1, <1>2, <1>5, Quiet
  <2>2. \A k \in Requests : InFlight(k)' => reqs'[k] \in Request
    BY <1>5 DEF TombIInv, InFlight
  <2>. QED BY <1>1, <1>2, <2>1, <2>2, RequestStepHolds DEF StepsTombs
<1>6. CASE ~ UNCHANGED reqs
  <2>1. /\ TB!Next
        /\ \A k \in Requests : InFlight(k)' => reqs'[k] \in Request
    BY <1>1, <1>2, <1>3, <1>4, <1>6, AskStep
  <2>. QED BY <1>1, <1>2, <2>1, RequestStepHolds DEF StepsTombs
<1>. QED BY <1>5, <1>6

\* A request is answered, or fails.
LEMMA ReplyTravels ==
  ASSUME TombIInv, GateIInv, NEW r \in Requests, ServerAnswers(r) \/ RequestFails(r)
  PROVE  Implements
<1>1. UNCHANGED <<store, server, calls, deletes, wire>>
  BY DEF ServerAnswers, RequestFails
<1>2. Sound(store') /\ Stamps
  BY <1>1, Burns DEF TombIInv, Stamps
<1>3. StepsTombs /\ \A k \in Requests : InFlight(k)' => reqs'[k] \in Request
  BY AnswerStep
<1>. QED BY <1>1, <1>2, <1>3, RequestStepHolds

\* A request completes.
LEMMA CompletionHolds ==
  ASSUME TombIInv, GateIInv, NEW r \in Requests, CompleteRequest(r)
  PROVE  Implements
<1>1. UNCHANGED <<server, calls, deletes, wire>>
  BY DEF CompleteRequest
<1>2. /\ TB!Next /\ Sound(store') /\ Stamps
      /\ \A k \in Requests : InFlight(k)' => reqs'[k] \in Request
  BY CompleteStep
<1>. QED BY <1>1, <1>2, RequestStepHolds DEF StepsTombs

-----------------------------------------------------------------------------
(* Events                                                                  *)

\* A MESSAGE_CREATE is handled.
LEMMA CreateEventStep ==
  ASSUME TombIInv, Known({}), Deleted' = Deleted, UNCHANGED reqs,
         wire # <<>>, Head(wire).type = "create", HandleMessageCreate(Head(wire))
  PROVE  Implements
<1> DEFINE id == Head(wire).id
           nonce == Head(wire).nonce
           body == Head(wire).body
<1>1. id \in Ids /\ nonce \in Nonces \cup {NoNonce} /\ body \in Nat
  BY OldestEvent DEF TombIInv
<1>2. /\ store' = Reconcile(store, FromServer(id, nonce, body)) /\ gone' = gone \ {id}
      /\ UNCHANGED life
  BY DEF HandleMessageCreate
<1> HIDE DEF id, nonce, body
<1>. QED BY <1>1, <1>2, Created

\* A MESSAGE_UPDATE is handled.
LEMMA UpdateEventStep ==
  ASSUME TombIInv, Known({}), Deleted' = Deleted, UNCHANGED reqs,
         wire # <<>>, Head(wire).type = "update", HandleMessageUpdate(Head(wire))
  PROVE  Implements
<1> DEFINE id == Head(wire).id
           body == Head(wire).body
<1>1. body \in Nat /\ Sound(store)
  BY OldestEvent DEF TombIInv
<1>2. store' = UpdateMessage(store, id, body) /\ UNCHANGED <<life, gone>>
  BY DEF HandleMessageUpdate
<1> HIDE DEF id, body
<1>3. /\ Follows(store, store') /\ IdsOf(store'.msgs) \subseteq IdsOf(store.msgs)
      /\ store'.tombs = store.tombs /\ store'.pruned = store.pruned
  BY <1>1, <1>2, Edits
<1>4. TB!Next
  BY <1>2, <1>3, TouchStep
<1>. QED BY <1>3, <1>4, StoreStep DEF StepsTombs

\* A MESSAGE_DELETE or a MESSAGE_DELETE_BULK is handled.
LEMMA DeleteEventStep ==
  ASSUME TombIInv, Known({}), Deleted' = Deleted, UNCHANGED reqs,
         wire # <<>>, Head(wire).type = "delete", HandleMessageDelete(Head(wire))
  PROVE  Implements
<1> DEFINE ids == Head(wire).ids
<1>1. ids \in Seq(Ids) /\ ids # <<>> /\ ToSet(ids) \subseteq Deleted
  BY OldestEvent DEF TombIInv
<1>2. /\ store' = RemovalStates(store, ids)[Len(ids)] /\ gone' = gone \cup ToSet(ids)
      /\ UNCHANGED life
  BY DEF HandleMessageDelete
<1> HIDE DEF ids
<1>3. Removes(store, store', ToSet(ids))
  BY <1>1, <1>2, RemovesAll DEF TombIInv
<1>4. ToSet(ids) # {}
  <2>1. Len(ids) \in Nat /\ Len(ids) # 0 /\ DOMAIN ids = 1 .. Len(ids)
    BY <1>1
  <2>2. 1 \in DOMAIN ids
    BY <2>1
  <2>. QED BY <2>2 DEF ToSet
<1>5. TB!Next
  BY <1>1, <1>2, <1>3, <1>4, RemoveStep
<1>6. Follows(store, store')
  BY <1>3 DEF Removes
<1>. QED BY <1>5, <1>6, StoreStep DEF StepsTombs

\* The channel is removed with its ring and its tombstones.
LEMMA ChannelDeleteStep ==
  ASSUME TombIInv, GateIInv, Known({}), Deleted' = Deleted, UNCHANGED reqs,
         wire # <<>>, Head(wire).type = "channelDelete", HandleChannelDelete
  PROVE  Implements
<1>1. /\ life'.gen = life.gen + 1 /\ store' = RemoveChannel(store) /\ UNCHANGED gone
  BY DEF HandleChannelDelete, EndLifetime
<1> DEFINE none == [i \in Ids |-> 0]
           empty == [store EXCEPT !.msgs = <<>>, !.ringRev = 0, !.tombs = none,
                                  !.pruned = 0, !.latest = 0]
<1>2. store \in StoreState /\ store.rev \in Nat
  BY DEF TombIInv, Sound, StoreState
<1>3. store' = empty
  BY <1>1 DEF RemoveChannel
<1>4. none \in [Ids -> Nat] /\ (\A i \in Ids : none[i] = 0) /\ <<>> \in Seq(Message)
  OBVIOUS
<1>5. /\ store' \in StoreState /\ store'.rev = store.rev /\ store'.msgs = <<>> /\ store'.ringRev = 0
      /\ store'.tombs = none /\ store'.pruned = 0
  <2> HIDE DEF none
  <2>. QED BY <1>2, <1>3, <1>4 DEF StoreState
<1>6. Follows(store, store')
  <2> HIDE DEF none
  <2>. QED BY <1>2, <1>4, <1>5 DEF Follows, Sound
<1>7. TB!Next
  BY <1>1, <1>5, LifetimeStep
<1>. QED BY <1>6, <1>7, StoreStep DEF StepsTombs

\* The channel is upserted: a new lifetime, if it was not known.
LEMMA ChannelCreateStep ==
  ASSUME TombIInv, GateIInv, Known({}), Deleted' = Deleted, UNCHANGED reqs,
         wire # <<>>, Head(wire).type = "channelCreate", HandleChannelUpsert(Head(wire))
  PROVE  Implements
<1> DEFINE last == Head(wire).last
           latest == Larger(store.latest, last)
<1>1. /\ store' = [store EXCEPT !.latest = latest] /\ life' = BeginLifetime(life)
      /\ UNCHANGED gone
  BY DEF HandleChannelUpsert, UpsertChannel
<1>2. latest \in Nat
  <2>1. last \in Ids \cup {0} /\ Ids \cup {0} \subseteq Nat
    BY OldestEvent, StoreAssumption DEF TombIInv
  <2>2. last \in Nat
    BY <2>1
  <2>3. store.latest \in Nat
    BY DEF TombIInv, Sound, StoreState
  <2> HIDE DEF last
  <2>. QED BY <2>2, <2>3 DEF Larger
<1> HIDE DEF latest
<1>3. /\ store' \in StoreState /\ store'.rev = store.rev /\ store'.msgs = store.msgs
      /\ store'.ringRev = store.ringRev /\ store'.tombs = store.tombs
      /\ store'.pruned = store.pruned
  BY <1>1, <1>2 DEF TombIInv, Sound, StoreState
<1>4. Follows(store, store')
  BY <1>3 DEF Follows, TombIInv, Sound, StoreState
<1>5. life'.gen = life.gen \/ life'.gen = life.gen + 1
  BY <1>1 DEF BeginLifetime
<1>6. CASE life'.gen = life.gen
  <2>1. IdsOf(store.msgs)' = IdsOf(store.msgs)
    BY <1>3 DEF IdsOf, ToSet
  <2>2. UNCHANGED TB!vars
    BY <1>1, <1>3, <1>6, <2>1, StillSeen DEF TB!vars
  <2>. QED BY <1>4, <2>2, StoreStep DEF StepsTombs
<1>7. CASE life'.gen = life.gen + 1
  <2>1. TB!Next
    BY <1>1, <1>3, <1>7, LifetimeStep
  <2>. QED BY <1>4, <2>1, StoreStep DEF StepsTombs
<1>. QED BY <1>5, <1>6, <1>7

\* The oldest event is handled.
LEMMA EventStep ==
  ASSUME TombIInv, GateIInv, HandleEvent
  PROVE  Implements
<1>1. wire # <<>> /\ wire' = Tail(wire) /\ UNCHANGED <<reqs, calls, deletes, server>>
  BY DEF HandleEvent
<1>2. CallsKnown'
  BY <1>1 DEF TombIInv, CallsKnown
<1>3. Known({}) /\ Deleted' = Deleted
  BY <1>1, <1>2, OnlyCalls
<1>4. LET e == Head(wire)
      IN  \/ e.type = "create"        /\ HandleMessageCreate(e)
          \/ e.type = "update"        /\ HandleMessageUpdate(e)
          \/ e.type = "delete"        /\ HandleMessageDelete(e)
          \/ e.type = "channelDelete" /\ HandleChannelDelete
          \/ e.type = "channelCreate" /\ HandleChannelUpsert(e)
  BY DEF HandleEvent
<1>. QED BY <1>1, <1>3, <1>4, CreateEventStep, UpdateEventStep, DeleteEventStep,
            ChannelDeleteStep, ChannelCreateStep

-----------------------------------------------------------------------------
(* All of them                                                             *)

\* Every step implements the mechanism and stamps what it changes.
LEMMA NextTomb ==
  ASSUME TombIInv, GateIInv, [Next]_vars
  PROVE  Implements
<1>1. CASE Environment
  <2>1. ASSUME NEW id \in Ids, ServerEdits(id) \/ RestDeletes(id) \/ Redeliver(id)
        PROVE  Implements
    BY <2>1, ServerEditsStep, RestDeletesStep, RedeliverStep
  <2>2. ASSUME NEW ids \in SUBSET Ids, ServerDeletes(ids) PROVE Implements
    BY <2>2, DeletesStep
  <2>3. ASSUME NEW r \in Requests, RequestFails(r) PROVE Implements
    BY <2>3, ReplyTravels
  <2>4. ASSUME NEW n \in Nonces, ReplyLost(n) \/ EmptyReply(n) \/ SendFails(n) PROVE Implements
    BY <2>4, ReplyStep
  <2>. QED BY <1>1, <2>1, <2>2, <2>3, <2>4, OthersPostStep, ChannelStep DEF Environment
<1>2. CASE User
  BY <1>2, SendStepHolds, LoadStep DEF User
<1>3. CASE HandleEvent
  BY <1>3, EventStep
<1>4. ASSUME NEW n \in Nonces, SendStep(n) PROVE Implements
  BY <1>4, AcceptStep, ReplyStep, ConfirmStep, FailStep DEF SendStep
<1>5. ASSUME NEW r \in Requests, RequestStep(r) PROVE Implements
  BY <1>5, ReplyTravels, CompletionHolds DEF RequestStep
<1>6. ASSUME NEW id \in Ids, ApplyRestDelete(id) PROVE Implements
  BY <1>6, ApplyStep
<1>7. CASE UNCHANGED vars
  <2>1. UNCHANGED <<store, life, reqs, server, calls, deletes, wire, gone>>
    BY <1>7 DEF vars
  <2>2. CallsKnown'
    BY <2>1 DEF TombIInv, CallsKnown
  <2>3. Known({})
    BY <2>1, <2>2, OnlyCalls
  <2>. QED BY <2>1, <2>3, Elsewhere
<1>. QED BY <1>1, <1>2, <1>3, <1>4, <1>5, <1>6, <1>7 DEF Next

\* The client starts with no message, no tombstone and no request.
LEMMA InitTomb == Init => TombIInv /\ TB!Init
<1> SUFFICES ASSUME Init PROVE TombIInv /\ TB!Init
  OBVIOUS
<1> DEFINE none == [i \in Ids |-> 0]
           last == LastLive
<1>1. last \in Nat /\ <<>> \in Seq(Message) /\ none \in [Ids -> Nat] /\ (\A i \in Ids : none[i] = 0)
  BY LastLiveKnown
<1>2. store = [[rev |-> 0, msgs |-> <<>>, ringRev |-> 0, tombs |-> none,
                pruned |-> 0, latest |-> 0] EXCEPT !.latest = last]
  BY DEF Init, NewStore
<1>3. /\ store \in StoreState /\ store.rev = 0 /\ store.msgs = <<>> /\ store.ringRev = 0
      /\ store.tombs = none /\ store.pruned = 0
  <2> HIDE DEF none, last
  <2>. QED BY <1>1, <1>2 DEF StoreState
<1>4. Sound(store)
  <2> HIDE DEF none
  <2>. QED BY <1>1, <1>3 DEF Sound
<1>5. server \in [Ids -> ServerMessage]
  BY DEF Init, ServerMessage
<1>6. wire \in Seq(Legal) /\ deletes \subseteq Deleted
  BY DEF Init
<1>7. CallsKnown
  BY DEF Init, CallsKnown, Call
<1>8. \A r \in Requests : reqs[r] = NoRequest /\ ~ InFlight(r)
  BY DEF Init, InFlight, NoRequest
<1>9. TombIInv
  BY <1>4, <1>5, <1>6, <1>7, <1>8 DEF TombIInv
<1>10. SeenRequests = [r \in Requests |-> TB!NoRequest]
  BY <1>8 DEF SeenRequests, RequestOf, TB!NoRequest
<1>11. IdsOf(store.msgs) = {}
  BY <1>3 DEF IdsOf, ToSet
<1>12. life.gen \in 0 .. MaxLifetimes /\ gone = {}
  BY TimelineAssumption DEF Init, FirstLifetime
<1>13. Deleted \in SUBSET Ids
  BY DEF Deleted
<1>. QED BY <1>3, <1>9, <1>10, <1>11, <1>12, <1>13 DEF TB!Init, TB!NoTombs

-----------------------------------------------------------------------------
(* The gate's theorem, of the timeline                                     *)

HP == INSTANCE HistoryProofs WITH
        Loaders <- Requests, MaxVersion <- MaxLifetimes,
        gate <- gate, token <- Tokens,
        Revs <- Nat, MaxGen <- MaxLifetimes,
        rev <- store.rev, gen <- life.gen, cached <- IdsOf(store.msgs),
        tomb <- store.tombs, pruned <- store.pruned,
        reqs <- SeenRequests, deleted <- Deleted, gone <- gone

\* The gate's theorem, of the timeline: its gate is pending exactly while one
\* request runs whose completion will be accepted.
THEOREM OwnedGate == Spec => []PendingHasOwner
<1>1. ImplementsLoadGate => []LG!IInv
  <2>1. LG!Init => HP!LG!Init
    BY DEF LG!Init, HP!LG!Init, LG!NewGate, HP!LG!NewGate, LG!Idle, HP!LG!Idle
  <2>2. [LG!Next]_LG!vars => [HP!LG!Next]_HP!LG!vars
    BY DEF LG!Next, HP!LG!Next, LG!vars, HP!LG!vars,
           LG!Begin, HP!LG!Begin, LG!MayBegin, HP!LG!MayBegin,
           LG!BeginOlder, HP!LG!BeginOlder, LG!Take, HP!LG!Take,
           LG!Exhaust, HP!LG!Exhaust, LG!Finish, HP!LG!Finish,
           LG!MarkLoaded, HP!LG!MarkLoaded, LG!Invalidate, HP!LG!Invalidate,
           LG!NextVersion, HP!LG!NextVersion, LG!NewGate, HP!LG!NewGate,
           LG!Running, HP!LG!Running, LG!Current, HP!LG!Current, LG!Idle, HP!LG!Idle
  <2>3. HP!LG!IInv => LG!IInv
    BY DEF LG!IInv, HP!LG!IInv, LG!TypeOK, HP!LG!TypeOK, LG!Gate, HP!LG!Gate,
           LG!Token, HP!LG!Token, LG!TokenPast, HP!LG!TokenPast,
           LG!OneCurrent, HP!LG!OneCurrent, LG!PendingOwned, HP!LG!PendingOwned,
           LG!Current, HP!LG!Current, LG!Running, HP!LG!Running
  <2>4. HP!LG!Safe => []HP!LG!IInv
    <3>1. Nat \subseteq Nat /\ MaxLifetimes \in Nat
      BY TimelineAssumption
    <3>. QED BY <3>1, HP!GateInvariance, PTL
  <2>. QED BY <2>1, <2>2, <2>3, <2>4, PTL DEF ImplementsLoadGate, LG!Safe, HP!LG!Safe
<1>2. GateIInv /\ LG!IInv => PendingHasOwner
  <2> SUFFICES ASSUME GateIInv, LG!IInv PROVE PendingHasOwner
    OBVIOUS
  <2> DEFINE owners == {r \in Requests : InFlight(r) /\ ~ Stale(r)}
  <2>1. \A r \in Requests : r \in owners <=> LG!Current(r)
    BY DEF GateIInv, BeganBefore, LG!Current, LG!Running, Tokens, TokenOf, Stale
  <2>2. CASE gate.pending
    <3>1. PICK r \in Requests : LG!Current(r)
      BY <2>2 DEF LG!IInv, LG!PendingOwned
    <3>2. owners = {r}
      BY <2>1, <3>1 DEF LG!IInv, LG!OneCurrent
    <3>. QED BY <2>2, <3>2, FS_Singleton DEF PendingHasOwner
  <2>3. CASE ~ gate.pending
    <3>1. owners = {}
      BY <2>1, <2>3 DEF LG!IInv, LG!PendingOwned
    <3>. QED BY <2>3, <3>1, FS_EmptySet DEF PendingHasOwner
  <2>. QED BY <2>2, <2>3
<1>. QED BY <1>1, <1>2, GateInvariance, GateRefinement, PTL

-----------------------------------------------------------------------------
(* The tombstones' theorems, of the timeline                               *)

\* The store's records are well-typed and none of their revisions lies in the
\* future; every delete the client is told of has happened on the server.
THEOREM TombInvariance == Spec => []TombIInv
<1>1. Init => TombIInv
  BY InitTomb
<1>2. TombIInv /\ GateIInv /\ [Next]_vars => TombIInv'
  BY NextTomb DEF Implements
<1>. QED BY <1>1, <1>2, GateInvariance, PTL DEF Spec

\* Every behaviour of the timeline is one of the tombstones' mechanism: no
\* handler, reply or page clears a tombstone or moves the watermark or installs
\* a message in a way that HistoryProofs does not cover.
THEOREM TombRefinement == Spec => ImplementsTombstones
<1>1. Init => TB!Init
  BY InitTomb
<1>2. TombIInv /\ GateIInv /\ [Next]_vars => [TB!Next]_TB!vars
  BY NextTomb DEF Implements, StepsTombs
<1>. QED BY <1>1, <1>2, GateInvariance, TombInvariance, PTL
         DEF Spec, ImplementsTombstones, TB!Spec

\* Whatever changes the messages moves the revision that ChatView reuses its
\* rendered transcript under, but for an empty initial page over an echo: a page
\* stamps what it installs, and a channel removed with its ring takes 0.
THEOREM RevTracks == Spec => MsgRevTracksContents
<1>1. TombIInv /\ GateIInv /\ [Next]_vars =>
        [store'.msgs # store.msgs => MsgRev(store') # MsgRev(store) \/ OnlyEchoesLeft]_vars
  <2> SUFFICES ASSUME TombIInv, GateIInv, [Next]_vars, store'.msgs # store.msgs, ~ OnlyEchoesLeft
               PROVE  store'.ringRev # store.ringRev
    BY DEF MsgRev
  <2>1. Follows(store, store')
    BY NextTomb DEF Implements, Stamps
  <2>2. /\ store.rev \in Nat /\ store.ringRev \in Nat /\ store.ringRev <= store.rev
        /\ store'.ringRev \in Nat /\ (store.ringRev = 0 => store.msgs = <<>>)
    BY <2>1 DEF Follows, TombIInv, Sound, StoreState
  <2>. QED BY <2>1, <2>2 DEF Follows
<1>. QED BY <1>1, GateInvariance, TombInvariance, PTL DEF Spec, MsgRevTracksContents

\* The mechanism sees every completion that changes the store.
LEMMA CompletionSeen ==
  ASSUME GateIInv, [Next]_vars, reqs' # reqs, store' # store
  PROVE  SeenRequests' # SeenRequests
<1>1. PICK r \in Requests : CompleteRequest(r)
  BY DEF Next, Environment, User, HandleEvent, SendStep, RequestStep, vars,
         OthersPost, ServerEdits, RestDeletes, Redeliver, ServerDeletes, ServerCloses,
         ServerOpens, DropEvent, RequestFails, ReplyLost, EmptyReply, SendFails, Send,
         LoadHistory, LoadOlderHistory, ServerAccepts, ServerRefuses, ConfirmSend, FailSend,
         ServerAnswers, ApplyRestDelete
<1>2. reqs' = [reqs EXCEPT ![r] = Spent] /\ reqs[r].phase \in {"answered", "refused"}
  BY <1>1 DEF CompleteRequest
<1>3. /\ reqs'[r] = Spent
      /\ SeenRequests' = [SeenRequests EXCEPT ![r] = RequestOf(r)']
      /\ SeenRequests[r] = RequestOf(r)
  BY <1>2, SeenChange
<1>4. RequestOf(r).phase # "idle"
  BY <1>2 DEF RequestOf, InFlight
<1>5. RequestOf(r)'.phase = "idle"
  BY <1>3 DEF RequestOf, InFlight, Spent
<1>6. DOMAIN SeenRequests = Requests
  BY DEF SeenRequests
<1> HIDE DEF SeenRequests
<1>. QED BY <1>3, <1>4, <1>5, <1>6

\* A page asked for before a delete and installed after it does not bring the
\* message back, in the whole timeline: however many messages and requests there
\* are, and whatever events, sends and lifetimes come between.
THEOREM DeletedStaysDeleted == Spec => NoStaleResurrection
<1>1. TB!Init => HP!Init
  BY DEF TB!Init, HP!Init, TB!NoTombs, HP!NoTombs, TB!NoRequest, HP!NoRequest
<1>2. [TB!Next]_TB!vars => [HP!Next]_HP!vars
  BY DEF TB!Next, HP!Next, TB!vars, HP!vars, TB!NoTombs, HP!NoTombs, TB!NoRequest, HP!NoRequest,
         TB!ServerDelete, HP!ServerDelete, TB!Touch, HP!Touch, TB!RevsFrom, HP!RevsFrom,
         TB!Create, HP!Create, TB!Remove, HP!Remove, TB!Accounted, HP!Accounted,
         TB!NextLifetime, HP!NextLifetime, TB!Ask, HP!Ask, TB!Answer, HP!Answer,
         TB!Discard, HP!Discard, TB!Install, HP!Install, TB!Usable, HP!Usable
<1>3. Nat \subseteq Nat /\ MaxLifetimes \in Nat
  BY TimelineAssumption
<1>4. ImplementsTombstones => []HP!IInv
  BY <1>1, <1>2, <1>3, HP!Invariance, PTL DEF ImplementsTombstones, TB!Spec, HP!Spec
<1>5. TombIInv /\ GateIInv /\ HP!IInv /\ [Next]_vars =>
        [reqs' # reqs => (IdsOf(store'.msgs) \cap gone) \subseteq (IdsOf(store.msgs) \cap gone)]_vars
  <2> SUFFICES ASSUME TombIInv, GateIInv, HP!IInv, [Next]_vars, reqs' # reqs
               PROVE  (IdsOf(store'.msgs) \cap gone) \subseteq (IdsOf(store.msgs) \cap gone)
    OBVIOUS
  <2>1. CASE store' = store
    BY <2>1
  <2>2. CASE store' # store
    <3>1. [HP!Next]_HP!vars
      BY <1>2, NextTomb DEF Implements, StepsTombs
    <3>2. SeenRequests' # SeenRequests
      BY <2>2, CompletionSeen
    <3>3. (IdsOf(store.msgs)' \cap gone) \subseteq IdsOf(store.msgs)
      BY <1>3, <3>1, <3>2, HP!StepNoResurrection
    <3>4. IdsOf(store.msgs)' = IdsOf(store'.msgs)
      BY DEF IdsOf, ToSet
    <3>. QED BY <3>3, <3>4
  <2>. QED BY <2>1, <2>2
<1>. QED BY <1>4, <1>5, GateInvariance, TombInvariance, TombRefinement, PTL
         DEF Spec, NoStaleResurrection
=============================================================================
