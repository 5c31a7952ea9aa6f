------------------------------- MODULE Timeline -------------------------------
(***************************************************************************)
(* One channel's timeline and everything that writes to it at once: the    *)
(* gateway's ordered events, optimistic sends with their REST replies,     *)
(* initial and older history pages, REST deletes, and the channel being    *)
(* deleted and recreated (internal/app over internal/store).               *)
(*                                                                         *)
(* Gateway handlers and REST goroutines do not touch the store: they Post  *)
(* closures the UI goroutine runs in FIFO order.  A Post and the run of    *)
(* its closure are one step here.  Nothing is lost by it: posting changes  *)
(* no state another step reads, and an event may wait in `wire', or a      *)
(* reply in its call, for as long as a closure may wait in the queue.      *)
(*                                                                         *)
(* The server is the environment.  It is modelled from what the client     *)
(* relies on: per-channel event order on the socket, and replies that      *)
(* show the server's state at one moment between request and reply.        *)
(***************************************************************************)
EXTENDS MessageStore

CONSTANTS
  Backlog,         \* messages already on the server when the client connects
  PageLimit,       \* messages a history request asks for
  Requests,        \* history requests a behaviour may make
  MaxBody,         \* edits of one message on the server
  MaxLifetimes,    \* bound on the channel's generation, events under way included
  MaxRestDeletes,  \* bound on DeleteMessage calls in flight
  MaxWire,         \* bound on events under way
  MaxFaults,       \* bound on faults in one behaviour
  Faults,          \* subset of FaultKinds
  PagesCarryNonce, \* whether a history page repeats the messages' nonces
  BulkDelete       \* whether the server deletes several messages at once

FaultKinds == {"drop", "redeliver", "lostReply", "emptyReply", "refuse"}

ASSUME TimelineAssumption ==
  /\ PageLimit \in Nat \ {0}
  /\ Backlog \in Nat
  \* a snowflake is a uint64
  /\ IsFiniteSet(Ids)
  /\ MaxBody \in Nat /\ MaxLifetimes \in Nat \ {0} /\ MaxRestDeletes \in Nat
  /\ MaxWire \in Nat /\ MaxFaults \in Nat
  /\ Faults \subseteq FaultKinds
  /\ PagesCarryNonce \in BOOLEAN /\ BulkDelete \in BOOLEAN

VARIABLES
  store,     \* the channel's messages and tombstones in store.Store
  life,      \* its lifetime there
  gate,      \* historyGate for this channel: [loaded, pending, exhausted, version]
  reqs,      \* LoadHistory / LoadOlderHistory goroutines
  calls,     \* deliver goroutines, one per nonce
  deletes,   \* DeleteMessage goroutines whose REST call succeeded
  server,    \* the channel's messages on the server
  open,      \* the account can see the channel
  wire,      \* gateway events not yet handled, oldest first
  faults,    \* faults so far
  gone       \* history: IDs the UI has removed and nothing has created since

vars == <<store, life, gate, reqs, calls, deletes, server, open, wire, faults, gone>>

-----------------------------------------------------------------------------
(* Types                                                                   *)

Gate == [loaded: BOOLEAN, pending: BOOLEAN, exhausted: BOOLEAN, version: Nat]

NewGate == [loaded |-> FALSE, pending |-> FALSE, exhausted |-> FALSE, version |-> 0]

NoRequest == [phase |-> "unused"]

Request == [phase: {"asked", "answered", "refused"}, kind: {"initial", "older"},
            rev: Nat, gen: Nat, ver: Nat, before: Ids \cup {0}, page: Seq(Message)]

Call == [phase: {"unused", "sending", "accepted", "refused", "done"}, id: Ids \cup {0}]

ServerMessage == [state: {"none", "live", "deleted"}, nonce: Nonces \cup {NoNonce}, body: Nat]

Event == [type: {"create", "update"}, id: Ids, nonce: Nonces \cup {NoNonce}, body: Nat]
         \cup [type: {"delete"}, ids: Seq(Ids)]
         \cup [type: {"channelDelete"}]
         \cup [type: {"channelCreate"}, last: Ids \cup {0}]

\* The record a request or a finished call leaves behind.
Spent == [phase |-> "spent"]

\* Types, and the bound on the ring and the tombstones: it must also hold where
\* the store installs a slice without the ring's own eviction (replaceMessages).
TypeOK ==
  /\ store \in StoreState /\ life \in Lifetime
  /\ Len(store.msgs) <= HistoryLimit
  /\ Cardinality({i \in Ids : store.tombs[i] # 0}) <= HistoryLimit
  /\ gate \in Gate
  /\ reqs \in [Requests -> Request \cup {NoRequest, Spent}]
  /\ calls \in [Nonces -> Call]
  /\ deletes \subseteq Ids
  /\ server \in [Ids -> ServerMessage]
  /\ open \in BOOLEAN
  /\ wire \in Seq(Event)
  /\ faults \in 0 .. MaxFaults
  /\ gone \subseteq Ids

-----------------------------------------------------------------------------
(* The server and the socket                                               *)

Live == {i \in Ids : server[i].state = "live"}

Unborn == {i \in Ids : server[i].state = "none"}

NextId == CHOOSE i \in Unborn : \A j \in Unborn : i <= j

LastLive == IF Live = {} THEN 0 ELSE CHOOSE i \in Live : \A j \in Live : j <= i

\* IDs as the server lists them, oldest first.
Nth(ids, k) == CHOOSE i \in ids : Cardinality({j \in ids : j <= i}) = k

InOrder(ids) == [k \in 1 .. Cardinality(ids) |-> Nth(ids, k)]

Emit(event) == Len(wire) < MaxWire /\ wire' = Append(wire, event)

CreateEvent(id, nonce) == [type |-> "create", id |-> id, nonce |-> nonce, body |-> 0]

\* Another member posts.
OthersPost ==
  /\ open /\ Unborn # {}
  /\ server' = [server EXCEPT ![NextId].state = "live"]
  /\ Emit(CreateEvent(NextId, NoNonce))
  /\ UNCHANGED <<store, life, gate, reqs, calls, deletes, open, faults, gone>>

\* A message is edited, or its embeds unfurl.
ServerEdits(id) ==
  /\ open /\ id \in Live /\ server[id].body < MaxBody
  /\ server' = [server EXCEPT ![id].body = @ + 1]
  /\ Emit([type |-> "update", id |-> id, nonce |-> server[id].nonce, body |-> server[id].body + 1])
  /\ UNCHANGED <<store, life, gate, reqs, calls, deletes, open, faults, gone>>

\* One message, or several in a MESSAGE_DELETE_BULK.
ServerDeletes(ids) ==
  /\ open /\ ids # {} /\ ids \subseteq Live
  /\ BulkDelete \/ Cardinality(ids) = 1
  /\ server' = [i \in Ids |-> IF i \in ids THEN [server[i] EXCEPT !.state = "deleted"]
                              ELSE server[i]]
  /\ Emit([type |-> "delete", ids |-> InOrder(ids)])
  /\ UNCHANGED <<store, life, gate, reqs, calls, deletes, open, faults, gone>>

\* The events that end or begin a lifetime.
LifetimeEvents(events) ==
  {k \in DOMAIN events : events[k].type \in {"channelDelete", "channelCreate"}}

\* Lifetime changes so far, those whose events still travel included.
Lifetimes == life.gen + Cardinality(LifetimeEvents(wire))

\* The channel is deleted, or the account loses sight of it ...
ServerCloses ==
  /\ open /\ Lifetimes < MaxLifetimes
  /\ open' = FALSE
  /\ Emit([type |-> "channelDelete"])
  /\ UNCHANGED <<store, life, gate, reqs, calls, deletes, server, faults, gone>>

\* ... and comes back under the same snowflake.
ServerOpens ==
  /\ ~ open /\ Lifetimes < MaxLifetimes
  /\ open' = TRUE
  /\ Emit([type |-> "channelCreate", last |-> LastLive])
  /\ UNCHANGED <<store, life, gate, reqs, calls, deletes, server, faults, gone>>

Fault(kind) == kind \in Faults /\ faults < MaxFaults /\ faults' = faults + 1

\* A message event is lost across a reconnect.
DropEvent ==
  /\ wire # <<>> /\ Head(wire).type \in {"create", "update", "delete"}
  /\ Fault("drop")
  /\ wire' = Tail(wire)
  /\ UNCHANGED <<store, life, gate, reqs, calls, deletes, server, open, gone>>

\* The gateway delivers the creation of a message a second time.
Redeliver(id) ==
  /\ open /\ id \in Live /\ Fault("redeliver")
  /\ Emit([CreateEvent(id, server[id].nonce) EXCEPT !.body = server[id].body])
  /\ UNCHANGED <<store, life, gate, reqs, calls, deletes, server, open, gone>>

-----------------------------------------------------------------------------
(* Gateway handlers                                                        *)

FromServer(id, nonce, body) == [id |-> id, nonce |-> nonce, body |-> body, st |-> "ok", rev |-> 0]

\* Mutant: the echo is not looked for.
ReconcileById(s, m) == IF HasMessage(s, m.id) THEN s ELSE AppendMessage(s, m)

\* handleMessageCreate and the REST confirmation share this reconciliation:
\* swap the echo with the same nonce, otherwise append unless it is cached.
Reconcile(s, m) ==
  LET tried == ReplaceMessage(s, m.nonce, m)
  IN  IF ReplacesEcho(s, m.nonce) \/ HasMessage(tried, m.id)
      THEN tried ELSE AppendMessage(tried, m)

HandleMessageCreate(e) ==
  /\ store' = Reconcile(store, FromServer(e.id, e.nonce, e.body))
  /\ gone' = gone \ {e.id}
  /\ UNCHANGED <<life, gate>>

HandleMessageUpdate(e) ==
  /\ store' = UpdateMessage(store, e.id, e.body)
  /\ UNCHANGED <<life, gate, gone>>

\* handleMessageDelete and handleMessageDeleteBulk
HandleMessageDelete(e) ==
  /\ store' = RemovalStates(store, e.ids)[Len(e.ids)]
  /\ gone' = gone \cup ToSet(e.ids)
  /\ UNCHANGED <<life, gate>>

\* Mutant: the pending mark outlives the channel.
InvalidateLoaded(g) == [g EXCEPT !.loaded = FALSE, !.exhausted = FALSE, !.version = @ + 1]

Invalidate(g) == [NewGate EXCEPT !.version = g.version + 1]

HandleChannelDelete ==
  /\ gate' = Invalidate(gate)
  /\ store' = RemoveChannel(store)
  /\ life' = EndLifetime(life)
  /\ UNCHANGED gone

HandleChannelUpsert(e) ==
  /\ store' = UpsertChannel(store, e.last)
  /\ life' = BeginLifetime(life)
  /\ UNCHANGED <<gate, gone>>

HandleEvent ==
  /\ wire # <<>>
  /\ wire' = Tail(wire)
  /\ LET e == Head(wire) IN
       \/ e.type = "create"        /\ HandleMessageCreate(e)
       \/ e.type = "update"        /\ HandleMessageUpdate(e)
       \/ e.type = "delete"        /\ HandleMessageDelete(e)
       \/ e.type = "channelDelete" /\ HandleChannelDelete
       \/ e.type = "channelCreate" /\ HandleChannelUpsert(e)
  /\ UNCHANGED <<reqs, calls, deletes, server, open, faults>>

-----------------------------------------------------------------------------
(* Sending                                                                 *)

\* Send, SendFiles, SendSticker, Reply and SendToChannel: the echo appears at
\* once and a goroutine runs deliver.
Send(n) ==
  /\ life.known /\ calls[n].phase = "unused"
  /\ store' = AppendMessage(store, [id |-> 0, nonce |-> n, body |-> 0, st |-> "pending", rev |-> 0])
  /\ calls' = [calls EXCEPT ![n].phase = "sending"]
  /\ UNCHANGED <<life, gate, reqs, deletes, server, open, wire, faults, gone>>

ServerAccepts(n) ==
  /\ open /\ calls[n].phase = "sending" /\ Unborn # {}
  /\ server' = [server EXCEPT ![NextId] = [state |-> "live", nonce |-> n, body |-> 0]]
  /\ Emit(CreateEvent(NextId, n))
  /\ calls' = [calls EXCEPT ![n] = [phase |-> "accepted", id |-> NextId]]
  /\ UNCHANGED <<store, life, gate, reqs, deletes, open, faults, gone>>

\* The server refuses the message, or the request fails on its way ...
ServerRefuses(n) ==
  /\ calls[n].phase = "sending" /\ (~ open \/ Unborn = {})
  /\ calls' = [calls EXCEPT ![n].phase = "refused"]
  /\ UNCHANGED <<store, life, gate, reqs, deletes, server, open, wire, faults, gone>>

SendFails(n) ==
  /\ calls[n].phase = "sending" /\ Fault("refuse")
  /\ calls' = [calls EXCEPT ![n].phase = "refused"]
  /\ UNCHANGED <<store, life, gate, reqs, deletes, server, open, wire, gone>>

\* ... or the connection breaks after it did.
ReplyLost(n) ==
  /\ calls[n].phase = "accepted" /\ Fault("lostReply")
  /\ calls' = [calls EXCEPT ![n].phase = "refused"]
  /\ UNCHANGED <<store, life, gate, reqs, deletes, server, open, wire, gone>>

\* The reply carries no message: deliver leaves the echo to the gateway.
EmptyReply(n) ==
  /\ calls[n].phase = "accepted" /\ Fault("emptyReply")
  /\ calls' = [calls EXCEPT ![n].phase = "done"]
  /\ UNCHANGED <<store, life, gate, reqs, deletes, server, open, wire, gone>>

\* deliver's closure after a successful REST call.
ConfirmSend(n) ==
  /\ calls[n].phase = "accepted"
  /\ store' = Reconcile(store, FromServer(calls[n].id, n, 0))
  /\ gone' = gone \ {calls[n].id}
  /\ calls' = [calls EXCEPT ![n].phase = "done"]
  /\ UNCHANGED <<life, gate, reqs, deletes, server, open, wire, faults>>

\* deliver's closure after a failed one.
FailSend(n) ==
  /\ calls[n].phase = "refused"
  /\ store' = MarkFailed(store, n)
  /\ calls' = [calls EXCEPT ![n].phase = "done"]
  /\ UNCHANGED <<life, gate, reqs, deletes, server, open, wire, faults, gone>>

-----------------------------------------------------------------------------
(* Deleting a message over REST                                            *)

\* DeleteMessage on a cached message: the server has deleted it, the reply travels.
RestDeletes(id) ==
  /\ open /\ id \in Live \cap IdsOf(store.msgs) /\ Cardinality(deletes) < MaxRestDeletes
  /\ server' = [server EXCEPT ![id].state = "deleted"]
  /\ deletes' = deletes \cup {id}
  /\ Emit([type |-> "delete", ids |-> <<id>>])
  /\ UNCHANGED <<store, life, gate, reqs, calls, open, faults, gone>>

ApplyRestDelete(id) ==
  /\ id \in deletes
  /\ deletes' = deletes \ {id}
  /\ store' = RemoveMessage(store, id)
  /\ gone' = gone \cup {id}
  /\ UNCHANGED <<life, gate, reqs, calls, server, open, wire, faults>>

-----------------------------------------------------------------------------
(* Loading history                                                         *)

\* historyRequestSnapshot, taken on the UI goroutine as the request starts.
NewRequest(kind, before) ==
  [phase |-> "asked", kind |-> kind, rev |-> store.rev, gen |-> life.gen,
   ver |-> gate.version, before |-> before, page |-> <<>>]

LoadHistory(r) ==
  /\ life.known /\ reqs[r] = NoRequest
  /\ ~ gate.loaded /\ ~ gate.pending
  /\ gate' = [gate EXCEPT !.pending = TRUE]
  /\ reqs' = [reqs EXCEPT ![r] = NewRequest("initial", 0)]
  /\ UNCHANGED <<store, life, calls, deletes, server, open, wire, faults, gone>>

\* The page starts before the oldest cached message; with none, or with an
\* echo there, the channel counts as exhausted at once.
LoadOlderHistory(r) ==
  /\ life.known /\ reqs[r] = NoRequest
  /\ ~ gate.pending /\ ~ gate.exhausted
  /\ LET oldest == IF store.msgs = <<>> THEN 0 ELSE store.msgs[1].id IN
       IF oldest = 0
       THEN /\ gate' = [gate EXCEPT !.exhausted = TRUE]
            /\ UNCHANGED reqs
       ELSE /\ gate' = [gate EXCEPT !.pending = TRUE]
            /\ reqs' = [reqs EXCEPT ![r] = NewRequest("older", oldest)]
  /\ UNCHANGED <<store, life, calls, deletes, server, open, wire, faults, gone>>

\* The server reads the newest PageLimit messages, before `before' if set.
PageOf(before) ==
  LET eligible == {i \in Live : before = 0 \/ i < before}
      newest   == {i \in eligible : Cardinality({j \in eligible : j > i}) < PageLimit}
      ids      == InOrder(newest)
  IN  [k \in DOMAIN ids |->
         FromServer(ids[k], IF PagesCarryNonce THEN server[ids[k]].nonce ELSE NoNonce,
                    server[ids[k]].body)]

ServerAnswers(r) ==
  /\ reqs[r].phase = "asked"
  /\ reqs' = [reqs EXCEPT ![r] =
                IF open THEN [@ EXCEPT !.phase = "answered", !.page = PageOf(reqs[r].before)]
                ELSE [@ EXCEPT !.phase = "refused"]]
  /\ UNCHANGED <<store, life, gate, calls, deletes, server, open, wire, faults, gone>>

RequestFails(r) ==
  /\ reqs[r].phase = "asked" /\ Fault("refuse")
  /\ reqs' = [reqs EXCEPT ![r].phase = "refused"]
  /\ UNCHANGED <<store, life, gate, calls, deletes, server, open, wire, gone>>

\* The completion belongs to a lifetime or a gate state that has passed.
Stale(r) == reqs[r].gen # life.gen \/ reqs[r].ver # gate.version

Short(r) == Len(reqs[r].page) < PageLimit

Newer(m, revision) == m.id # 0 /\ m.rev > revision

\* Mutant: the page wins over what is cached.
PageWins(cached, m, revision) == m

\* Of a page's message and its cached copy, if any: the copy, if it changed.
Winner(cached, m, revision) ==
  IF cached # <<>> /\ Newer(Last(cached), revision) THEN Last(cached) ELSE m

\* mergeInitialHistory: the page, with live versions that changed after the
\* request, then the live messages the page does not have.
MergeInitialHistory(s, page, revision) ==
  LET cached(m) == Where(s.msgs, LAMBDA c : c.id = m.id)
      current   == Where(page, LAMBDA m : ~ MessageTombstoned(s, m.id))
      arrivals  == Where(s.msgs, LAMBDA m : /\ Newer(m, revision) /\ ~ Unresolved(m)
                                           /\ ~ MessageTombstoned(s, m.id)
                                           /\ m.id \notin IdsOf(page))
  IN  [k \in DOMAIN current |-> Winner(cached(current[k]), current[k], revision)] \o arrivals

\* Mutant: only a successful load gives the gate back.
FinishSuccess(loaded, exhausted) ==
  gate' = [gate EXCEPT !.pending = @ /\ ~ loaded, !.loaded = @ \/ loaded,
                       !.exhausted = @ \/ exhausted]

FinishLoad(loaded, exhausted) ==
  gate' = [gate EXCEPT !.pending = FALSE, !.loaded = @ \/ loaded, !.exhausted = @ \/ exhausted]

InstallPage(r) ==
  IF reqs[r].kind = "initial"
  THEN /\ \E merged \in {MergeInitialHistory(store, reqs[r].page, reqs[r].rev)} :
            store' = SetMessages(store, merged)
       /\ FinishLoad(TRUE, Short(r))
  ELSE /\ store' = PrependMessagesSince(store, reqs[r].page, reqs[r].rev)
       /\ FinishLoad(FALSE, Short(r))

\* The closure loadHistoryFrom and loadOlderHistoryFrom post.
CompleteRequest(r) ==
  /\ reqs[r].phase \in {"answered", "refused"}
  /\ reqs' = [reqs EXCEPT ![r] = Spent]
  /\ \/ Stale(r) /\ UNCHANGED <<store, gate>>
     \/ /\ ~ Stale(r)
        /\ reqs[r].phase = "refused" \/ TombstonesPrunedSince(store, reqs[r].rev)
        /\ FinishLoad(FALSE, FALSE)
        /\ UNCHANGED store
     \/ /\ ~ Stale(r)
        /\ reqs[r].phase = "answered" /\ ~ TombstonesPrunedSince(store, reqs[r].rev)
        /\ InstallPage(r)
  /\ UNCHANGED <<life, calls, deletes, server, open, wire, faults, gone>>

-----------------------------------------------------------------------------
(* The specification                                                       *)

Init ==
  /\ gate = NewGate
  /\ reqs = [r \in Requests |-> NoRequest]
  /\ calls = [n \in Nonces |-> [phase |-> "unused", id |-> 0]]
  /\ deletes = {}
  /\ server = [i \in Ids |-> [state |-> IF i <= Backlog THEN "live" ELSE "none",
                              nonce |-> NoNonce, body |-> 0]]
  /\ store = [NewStore EXCEPT !.latest = LastLive]
  /\ life = FirstLifetime
  /\ open = TRUE
  /\ wire = <<>>
  /\ faults = 0
  /\ gone = {}

Environment ==
  \/ OthersPost
  \/ \E id \in Ids : ServerEdits(id) \/ RestDeletes(id) \/ Redeliver(id)
  \/ \E ids \in SUBSET Ids : ServerDeletes(ids)
  \/ ServerCloses \/ ServerOpens \/ DropEvent
  \/ \E r \in Requests : RequestFails(r)
  \/ \E n \in Nonces : ReplyLost(n) \/ EmptyReply(n) \/ SendFails(n)

User ==
  \/ \E n \in Nonces : Send(n)
  \/ \E r \in Requests : LoadHistory(r) \/ LoadOlderHistory(r)

\* What runs by itself once started: REST calls end, closures run.
SendStep(n) == ServerAccepts(n) \/ ServerRefuses(n) \/ ConfirmSend(n) \/ FailSend(n)

RequestStep(r) == ServerAnswers(r) \/ CompleteRequest(r)

Next ==
  \/ Environment \/ User \/ HandleEvent
  \/ \E n \in Nonces : SendStep(n)
  \/ \E r \in Requests : RequestStep(r)
  \/ \E id \in Ids : ApplyRestDelete(id)

Fairness ==
  /\ WF_vars(HandleEvent)
  /\ \A n \in Nonces : WF_vars(SendStep(n))
  /\ \A r \in Requests : WF_vars(RequestStep(r))
  /\ \A id \in Ids : WF_vars(ApplyRestDelete(id))

Spec == Init /\ [][Next]_vars /\ Fairness

-----------------------------------------------------------------------------
(* Properties                                                              *)

InFlight(r) == reqs[r].phase \in {"asked", "answered", "refused"}

\* A pending gate is always owned by one request whose completion will still
\* be accepted: otherwise the channel could never load again, or two requests
\* could install pages over one another.
PendingHasOwner ==
  Cardinality({r \in Requests : InFlight(r) /\ ~ Stale(r)}) = (IF gate.pending THEN 1 ELSE 0)

\* A history page, read on the server before a delete and installed after it,
\* never brings the message back: neither the tombstones, nor their eviction,
\* nor the end of the channel's lifetime leaves a way in.
NoStaleResurrection ==
  [][reqs' # reqs =>
       (IdsOf(store'.msgs) \cap gone) \subseteq (IdsOf(store.msgs) \cap gone)]_vars

\* What the request must not undo: echoes, and messages changed since it began.
Touched(m, r) == Unresolved(m) \/ (m.id # 0 /\ m.rev > reqs[r].rev)

\* The page accounts for the message: it has its ID, or it confirms the echo.
InPage(m, r) ==
  \E k \in ToSet(reqs[r].page) : \/ m.id # 0 /\ k.id = m.id
                                 \/ m.nonce # NoNonce /\ k.nonce = m.nonce

SameMessage(m, k) == m.id = k.id /\ m.nonce = k.nonce /\ m.body = k.body /\ m.st = k.st

\* Installing a page, or trimming the ring to make room for it, keeps every
\* echo and every message that arrived or changed while the page was in flight
\* unless the page itself accounts for it.
InFlightSurvives ==
  [][\A r \in Requests : InFlight(r) /\ reqs'[r] = Spent =>
       \A m \in ToSet(store.msgs) :
         Touched(m, r) /\ ~ InPage(m, r) =>
           \E k \in ToSet(store'.msgs) : SameMessage(m, k)]_vars

\* For a message cached before and after, no page replaces a newer body by an
\* older one, however events and the reply interleave.
NoRollback ==
  [][\A r \in Requests : InFlight(r) /\ reqs'[r] = Spent =>
       \A m \in ToSet(store.msgs) : \A k \in ToSet(store'.msgs) :
         m.id # 0 /\ m.id = k.id => m.body <= k.body]_vars

\* Scrolling up in a full window makes progress and does not give up the
\* newest message, as long as two slots are not taken by messages the request
\* must not undo.
PagingKeepsBothEnds ==
  [][\A r \in Requests :
       LET fresh == SelectSeq(reqs[r].page, LAMBDA m : m.id \notin IdsOf(store.msgs)
                                                     /\ ~ MessageTombstoned(store, m.id))
           held  == {k \in DOMAIN store.msgs : Protected(store.msgs[k], reqs[r].rev)}
       IN  /\ InFlight(r) /\ reqs[r].kind = "older" /\ reqs'[r] = Spent
           /\ store' # store /\ fresh # <<>> /\ Cardinality(held) < HistoryLimit - 1
           => /\ Head(store'.msgs).id = fresh[1].id
              /\ store.msgs # <<>> => Last(store'.msgs).id = Last(store.msgs).id]_vars

Settled ==
  /\ wire = <<>> /\ deletes = {}
  /\ \A r \in Requests : ~ InFlight(r)
  /\ \A n \in Nonces : calls[n].phase \in {"unused", "done"}

\* Once every event is handled and every call is back, the timeline shows no
\* message the server has deleted, as long as no event was lost.
SettledMembership == Settled /\ open => IdsOf(store.msgs) \subseteq Live

\* The one change that does not move MsgRev: an initial page that shows nothing
\* leaves the echoes alone, and they keep the revisions they have.
OnlyEchoesLeft ==
  \E r \in Requests :
    /\ InFlight(r) /\ reqs[r].kind = "initial" /\ reqs'[r] = Spent
    /\ store'.msgs # <<>>
    /\ \A m \in ToSet(store'.msgs) : Unresolved(m) /\ m \in ToSet(store.msgs)

\* ChatView reuses its rendered transcript while MsgRev is unchanged
\* (chatview_transcript.go:132).  Otherwise that number never stands for two
\* different contents, whichever of events, replies, pages and lifetimes changes
\* them.
MsgRevTracksContents ==
  [][store'.msgs # store.msgs => MsgRev(store') # MsgRev(store) \/ OnlyEchoesLeft]_vars

\* A message is cached once, whichever of its echo, its gateway event, its
\* REST reply and a history page come first.
NoDuplicates ==
  \A j, k \in DOMAIN store.msgs :
    j # k /\ store.msgs[j].id # 0 => store.msgs[j].id # store.msgs[k].id

EchoPending(n) == \E m \in ToSet(store.msgs) : m.nonce = n /\ m.st = "pending"

\* An echo is pending only while its REST call runs or its event is under way:
\* history pages, evictions and reordered confirmations never leave one behind.
PendingHasCall ==
  \A n \in Nonces : EchoPending(n) =>
    \/ calls[n].phase \in {"sending", "accepted", "refused"}
    \/ \E k \in DOMAIN wire : wire[k].type = "create" /\ wire[k].nonce = n

\* What a send may never do to the timeline, whatever comes first: lose what it
\* must not undo, show a message twice, leave an echo nobody will resolve.
SendKept == InFlightSurvives /\ []NoDuplicates /\ []PendingHasCall

\* An echo does not stay pending, even when the gateway loses its event or the
\* reply is lost after the server took the message.
EchoResolves == \A n \in Nonces : EchoPending(n) ~> ~ EchoPending(n)

\* A history load ends, in success, failure or the end of the lifetime.
LoadCompletes == gate.pending ~> ~ gate.pending
=============================================================================
