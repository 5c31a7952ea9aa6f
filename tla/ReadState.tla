------------------------------ MODULE ReadState ------------------------------
(***************************************************************************)
(* What the sidebar says about unread messages (app/app.go,                *)
(* gateway_handlers.go, app_gateway_state.go, the unread counters of       *)
(* store/store.go and channels.go, and the badge accounts/manager.go       *)
(* pushes).                                                                *)
(*                                                                         *)
(* The same fact is kept four times: ningen's read state, which the socket *)
(* goroutine updates; readMarks, a copy of it; the derived cache with its  *)
(* guild aggregate; and the store's local counters.  Handlers on the       *)
(* socket goroutine post closures, the UI goroutine runs them in order,    *)
(* except that a bulk CHANNEL_UNREAD_UPDATE writes the cache at once.      *)
(*                                                                         *)
(* ningen is external.  It calls the client back with an UpdateEvent after *)
(* every message, acknowledgement and local MarkRead, later but in order,  *)
(* and before the next READY.                                              *)
(***************************************************************************)
EXTENDS Naturals, Sequences, FiniteSets, FiniteSetsExt, Functions

CONSTANTS
  Channels,   \* channels of one guild the store knows
  MaxMsg,     \* bound: messages of the guild
  MaxQueue,   \* bound: closures waiting for the UI goroutine
  MaxUpdates, \* bound: UpdateEvents not yet delivered
  Absent        \* no channel, no mark, unknown

ASSUME ReadAssumption == MaxMsg \in Nat /\ Absent \notin Channels \cup [lastRead : Nat, mentions : Nat] \cup {"read", "unread", "mentioned"}

VARIABLES
  read,       \* ningen and Discord: [last, read, mentions, muted] of each channel
  alive,      \* channels Discord has not deleted
  updates,    \* UpdateEvents ningen has still to deliver
  queue,      \* closures posted to the UI goroutine
  known,      \* channels in the store
  latest,     \* the newest message the store has heard of
  unread,     \* channels with a local unread count
  pings,      \* the store's attention counts
  guildPings, \* their sum over the guild, kept incrementally
  marks,      \* readMarks
  cache,      \* unreadChannels; "read" when absent
  guildUnread,\* the guild's aggregate of the cache
  badge,      \* what pushBadges last gave the account selector
  active,     \* the selected channel
  hinted      \* history: entries of the cache a bulk update wrote

Discord == <<read, alive, updates>>
Local == <<known, latest, unread, pings, guildPings>>
Derived == <<marks, cache, guildUnread, hinted>>
readVars == <<Discord, queue, Local, Derived, badge, active>>

Rank(status) == CASE status = "read" -> 0 [] status = "unread" -> 1 [] status = "mentioned" -> 2

Strongest(S) == CHOOSE s \in S \cup {"read"} : \A t \in S \cup {"read"} : Rank(t) <= Rank(s)

MarkOf(c) == [lastRead |-> read[c].read, mentions |-> read[c].mentions]

Update(c) == [c |-> c, mark |-> MarkOf(c), unread |-> read[c].read < read[c].last]

\* What the badge is computed from: ningen's mentions, the aggregate, the local counts.
Mentions == [c \in alive |-> read[c].mentions]
TotalMentionCount == SumFunction(Mentions)

Unread ==
  [mentions |-> TotalMentionCount,
   unread |-> TotalMentionCount > 0 \/ guildUnread # "read" \/ unread # {}]

ReadInit ==
  /\ read = [c \in Channels |-> [last |-> 0, read |-> 0, mentions |-> 0, muted |-> FALSE]]
  /\ alive = Channels
  /\ updates = <<>>
  /\ queue = <<>>
  /\ known = {}
  /\ latest = [c \in Channels |-> 0]
  /\ unread = {}
  /\ pings = [c \in Channels |-> 0]
  /\ guildPings = 0
  /\ marks = [c \in Channels |-> Absent]
  /\ cache = [c \in Channels |-> "read"]
  /\ guildUnread = "read"
  /\ badge = Unread \* nothing is unread, and the badge says so
  /\ active = Absent
  /\ hinted = {}

-----------------------------------------------------------------------------
(* The socket goroutine.                                                   *)

Messages == SumFunction([c \in Channels |-> read[c].last])

Post(closure) == Len(queue) < MaxQueue /\ queue' = Append(queue, closure)

Notify(c) == Len(updates) < MaxUpdates /\ updates' = Append(updates, Update(c)')

\* A message arrives, with or without a mention: the handler posts, ningen counts.
handleMessageCreate(c, ping) ==
  /\ c \in alive /\ Messages < MaxMsg
  /\ read' = [read EXCEPT ![c].last = @ + 1, ![c].mentions = @ + (IF ping THEN 1 ELSE 0)]
  /\ Notify(c)
  /\ Post([kind |-> "message", c |-> c, id |-> read[c].last + 1, ping |-> ping])
  /\ UNCHANGED <<alive, Local, Derived, badge, active>>

\* The user acknowledges a message on another device.
RemoteAck(c, m) ==
  /\ c \in alive /\ m \in (read[c].read + 1)..read[c].last
  /\ read' = [read EXCEPT ![c].read = m, ![c].mentions = 0]
  /\ Notify(c)
  /\ UNCHANGED <<alive, queue, Local, Derived, badge, active>>

\* ningen delivers an UpdateEvent: the mute state is read now, the rest is a copy.
handleReadStateUpdate ==
  /\ updates # <<>>
  /\ updates' = Tail(updates)
  /\ LET e == Head(updates) IN
       Post([kind |-> "update", c |-> e.c, mark |-> e.mark,
             status |-> CASE e.mark.mentions > 0 -> "mentioned"
                          [] e.mark.mentions = 0 /\ e.unread /\ ~read[e.c].muted -> "unread"
                          [] OTHER -> "read"])
  /\ UNCHANGED <<read, alive, Local, Derived, badge, active>>

\* A channel is muted or unmuted: ningen knows at once, the cache when the
\* closure runs.
handleGuildSettingsUpdate(c) ==
  /\ c \in alive
  /\ read' = [read EXCEPT ![c].muted = ~@]
  /\ Post([kind |-> "settings"])
  /\ UNCHANGED <<alive, updates, Local, Derived, badge, active>>

\* A reconnect: channels and messages came and went while the client was away,
\* and READY replaces ningen's read state.  It may list the guild's channels.
handleReady ==
  /\ updates = <<>>
  /\ \E c \in alive : \E l, r \in 0..MaxMsg :
       /\ read[c].last <= l /\ Messages - read[c].last + l <= MaxMsg
       /\ read[c].read <= r /\ r <= l
       /\ read' = [read EXCEPT ![c].last = l, ![c].read = r, ![c].mentions = IF r > read[c].read THEN 0 ELSE @]
  /\ \E gone \in SUBSET alive : Cardinality(gone) <= 1 /\ alive' = alive \ gone
  /\ \E listed \in {{}, alive'} :
       Post([kind |-> "ready", channels |-> listed, last |-> [c \in Channels |-> read'[c].last],
             marks |-> [c \in Channels |-> MarkOf(c)']])
  /\ UNCHANGED <<updates, Local, Derived, badge, active>>

\* The guild as it is now, when it becomes available and after READY.
handleGuildCreate ==
  /\ alive # {}
  /\ Post([kind |-> "guild", channels |-> alive, last |-> [c \in Channels |-> read[c].last]])
  /\ UNCHANGED <<Discord, Local, Derived, badge, active>>

handleChannelDelete(c) ==
  /\ c \in alive
  /\ alive' = alive \ {c}
  /\ Post([kind |-> "delete", c |-> c])
  /\ UNCHANGED <<read, updates, Local, Derived, badge, active>>

\* Statuses written to the cache, and the aggregate of the result.
cacheReadState(c, status) ==
  LET new == [cache EXCEPT ![c] = status] IN
    /\ cache' = new
    /\ guildUnread' = Strongest({new[d] : d \in Channels})

\* The bulk update: the cache is written here, on the socket goroutine; its
\* last message is ignored, and only a refresh is posted.
handleChannelUnreadUpdate(c) ==
  /\ c \in alive /\ Messages < MaxMsg
  /\ read' = [read EXCEPT ![c].last = @ + 1]
  /\ cacheReadState(c, IF read[c].muted THEN "read" ELSE "unread")
  /\ hinted' = hinted \cup {c}
  /\ Post([kind |-> "refresh"])
  /\ UNCHANGED <<alive, updates, Local, marks, badge, active>>

-----------------------------------------------------------------------------
(* The UI goroutine.                                                       *)

\* localReadState: from the mark and the store's LastMessageID, never from the
\* network.  Unknown without a mark.
localReadState(c, ms, chans, last) ==
  CASE ms[c] = Absent -> Absent
    [] ms[c] # Absent /\ ms[c].mentions > 0 -> "mentioned"
    [] ms[c] # Absent /\ ms[c].mentions = 0 /\ ~read[c].muted /\ c \in chans /\ ms[c].lastRead < last[c] -> "unread"
    [] OTHER -> "read"

counted(c) == IF pings[c] > 0 THEN "mentioned" ELSE IF c \in unread THEN "unread" ELSE "read"

channelUnread(c) ==
  IF c \in known /\ cache[c] # "read" THEN cache[c]
  ELSE IF localReadState(c, marks, known, latest) # Absent THEN localReadState(c, marks, known, latest)
  ELSE counted(c)

pushBadges == badge' = Unread'

\* clearPing: the guild's sum loses what the channel counted, if it is known.
ClearUnread(cs) ==
  /\ unread' = unread \ cs
  /\ pings' = [c \in Channels |-> IF c \in cs THEN 0 ELSE pings[c]]
  /\ guildPings' = LET lost == SumFunctionOnSet(pings, cs \cap known) IN
                     IF lost < guildPings THEN guildPings - lost ELSE 0

\* resetReadStateCache: everything the store then knows, computed anew.
resetReadStateCache(ms, chans, last) ==
  LET status(c) == LET s == localReadState(c, ms, chans, last) IN IF s = Absent THEN counted(c) ELSE s
      new == [c \in Channels |-> IF c \in chans THEN status(c) ELSE "read"] IN
    /\ cache' = new
    /\ guildUnread' = Strongest({new[c] : c \in Channels})
    /\ hinted' = {}
    /\ ClearUnread({c \in chans : ms[c] # Absent /\ status(c) = "read"})

removeCachedReadState(cs) ==
  LET new == [c \in Channels |-> IF c \in cs THEN "read" ELSE cache[c]] IN
    /\ cache' = new
    /\ marks' = [c \in Channels |-> IF c \in cs THEN Absent ELSE marks[c]]
    /\ guildUnread' = Strongest({new[c] : c \in Channels})
    /\ hinted' = hinted \ cs

\* removeChannel: the counters go with the channel.
RemoveChannels(cs) ==
  /\ known' = known \ cs
  /\ latest' = [c \in Channels |-> IF c \in cs THEN 0 ELSE latest[c]]
  /\ ClearUnread(cs)

\* The message is stored; another channel than the active one counts it.
RunMessage(m) ==
  /\ latest' = [latest EXCEPT ![m.c] = IF m.id > @ THEN m.id ELSE @]
  /\ unread' = IF m.c # active THEN unread \cup {m.c} ELSE unread
  /\ pings' = [pings EXCEPT ![m.c] = IF m.c # active /\ m.ping THEN @ + 1 ELSE @]
  /\ guildPings' = IF m.c # active /\ m.ping /\ m.c \in known THEN guildPings + 1 ELSE guildPings
  /\ UNCHANGED <<known, Derived, active>>
  /\ pushBadges

RunUpdate(m) ==
  /\ marks' = [marks EXCEPT ![m.c] = m.mark]
  /\ cacheReadState(m.c, m.status)
  /\ hinted' = hinted \ {m.c}
  /\ IF m.status = "read" THEN ClearUnread({m.c}) ELSE UNCHANGED <<unread, pings, guildPings>>
  /\ UNCHANGED <<known, latest, active>>
  /\ pushBadges

RunSettings ==
  /\ resetReadStateCache(marks, known, latest)
  /\ UNCHANGED <<known, latest, marks, active>>
  /\ pushBadges

\* ingestGuild: the channels listed are upserted; LastMessageID never goes back.
Ingested(m) == [c \in Channels |-> IF c \in m.channels /\ m.last[c] > latest[c] THEN m.last[c] ELSE latest[c]]

\* READY: what it lists is ingested, the marks are replaced, the cache recomputed.
RunReady(m) ==
  /\ known' = known \cup m.channels
  /\ latest' = Ingested(m)
  /\ marks' = m.marks
  /\ resetReadStateCache(m.marks, known \cup m.channels, Ingested(m))
  /\ UNCHANGED active
  /\ pushBadges

\* GUILD_CREATE: ingested, and channels the snapshot does not list are pruned; the
\* badge is pushed when one of them had a cached status.
RunGuild(m) ==
  LET gone == known \ m.channels
      changed == \E c \in gone : cache[c] # "read" IN
    /\ known' = m.channels
    /\ latest' = [c \in Channels |-> IF c \in gone THEN 0 ELSE Ingested(m)[c]]
    /\ ClearUnread(gone)
    /\ removeCachedReadState(gone)
    /\ active' = IF active \in gone THEN Absent ELSE active
    /\ IF changed THEN pushBadges ELSE UNCHANGED badge

RunDelete(m) ==
  /\ removeCachedReadState({m.c})
  /\ RemoveChannels({m.c})
  /\ active' = IF active = m.c THEN Absent ELSE active
  /\ pushBadges

\* The UI goroutine runs the oldest closure.
Run ==
  /\ queue # <<>>
  /\ queue' = Tail(queue)
  /\ UNCHANGED Discord
  /\ LET m == Head(queue) IN
       \/ m.kind = "message" /\ RunMessage(m)
       \/ m.kind = "update" /\ RunUpdate(m)
       \/ m.kind = "settings" /\ RunSettings
       \/ m.kind = "ready" /\ RunReady(m)
       \/ m.kind = "guild" /\ RunGuild(m)
       \/ m.kind = "delete" /\ RunDelete(m)
       \/ m.kind = "refresh" /\ UNCHANGED <<Local, Derived, active>> /\ pushBadges

\* The user selects a channel; its local counters are cleared, no badge is pushed.
SetActive(c) ==
  /\ c \in known
  /\ active' = c
  /\ ClearUnread({c})
  /\ UNCHANGED <<Discord, queue, known, latest, Derived, badge>>

\* Mutant: the row the focus bar is on is acknowledged.
AcknowledgedRow(c, m) == m

\* The position acknowledged: never behind what the store, the mark or ningen know.
Acknowledged(c, m) ==
  Max({m, latest[c], read[c].last} \cup {marks[d].lastRead : d \in {d \in {c} : marks[d] # Absent}})

\* The focus bar is on message m, or the user marks the channel read; 0 is any
\* message older than these.  Acknowledging once more what is read is left out.
MarkRead(c, m) ==
  /\ c \in known /\ c \in alive /\ m \in 0..latest[c]
  /\ read[c].read < read[c].last \/ read[c].mentions > 0
  /\ read' = [read EXCEPT ![c].read = Acknowledged(c, m), ![c].mentions = 0]
  /\ Notify(c)
  /\ ClearUnread({c})
  /\ UNCHANGED <<alive, queue, known, latest, Derived, active>>
  /\ pushBadges

ReadNext ==
  \/ \E c \in Channels :
       \/ \E ping \in BOOLEAN : handleMessageCreate(c, ping)
       \/ \E m \in 0..MaxMsg : RemoteAck(c, m) \/ MarkRead(c, m)
       \/ handleGuildSettingsUpdate(c)
       \/ handleChannelDelete(c)
       \/ handleChannelUnreadUpdate(c)
       \/ SetActive(c)
  \/ handleReadStateUpdate
  \/ handleReady
  \/ handleGuildCreate
  \/ Run

ReadSpec == ReadInit /\ [][ReadNext]_readVars

-----------------------------------------------------------------------------
(* The inductive invariant.                                                *)

Statuses == {"read", "unread", "mentioned"}
Mark == [lastRead : Nat, mentions : Nat]

News == [c : Channels, mark : Mark, unread : BOOLEAN]

Closures ==
  [kind : {"message"}, c : Channels, id : Nat, ping : BOOLEAN]
    \cup [kind : {"update"}, c : Channels, mark : Mark, status : Statuses]
    \cup [kind : {"ready"}, channels : SUBSET Channels, last : [Channels -> Nat], marks : [Channels -> Mark]]
    \cup [kind : {"guild"}, channels : SUBSET Channels, last : [Channels -> Nat]]
    \cup [kind : {"delete"}, c : Channels]
    \cup [kind : {"settings", "refresh"}]

ReadTypes ==
  /\ read \in [Channels -> [last : Nat, read : Nat, mentions : Nat, muted : BOOLEAN]]
  /\ alive \in SUBSET Channels /\ known \in SUBSET Channels
  /\ updates \in Seq(News)
  /\ queue \in Seq(Closures)
  /\ latest \in [Channels -> Nat]
  /\ marks \in [Channels -> {Absent} \cup Mark]
  /\ cache \in [Channels -> Statuses]

\* Nothing in q is in S; what is in S, and no later element is in T, is in G.
Avoids(q, S) == \A i \in 1..Len(q) : q[i] \notin S
Ends(q, S, T, G) == \A i \in 1..Len(q) : q[i] \in S /\ (\A j \in (i + 1)..Len(q) : q[j] \notin T) => q[i] \in G

\* What the store, the marks and the closures know of a channel is not ahead of Discord.
ClosurePast(m) ==
  /\ m.kind = "message" => m.id <= read[m.c].last
  /\ m.kind = "update" => m.mark.lastRead <= read[m.c].last
  /\ m.kind \in {"ready", "guild"} => \A c \in Channels : m.last[c] <= read[c].last
  /\ m.kind = "ready" => \A c \in Channels : m.marks[c].lastRead <= read[c].last

NewsAhead == {u \in News : u.mark.lastRead > read[u.c].last}
Ahead == {m \in Closures : ~ClosurePast(m)}

NotAhead ==
  /\ \A c \in Channels : /\ read[c].read <= read[c].last /\ latest[c] <= read[c].last
                         /\ marks[c] # Absent => marks[c].lastRead <= read[c].last
  /\ Avoids(updates, NewsAhead) /\ Avoids(queue, Ahead)

\* News of a channel, closures that tell its status, that replace its mark, and that
\* write its cached status anew; closures that push the badge.
NewsOf(c) == {u \in News : u.c = c}
Tells(c) == {m \in Closures : m.kind = "update" /\ m.c = c}
SetsMark(c) == Tells(c) \cup {m \in Closures : m.kind = "ready"}
Recomputes(c) == SetsMark(c) \cup {m \in Closures : m.kind = "settings"}
Pushes == {m \in Closures : m.kind # "guild"}

MarkIn(m, c) == IF m.kind = "ready" THEN m.marks[c] ELSE m.mark

TrueNews(c) == {u \in News : u.mark = MarkOf(c) /\ (u.unread => read[c].read < read[c].last)}
Carries(c) == {m \in Closures : MarkIn(m, c) = MarkOf(c)}

\* The last news of a channel, wherever it is, is the truth: in an UpdateEvent, in a
\* closure, or in the marks.
NewsTrue(c) ==
  /\ Ends(updates, NewsOf(c), NewsOf(c), TrueNews(c))
  /\ Avoids(updates, NewsOf(c)) => Ends(queue, SetsMark(c), SetsMark(c), Carries(c))
  /\ Avoids(updates, NewsOf(c)) /\ Avoids(queue, SetsMark(c)) => marks[c] \in {Absent, MarkOf(c)}

\* What the read state says of a channel.
Truth(c) ==
  CASE read[c].mentions > 0 -> "mentioned"
    [] read[c].mentions = 0 /\ ~read[c].muted /\ read[c].read < read[c].last -> "unread"
    [] OTHER -> "read"

Truthful(c) == {m \in Closures : m.status \in {"read", Truth(c)}}

\* So is a status that will be cached, or is cached, last; "read" stands for one to be
\* derived when it is shown.
StatusTrue(c) ==
  /\ Avoids(updates, NewsOf(c)) => Ends(queue, Tells(c), Recomputes(c), Truthful(c))
  /\ Avoids(updates, NewsOf(c)) /\ Avoids(queue, Recomputes(c)) /\ c \notin hinted /\ marks[c] # Absent
       => cache[c] \in {"read", Truth(c)}

\* The guild's aggregate is the strongest status in the cache, whichever of the
\* cache's writers, on two goroutines, ran last.
AggregateIsMax == guildUnread = Strongest({cache[c] : c \in Channels})

\* The badge is current, or something that will push it is on its way.
BadgeCurrent == badge.mentions = Unread.mentions /\ (Unread.unread => badge.unread)
BadgePending == updates = <<>> /\ Avoids(queue, Pushes) => BadgeCurrent

ReadIInv ==
  /\ ReadTypes /\ NotAhead
  /\ \A c \in Channels : NewsTrue(c) /\ StatusTrue(c)
  /\ AggregateIsMax /\ BadgePending

-----------------------------------------------------------------------------
(* Properties.                                                             *)

Settled == queue = <<>> /\ updates = <<>>

\* Once every closure has run the sidebar shows a channel's true status, in
\* whichever order messages, acknowledgements, mute settings, bulk updates and a
\* reconnect reached the four copies.  Two kinds of channels are excepted: those
\* whose newest message the store has not heard of, and those whose entry a bulk
\* update wrote, which says unread and is believed until a read event.
SettledStatus ==
  Settled => \A c \in known \ hinted :
    latest[c] = read[c].last /\ marks[c] # Absent => channelUnread(c) = Truth(c)

\* The account selector's badge does not fall behind: when every closure has run
\* the mentions are exact, and an account with unread messages is shown unread.
\* (Selecting a channel may leave it unread for a while: no badge is pushed.)
BadgeFollows == Settled => BadgeCurrent

\* Read positions never move backwards, whichever row the focus bar visits.
AckMonotone == [][\A c \in Channels : read'[c].read >= read[c].read]_readVars

\* Four copies of the read state on two goroutines agree once everything has been handled: the
\* guild's mark is the strongest of its channels, a channel's is its true status and the badge
\* follows; and no acknowledgement takes a read position back
\* (app/app.go, app/gateway_handlers.go, store/store.go, accounts/manager.go).
ReadFollows ==
  /\ [](AggregateIsMax /\ SettledStatus /\ BadgeFollows)
  /\ AckMonotone
=============================================================================
