------------------------------ MODULE Directory ------------------------------
(***************************************************************************)
(* The directory of guilds, channels and threads: the gateway's lifecycle  *)
(* events, the guild snapshots of a reconnect, the REST pull of guilds and *)
(* direct messages with its bounded retries, and the history gates of the  *)
(* channels that come and go (internal/app/app_directory.go,               *)
(* app_gateway_state.go over internal/store).                              *)
(*                                                                         *)
(* A guild or channel is known or not, and has the generation that counts  *)
(* its creations and removals.  Names, positions and members are left out. *)
(* As in Timeline, posting a closure and running it is one step.           *)
(***************************************************************************)
EXTENDS Naturals, FiniteSets, Sequences, Functions

CONSTANTS
  Guilds,        \* guilds of the account
  DM,            \* DirectMessagesGuildID
  DirChannels,   \* channels, threads and direct messages
  GuildOf,       \* of each channel: its guild, or DM
  ParentOf,      \* of each channel: NoParent; of a thread, its channel
  NoParent,
  Pulls,         \* LoadGuilds calls that may be in flight
  MaxRetries,    \* maxDirectoryLoadRetries
  MaxPulls,      \* LoadGuilds calls in one behaviour
  MaxChanges,    \* bound on the server's changes
  MaxReconnects, \* bound on reconnects
  MaxHistory,    \* bound on history loads
  MaxWire        \* bound on events under way

VARIABLES
  dir,      \* the store's guilds and channels
  hist,     \* historyGate of each channel
  gate,     \* guildsGate
  loads,    \* history loads in flight
  pulls,    \* directory requests in flight, with their retry timers
  told,     \* a pull has ended in onReady or onError
  live,     \* guilds and channels that exist on the server
  wire,     \* gateway events not yet handled, oldest first
  used,     \* how often each bounded environment action has happened
  removed,  \* history: what the client has removed and the server has not had since
  severed,  \* history: threads a snapshot removed with their channel, see HandleGuildCreate
  bare      \* history: guilds whose latest snapshot showed no channel

dirVars == <<dir, hist, gate, loads, pulls, told, live, wire, used, removed, severed, bare>>

AllGuilds == Guilds \cup {DM}

Things == AllGuilds \cup DirChannels

IsThread(c) == ParentOf[c] # NoParent

ThreadsOf(c) == {t \in DirChannels : ParentOf[t] = c}

ChannelsOf(g) == {c \in DirChannels : GuildOf[c] = g}

\* Snowflakes of guilds and of channels are told apart, a thread's parent is a channel, and
\* direct messages have no threads.
ASSUME DirectoryAssumption ==
  /\ IsFiniteSet(Guilds) /\ IsFiniteSet(DirChannels) /\ IsFiniteSet(Pulls)
  /\ DM \notin Guilds /\ AllGuilds \cap DirChannels = {}
  /\ GuildOf \in [DirChannels -> AllGuilds] /\ NoParent \notin DirChannels
  /\ ParentOf \in [DirChannels -> DirChannels \cup {NoParent}] /\ MaxRetries \in Nat
  /\ \A c \in DirChannels : IsThread(c) => ~ IsThread(ParentOf[c]) /\ GuildOf[c] # DM

NewGate == [loaded |-> FALSE, pending |-> FALSE, version |-> 0]

Idle == [phase |-> "idle"]

-----------------------------------------------------------------------------
(* The store                                                               *)

Known(x) == dir[x].known

\* UpsertGuild and UpsertChannel start a lifetime of what is new.
Upserted(d, things) ==
  [x \in Things |-> IF x \in things /\ ~ d[x].known
                    THEN [known |-> TRUE, gen |-> d[x].gen + 1] ELSE d[x]]

Forgotten(entry) == [known |-> FALSE, gen |-> entry.gen + 1]

\* RemoveChannel, of each: the known child threads, and the channel whether known or not.
ChannelsRemoved(d, cs) ==
  [x \in Things |-> IF x \in cs \/ (x \in UNION {ThreadsOf(c) : c \in cs} /\ d[x].known)
                    THEN Forgotten(d[x]) ELSE d[x]]

\* RemoveGuild: its known channels, and the guild whether known or not.
GuildRemoved(d, g) ==
  [x \in Things |-> IF x = g \/ (x \in ChannelsOf(g) /\ d[x].known) THEN Forgotten(d[x]) ELSE d[x]]

-----------------------------------------------------------------------------
(* Gates                                                                   *)

Invalidated(g, times) == [loaded |-> FALSE, pending |-> FALSE, version |-> g.version + times]

\* invalidateChannelLoads for each of the channels, and `more' calls of
\* guildsGate.invalidate besides the one in each of them; the threads `cut' are
\* removed without.
InvalidateChannels(cs, more, cut) ==
  /\ hist' = [c \in DirChannels |-> IF c \in cs THEN Invalidated(hist[c], 1) ELSE hist[c]]
  /\ gate' = IF Cardinality(cs) + more = 0 THEN gate
             ELSE Invalidated(gate, Cardinality(cs) + more)
  /\ severed' = (severed \ cs) \cup cut

KeepGates == UNCHANGED <<hist, gate, severed>>

-----------------------------------------------------------------------------
(* The server and the socket                                               *)

Spend(what, most) == used[what] < most /\ used' = [used EXCEPT ![what] = @ + 1]

Emit(e) == Len(wire) < MaxWire /\ wire' = Append(wire, e)

Client == <<dir, hist, gate, loads, pulls, told, severed, bare>>

\* A channel is created, or becomes visible again under the same snowflake.
ServerAdds(c) ==
  /\ c \notin live /\ GuildOf[c] \in live \cup {DM}
  /\ IsThread(c) => ParentOf[c] \in live
  /\ Spend("changes", MaxChanges)
  /\ live' = live \cup {c}
  /\ Emit([type |-> "upsert", chan |-> c]) /\ removed' = removed \ {c}
  /\ UNCHANGED Client

ServerRemoves(c) ==
  /\ c \in live /\ Spend("changes", MaxChanges)
  /\ live' = live \ ({c} \cup ThreadsOf(c))
  /\ Emit([type |-> IF IsThread(c) THEN "threadDelete" ELSE "channelDelete", chan |-> c])
  /\ UNCHANGED <<Client, removed>>

\* GUILD_CREATE shows the guild's channels and active threads.
Snapshot(g, things) == [type |-> "guildCreate", guild |-> g, chans |-> ChannelsOf(g) \cap things]

GuildJoined(g) ==
  /\ g \notin live /\ Spend("changes", MaxChanges)
  /\ \E cs \in SUBSET {c \in ChannelsOf(g) : ~ IsThread(c)} :
       /\ live' = live \cup {g} \cup cs
       /\ Emit(Snapshot(g, cs)) /\ removed' = removed \ ({g} \cup cs)
  /\ UNCHANGED Client

GuildLeft(g) ==
  /\ g \in live /\ Spend("changes", MaxChanges)
  /\ live' = live \ ({g} \cup ChannelsOf(g))
  /\ Emit([type |-> "guildDelete", guild |-> g])
  /\ UNCHANGED <<Client, removed>>

\* The connection breaks: what is under way is lost, and the new session starts
\* with READY (any part of the directory) and a snapshot of every guild, in any order.
Reconnect ==
  LET own == Guilds \cap live IN
  /\ Spend("reconnects", MaxReconnects)
  /\ \E part \in SUBSET live, order \in Bijection(1 .. Cardinality(own), own) :
       wire' = <<[type |-> "ready", things |-> part]>> \o [k \in 1 .. Cardinality(own) |-> Snapshot(order[k], live)]
  /\ UNCHANGED <<Client, live, removed>>

-----------------------------------------------------------------------------
(* Gateway handlers                                                        *)

Ingest(things) == dir' = Upserted(dir, things) /\ removed' = removed \ things

\* What is removed counts unless the server has it again.
Forget(things) == removed' = removed \cup (things \ live)

\* A direct message brings its pseudo-guild along.
WithGuild(c) == IF GuildOf[c] = DM THEN {c, DM} ELSE {c}

HandleUpsert(c) == Ingest(WithGuild(c)) /\ KeepGates

\* handleChannelDelete invalidates the known threads and the channel.
InvalidateFamily(c) == InvalidateChannels({c} \cup {t \in ThreadsOf(c) : Known(t)}, 0, {})

HandleChannelDelete(c) ==
  /\ InvalidateFamily(c)
  /\ dir' = ChannelsRemoved(dir, {c}) /\ Forget({c} \cup ThreadsOf(c))

HandleThreadDelete(c) ==
  /\ InvalidateChannels({c}, 0, {})
  /\ dir' = ChannelsRemoved(dir, {c}) /\ Forget({c})

HandleGuildDelete(g) ==
  /\ InvalidateChannels({c \in ChannelsOf(g) : Known(c)}, 1, {})
  /\ dir' = GuildRemoved(dir, g) /\ Forget({g} \cup ChannelsOf(g))
  /\ bare' = bare \ {g}

HandleReady(things) ==
  /\ Ingest(things \cup {GuildOf[c] : c \in things \cap DirChannels})
  /\ KeepGates

\* reconcileGuildFromSnapshot: known channels the snapshot lacks.  Threads are
\* left to THREAD_LIST_SYNC, and a snapshot without channels prunes nothing.
Pruned(d, e) ==
  {c \in ChannelsOf(e.guild) : /\ d[c].known /\ ~ IsThread(c) /\ c \notin e.chans
                               /\ e.chans # {}}

\* RemoveChannel cascades to the threads; only the channel's own gate is
\* invalidated.
HandleGuildCreate(e) ==
  LET ingested == Upserted(dir, e.chans \cup {e.guild})
      pruned   == Pruned(ingested, e)
      threads  == UNION {ThreadsOf(c) : c \in pruned}
  IN  /\ InvalidateChannels(pruned, 0, {t \in threads : ingested[t].known})
      /\ dir' = ChannelsRemoved(ingested, pruned)
      /\ removed' = (removed \ (e.chans \cup {e.guild})) \cup ((pruned \cup threads) \ live)
      /\ bare' = IF e.chans = {} THEN bare \cup {e.guild} ELSE bare \ {e.guild}

HandleEvent ==
  /\ wire # <<>> /\ wire' = Tail(wire)
  /\ LET e == Head(wire) IN
       \/ e.type = "upsert"        /\ HandleUpsert(e.chan) /\ UNCHANGED bare
       \/ e.type = "channelDelete" /\ HandleChannelDelete(e.chan) /\ UNCHANGED bare
       \/ e.type = "threadDelete"  /\ HandleThreadDelete(e.chan) /\ UNCHANGED bare
       \/ e.type = "guildDelete"   /\ HandleGuildDelete(e.guild)
       \/ e.type = "guildCreate"   /\ HandleGuildCreate(e)
       \/ e.type = "ready"         /\ HandleReady(e.things) /\ UNCHANGED bare
  /\ UNCHANGED <<loads, pulls, told, live, used>>

-----------------------------------------------------------------------------
(* Pulling the directory                                                   *)

\* directoryRequestSnapshot, under the version the gate gave.
NewPull(attempt) ==
  [phase |-> "asked", ver |-> gate.version, seen |-> [x \in Things |-> dir[x].gen],
   attempt |-> attempt, guilds |-> {}, dms |-> {}, failed |-> FALSE]

\* singleLoadGate.beginVersion
MayPull == ~ gate.loaded /\ ~ gate.pending

LoadGuilds(p) ==
  /\ pulls[p] = Idle /\ MayPull /\ Spend("pulls", MaxPulls)
  /\ gate' = [gate EXCEPT !.pending = TRUE]
  /\ pulls' = [pulls EXCEPT ![p] = NewPull(0)]
  /\ UNCHANGED <<dir, hist, loads, told, live, wire, removed, severed, bare>>

\* The two REST calls follow one another, and each may fail.
GuildsAnswer(p, ok) ==
  /\ pulls[p].phase = "asked"
  /\ pulls' = [pulls EXCEPT ![p].phase = "half", ![p].failed = ~ ok,
                            ![p].guilds = IF ok THEN live \cap Guilds ELSE {}]
  /\ UNCHANGED <<dir, hist, gate, loads, told, live, wire, used, removed, severed, bare>>

PrivateChannelsAnswer(p, ok) ==
  /\ pulls[p].phase = "half"
  /\ pulls' = [pulls EXCEPT ![p].phase = "answered", ![p].failed = @ \/ ~ ok,
                            ![p].dms = IF ok THEN live \cap ChannelsOf(DM) ELSE {}]
  /\ UNCHANGED <<dir, hist, gate, loads, told, live, wire, used, removed, severed, bare>>

\* Mutant: the answer is installed as it came.
TakenAsItCame(pull) == pull.ver = pull.ver

\* directorySnapshotCurrent
SnapshotCurrent(pull) == pull.ver = gate.version /\ \A x \in Things : pull.seen[x] = dir[x].gen

\* Mutant: a failure does not give the gate back.
FinishSuccess(ok) == gate' = [gate EXCEPT !.pending = ~ ok, !.loaded = @ \/ ok]

\* finishGuildLoad, finishGuildLoadVersion
Finish(ok) == gate' = [gate EXCEPT !.pending = FALSE, !.loaded = @ \/ ok]

\* A failed endpoint leaves the gate unloaded, but what the other one returned
\* is kept.
InstallDirectory(p) ==
  LET pull == pulls[p] IN
  /\ dir' = Upserted(dir, pull.guilds \cup UNION {WithGuild(c) : c \in pull.dms})
  /\ Finish(~ pull.failed)
  /\ pulls' = [pulls EXCEPT ![p] = Idle]
  /\ told' = TRUE

StillToTry(attempt) == attempt < MaxRetries

\* scheduleGuildLoadRetry, after finishGuildLoadVersion gave the gate back.
Retry(p) ==
  IF StillToTry(pulls[p].attempt)
  THEN /\ gate' = [gate EXCEPT !.pending = TRUE]
       /\ pulls' = [pulls EXCEPT ![p] = NewPull(pulls[p].attempt + 1)]
       /\ UNCHANGED told
  ELSE /\ Finish(FALSE) /\ told' = TRUE
       /\ pulls' = [pulls EXCEPT ![p] = Idle]

\* The closure loadGuildsFrom posts.
CompletePull(p) ==
  /\ pulls[p].phase = "answered"
  /\ \/ SnapshotCurrent(pulls[p]) /\ InstallDirectory(p)
     \/ /\ ~ SnapshotCurrent(pulls[p]) /\ pulls[p].ver # gate.version
        /\ pulls' = [pulls EXCEPT ![p] = Idle]
        /\ UNCHANGED <<dir, gate, told>>
     \/ /\ ~ SnapshotCurrent(pulls[p]) /\ pulls[p].ver = gate.version
        /\ Retry(p)
        /\ UNCHANGED dir
  /\ UNCHANGED <<hist, loads, live, wire, used, removed, severed, bare>>

-----------------------------------------------------------------------------
(* Loading a channel's history: the gate's side of it (see Timeline)       *)

LoadHistory(c) ==
  /\ Known(c) /\ ~ hist[c].loaded /\ ~ hist[c].pending
  /\ Spend("history", MaxHistory)
  /\ hist' = [hist EXCEPT ![c].pending = TRUE]
  /\ loads' = loads \cup {[chan |-> c, gen |-> dir[c].gen, ver |-> hist[c].version]}
  /\ UNCHANGED <<dir, gate, pulls, told, live, wire, removed, severed, bare>>

Acceptable(l) == l.gen = dir[l.chan].gen /\ l.ver = hist[l.chan].version

CompleteHistory(l, ok) ==
  /\ loads' = loads \ {l}
  /\ hist' = IF Acceptable(l)
             THEN [hist EXCEPT ![l.chan].pending = FALSE, ![l.chan].loaded = @ \/ ok]
             ELSE hist
  /\ UNCHANGED <<dir, gate, pulls, told, live, wire, used, removed, severed, bare>>

-----------------------------------------------------------------------------
(* The specification                                                       *)

\* The client starts knowing nothing.
DirInit ==
  /\ dir = [x \in Things |-> [known |-> FALSE, gen |-> 0]]
  /\ hist = [c \in DirChannels |-> NewGate] /\ gate = NewGate
  /\ loads = {} /\ pulls = [p \in Pulls |-> Idle] /\ told = FALSE
  /\ live = Guilds \cup DirChannels
  /\ wire = <<[type |-> "ready", things |-> Guilds \cup DirChannels]>>
  /\ used = [changes |-> 0, reconnects |-> 0, pulls |-> 0, history |-> 0]
  /\ removed = {} /\ severed = {} /\ bare = {}

PullStep(p) ==
  \/ \E ok \in BOOLEAN : GuildsAnswer(p, ok) \/ PrivateChannelsAnswer(p, ok)
  \/ CompletePull(p)

DirNext ==
  \/ \E c \in DirChannels : ServerAdds(c) \/ ServerRemoves(c) \/ LoadHistory(c)
  \/ \E g \in Guilds : GuildJoined(g) \/ GuildLeft(g)
  \/ Reconnect \/ HandleEvent
  \/ \E p \in Pulls : LoadGuilds(p) \/ PullStep(p)
  \/ \E l \in loads : \E ok \in BOOLEAN : CompleteHistory(l, ok)

\* REST calls end, retry timers fire and closures run.
DirFairness == WF_dirVars(HandleEvent) /\ \A p \in Pulls : WF_dirVars(PullStep(p))

DirSpec == DirInit /\ [][DirNext]_dirVars /\ DirFairness

-----------------------------------------------------------------------------
(* Properties                                                              *)

InFlight(p) == pulls[p].phase # "idle"

Pull ==
  [phase: {"asked", "half", "answered"}, ver: Nat, seen: [Things -> Nat], attempt: 0 .. MaxRetries,
   guilds: SUBSET Guilds, dms: SUBSET ChannelsOf(DM), failed: BOOLEAN]

Event ==
  [type: {"upsert", "channelDelete"}, chan: DirChannels]
    \cup [type: {"threadDelete"}, chan: {c \in DirChannels : IsThread(c)}]
    \cup [type: {"guildDelete"}, guild: Guilds]
    \cup [type: {"guildCreate"}, guild: Guilds, chans: SUBSET DirChannels]
    \cup [type: {"ready"}, things: SUBSET (Guilds \cup DirChannels)]

DirTypes ==
  /\ dir \in [Things -> [known: BOOLEAN, gen: Nat]]
  /\ hist \in [DirChannels -> [loaded: BOOLEAN, pending: BOOLEAN, version: Nat]]
  /\ gate \in [loaded: BOOLEAN, pending: BOOLEAN, version: Nat]
  /\ loads \subseteq [chan: DirChannels, gen: Nat, ver: Nat]
  /\ pulls \in [Pulls -> {Idle} \cup Pull] /\ wire \in Seq(Event)
  /\ live \subseteq Guilds \cup DirChannels /\ removed \subseteq Guilds \cup DirChannels

\* A pull whose answer was read before a guild or channel was removed does not
\* bring it back, whether the removal found it known or not: what the client has
\* removed stays away until the server has it again, connections lost between
\* included (directorySnapshotCurrent, app_directory.go:167-193).
NoStaleDirectory ==
  [][pulls' # pulls => \A x \in removed : dir'[x].known => dir[x].known]_dirVars

\* The directory's gate is pending exactly while one pull, or its retry, is
\* under way that will give it back.
PullOwnsGate ==
  Cardinality({p \in Pulls : InFlight(p) /\ pulls[p].ver = gate.version}) = (IF gate.pending THEN 1 ELSE 0)

\* What a pull in flight has seen is in the past.
PullsPast ==
  \A p \in Pulls : InFlight(p) =>
    pulls[p].ver <= gate.version /\ \A x \in Things : pulls[p].seen[x] <= dir[x].gen

\* What a pull was told of, and the client has removed since, has another generation.
RemovalsSeen ==
  /\ removed \cap live = {}
  /\ \A p \in Pulls : InFlight(p) =>
       \A x \in (pulls[p].guilds \cup pulls[p].dms) \cap removed : pulls[p].seen[x] < dir[x].gen

\* Once all events are handled, a guild that still exists shows no channel the
\* server has removed, although the removals may have been lost with a
\* connection (reconcileGuildFromSnapshot, app_gateway_state.go:396-427).  A
\* guild whose latest snapshot was without channels is not pruned, by intention.
SettledChannels ==
  wire = <<>> =>
    \A c \in DirChannels :
      Known(c) /\ ~ IsThread(c) /\ GuildOf[c] \in live \ bare => c \in live

\* However often the directory changes under it, a pull ends.
PullEnds == gate.pending ~> ~ gate.pending

\* A history gate is pending only while a load runs whose completion it will
\* accept: whatever removes a channel or thread has to invalidate its gate. Only a
\* thread that a snapshot removed with its channel keeps a gate nobody opens.
HistoryOwned ==
  \A c \in DirChannels : hist[c].pending => c \in severed \/ \E l \in loads : l.chan = c /\ Acceptable(l)

PendingKnown == \A c \in DirChannels : hist[c].pending => c \in severed \/ Known(c)

\* The inductive invariant.
DirInv == DirTypes /\ PullOwnsGate /\ PullsPast /\ RemovalsSeen /\ HistoryOwned /\ PendingKnown

\* The pull of the directory that is under way owns its gate, and every pending history gate
\* has a load that may open it, whatever removals come between; and a snapshot asked for
\* earlier brings back nothing the gateway has removed since (app/app_directory.go,
\* app/app_gateway_state.go, store/channels.go).
GatesKept == []PullOwnsGate /\ []HistoryOwned /\ NoStaleDirectory

=============================================================================
