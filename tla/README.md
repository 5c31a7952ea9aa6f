# A verification development for tuicord

tuicord is a terminal Discord client. What is hard about it is not the drawing:
the ordered events of the gateway, the replies of REST calls and the user's own
optimistic actions all change one cache, each of them late, and any of them may
be lost, repeated or overtaken by a deletion; and the user works on a screen that
is always a little older than what it shows. This directory models that in TLA+,
checks it with TLC and proves its central mechanisms with TLAPS.

Paths below are relative to `src/internal/` unless they start with `src/`.

## 1. The system

Three kinds of goroutines matter. The **gateway goroutine** handles socket events
in order (`AddSyncHandler`) and turns each into a closure. **REST goroutines** send
a message, load a page or pull the directory, and post a closure when they are back;
media workers, the notifier, the login and the video player work the same way.
The **UI goroutine** (`tui/tui/app.go`) runs all posted closures first in, first out,
then renders, then takes one event; nearly all state is its own. Races are
therefore seldom data races: they are about what a reply, a frame, a drag or a
focus request *remembers* of the state it began in. The exceptions are the
read state, which the socket goroutine writes too, and the plugin worker.

| Part | State | Operations | What makes it correct |
| --- | --- | --- | --- |
| message store (`store/`) | per channel: ring of messages, tombstones of deletes, watermark of evicted ones, revision, generation | append, replace, prepend, set, update, remove, mark failed | nothing deleted comes back, nothing newer is lost, nothing is doubled, contents never change under one revision |
| history, sends, deletes (`app/app_history.go`, `app_actions.go`) | a request's snapshot of revision, generation and gate version; echoes | initial and older page, send, confirm, fail, delete | pages respect what happened while they travelled; an echo is resolved once |
| load gates (`app/resource_gate.go`) | loaded, pending, exhausted, version | begin, finish, mark loaded, invalidate | one current load per resource; never pending for good |
| directory (`app/app_directory.go`, `app_gateway_state.go`) | guilds, channels, threads, their generations | READY, GUILD_CREATE/DELETE, channel and thread events, the REST pull with retries | no stale answer revives anything; what was deleted while offline goes |
| forums (`app/threads.go`, `ui/forumview.go`) | active and archived threads, the forum's metadata, the list shown | thread events, archived pages, metadata | the list is that of the store; stale pages bring nothing back |
| read state (`app/app.go`, `store/store.go`) | markers, unread and ping counts, badges; four copies | acknowledge, receive, replace on READY | markers are monotone; all copies agree in the end |
| event loop (`tui/tui/app.go`) | closures, raw terminal commands, wake signal | post, run, drain, stop | accepted closures run, in order; no wake-up is lost |
| toolkit (`tui/`) | focus ring and history, drags, layout, splits, the last frame, the parser's buffer | traverse, drag, solve, diff, parse | the terminal shows the frame; who has the focus was told; panes fill the split; no byte is lost |
| shell and main view (`ui/shell.go`, `ui/main.go`) | input mode, overlays, focus requests, reply and edit modes, staged files | keys, closures, overlays, account switches | the mode shown takes the keys; a reply has its message; no temporary file leaks |
| transcript and its media (`ui/chatview*.go`, `media/`) | scroll, anchors, stops; media states, queue, two caches | draw, page, load, sweep | the reader keeps his place; a body shows its media's state |
| components of bots' messages (`ui/componentview.go`, `ui/chatview_components.go`) | expanded pickers, choices, numbers, what was activated, interactions in flight | draw, click, number, choose, submit, edit | what is submitted is what was drawn; a spinner has an interaction |
| rail, composer, menus, cards, toasts, pickers (`ui/`, `tui/widget/`) | order and groups, text and token, items, requests | drag, complete, choose, fetch | the user acts on what he sees |
| video overlay (`media/video_linux.go`, `ui/shell.go`) | session, mpv process, reader and reaper, overlay | play, emit, reap, stop, close | a closed video leaves neither an image, nor a process, nor a stuck overlay |
| plugin host (`plugin/`) | worker, bounded queue, Lua states, registries, timers, viewports | submit, do, load, roll back, close | nothing calls into a closed state; what a failed startup registered is gone |
| login (`ui/login.go`, `qr*.go`, `captcha/`) | panel, remote authentication, browser session | prompt, answer, cancel, close | a cancelled login ends and leaves nothing running |
| launch and files (`atomicfile/`, `config/`, `uistate/`, `accounts/`, `src/cmd/tuicord`) | files, lock, saved session, active account | load, migrate, lock, save, switch | a crash leaves old or new contents; one process per session |
| media caches (`media/cache.go`) | decoded LRU, files of all programs | get, put, evict | budgets are kept; what is served is what was put last |
| markup, text widths, embeds, switchers, settings, secrets, REST wrappers, telemetry | text, single requests | parse, draw, call | sequential transformations and I/O |

`PROJECT.json` lists every component with its status and every hazard at its line.

## 2. The modules

| Module | Models | Code |
| --- | --- | --- |
| `MessageStore` | one channel's part of the store as pure operators | `store/store.go`, `mutation.go`, `ring.go`, `channels.go` |
| `MessageRing` | the ring's slots, start and size | `store/ring.go` |
| `Timeline` | one channel: server, socket, gateway handlers, sends, REST deletes, history pages, lifetimes | `app/app_history.go`, `app_actions.go`, `app_gateway_state.go` |
| `LoadGate` | a gate and its loaders, for any resource | `app/resource_gate.go` |
| `Tombstones` | what the store promises about deletes, data left open | `store/store.go`, `mutation.go` |
| `TimelineRefinement` | `Timeline` implements `LoadGate` and `Tombstones`; its symmetry for TLC | |
| `Directory` | guilds, channels, threads, DMs; reconnects, the REST pull, history gates | `app/app_directory.go`, `app_gateway_state.go`, `store/channels.go` |
| `Forum` | the threads of one forum, archived pages, metadata, the list | `app/threads.go`, `app_gateway_state.go`, `ui/forumview.go` |
| `ReadState` | read markers and unread counts on two goroutines, the rail's badge | `app/app.go`, `app_gateway_state.go`, `store/store.go`, `accounts/manager.go` |
| `Launch` | one or two launches: migration, lock, saved state, atomic writes, crashes, the active account | `config/`, `uistate/`, `atomicfile/`, `accounts/`, `src/cmd/tuicord` |
| `DecodedCache`, `DiskCache` | the two media caches | `media/cache.go` |
| `PostQueue` | what `Post` promises | `tui/tui/app.go` |
| `EventLoop` | the UI goroutine, its queues, wake channel, repaint, shutdown | `tui/tui/app.go` |
| `VideoOverlay` | the loop at work: mpv's reader and reaper and the overlay | `media/video_linux.go`, `ui/shell.go` |
| `Screen` | buffers, their difference, Kitty images | `tui/screen/`, `tui/widget/image.go` |
| `InputReader` | bytes to events: parser, Escape timeout, two goroutines | `tui/input/` |
| `Focus`, `Pointer` | focus ring and history; pointer capture and a plugin's panel | `tui/tui/focus.go`, `app.go`, `drag.go`; `ui/plugin_viewport.go` |
| `Split` | the flexbox solver on one axis; two panes with a divider | `tui/layout/`, `tui/widget/split.go` |
| `Shell` | modes, overlays, focus requests, account switches, staged files | `ui/shell.go`, `ui/main.go`, `tui/tui/focus.go` |
| `GuildRail` | groups, order and drags of the guild rail | `ui/guild_groups.go`, `store/ordering.go`, `tui/widget/itemlist.go` |
| `Composer` | wrapped text, cursor, scroll; the completion menu | `tui/widget/textinput.go`, `ui/shell.go`, `ui/inline_picker.go` |
| `Popups` | menus and profile cards | `tui/widget/menu.go`, `ui/profile_popup.go` |
| `Notices` | toasts and the notifier | `ui/shell.go`, `ui/toast.go` |
| `Picker` | rows, thumbnails, searches | `ui/picker.go`, `ui/query_list.go` |
| `Transcript` | scroll, anchors, focus stops, folds | `ui/chatview*.go`, `ui/chat_anchor.go`, `tui/widget/bottom_scroll.go` |
| `Components` | buttons and selects of bots' messages: rows, numbers, pickers, submissions under edits and deletions | `ui/componentview.go`, `ui/chatview_components.go`, `app/app_actions.go`, `app/convert.go` |
| `MediaBodies` | media queue and states under the body and the transcript cache | `ui/chatview_media.go`, `ui/chatview_transcript.go`, `media/fetch.go` |
| `PluginRuntime` | the plugin host | `plugin/` |
| `Login`, `BiDi` | the login screen and remote authentication; the CAPTCHA's browser | `ui/login.go`, `ui/qr.go`, `ui/qr_remoteauth.go`; `captcha/bidi.go` |
| `HistoryProofs`, `KeptProofs`, `TimelineProofs`, `EventLoopProofs`, `VideoOverlayProofs`, `ShellProofs`, `PluginProofs`, `LoginProofs` | the theorems, see section 4 | |
| `MC*` | instances for TLC | |

**How state and actions correspond.** A variable is a field, a map or a channel of
the Go code, an action a handler, a posted closure, or a stretch of a goroutine
between two points where another one can come in; operators and actions carry the
names of the Go functions where TLA+ allows it, and `PROJECT.json` maps each to its
lines. Posting a closure and running it is one step where nothing reads the queue
in between (`Timeline`, `Directory`, `ReadState`'s UI half): posting changes
nothing another step reads, and an event may stay in `wire`, or a reply in its
call, for as long as a closure may wait. `EventLoop` justifies it: it is proved to
run what it accepts, in order. Variables marked *history* only record what a
property compares with.

**MessageStore, Timeline.** A message is `[id, nonce, body, st, rev]`: ID 0 is an
echo, `body` counts edits, `st` is `ok`, `pending` or `failed`. The ring is the
sequence its slots stand for; `MessageRing` keeps the slots and checks that both
agree. Filters and repeated deletes are recursive functions of the module (`Chosen`,
`RemovalStates`): a proof can unfold them, which it cannot with `SelectSeq` and the folds. `RemovedAt` is what `ring.removeByID` really does in a full ring (section
3, *Counterexamples*). `server`, `open` and `wire` are the environment;
`life` counts the channel's lifetimes and the steps that begin one.

**LoadGate, Tombstones** are mechanisms without data: `Tombstones` leaves open which
tombstone is evicted, what a page holds and what else changes, so its theorem
covers every such choice. `TimelineRefinement` maps the concrete timeline to both, and
`TimelineProofs` shows that every step of it is one of theirs.

**EventLoop.** `pc` is where `App.run` is. `TryPost` and `WriteRaw` unlock before
they signal, so another goroutine is in `signalling` between the two. A turn
writes one raw command and signals for the rest. What closures and handlers do is
left open; `VideoOverlay` extends the module and says what its own do.

**Shell, Focus, Pointer, Transcript, Popups** follow the loop's rhythm: posted
closures, a frame, one event. What an event reads is the last frame's; that is
where their hazards are.

**PluginRuntime.** One worker executes all Lua; main loads through `do` and waits;
`exec` are the states the worker is inside of, and a startup that fails is
rolled back while its ticks and presses are still queued.

**Launch.** `files` is what a reader sees, `synced` what the directory held when it
was last synced; a crash of the machine chooses between them for each file.

## 3. The runs

| Run | Shows | Bounds |
| --- | --- | --- |
| `timeline_pages` | History pages in flight while messages are created, edited and deleted singly or in bulk: no rollback (`NoRollback`), paging makes progress and keeps the newest message (`PagingKeepsBothEnds`) | window 2, 3 messages, 2 requests, 2 events under way |
| `timeline_lifetime` | The channel is deleted and comes back under its ID while pages and REST deletes are in flight: the settled timeline shows no deleted message, and every step refines `LoadGate` and `Tombstones` | 3 lifetime changes, 2 messages, 2 requests, a refused or repeated event |
| `timeline_send` | One send against its event, its reply and a page in every order: nothing newer is lost, shown twice or left pending (`SendKept`); the transcript's cache key follows its contents (`MsgRevTracksContents`); echo and gate resolve (liveness) | 1 nonce, 2 messages, 1 fault of 5 kinds, 2 lifetime changes |
| `kept` | What the program keeps: `Tombstones` (the proof's invariant, `NoStaleResurrection`), `Directory` (`GatesKept`), `LoadGate`, `MessageRing` against the window and the media caches (`BoundsKept`), `Launch` (`FilesKept`), `ReadState` (`ReadFollows`) | 3 loaders; a guild with 2 channels and a thread, 2 pulls, 1 retry, 1 change, 1 reconnect, 1 history load; ring of 3; 2 launches, 2 crashes; 2 programs, 3 files or images; 2 channels |
| `video_overlay` | Every interleaving of mpv's goroutines, the user and the loop, exit included: wake-ups, order and completeness of closures, the refinement of `EventLoop` and with it of `PostQueue`, what a closed video leaves behind (`VideoSafe`), and that it closes (`VideoEnds`) | 2 sessions, 1 other closure, 1 more goroutine, raw queue of 2 |
| `shell` | `FocusHonest`: the status line's mode is the one that takes the keys, a waiting editor gets the focus. `ComposerHonest`: the status line tells of the reply or edit in progress, its message is in the channel on screen, every temporary file has an owner or is deleted | 2 accounts, a text channel and a forum, 1 staged file |
| `toolkit` | `Screen`, `Focus`, `Pointer`, `GuildRail`, `Composer`, `Popups`, `Notices`, `Split` | screen of 2 or 3 by 2 cells, 1 image; 3 widgets, 3 visits; panels of 5 by 2 or 3; 3 guilds, 2 edits; 4 clusters in a 2 by 2 box; 2 users; 2 pings, 1 slot; 4 splits as the program has them, widths 8 and 13 |
| `app` | Safety of what runs beside the UI goroutine, and of the chat: `PluginRuntime`, `BiDi`, `Login`, `InputReader`, `Picker`, `MediaBodies`, `Forum`, `Transcript`, `Components`, and `Directory` with a reconnect | a plugin and config.lua, queue of 1; 2 commands, 2 Closes; 2 threads, 3 changes, 2 requests; 3 messages; of a bot, 2 messages, one in 2 versions, 3 numbers, 2 interactions in flight |
| `progress` | Liveness of the same components and of `Notices`: what has to end ends | one of each, smaller |

**Why components share a run.** `kept`, `toolkit`, `app` and `progress` hold several
components, each an instance with variables of its own. (`MCKept` extends
`Tombstones`, `Launch`, `ReadState` and `Directory`, and `MCToolkit` extends `Pointer`, `Popups` and `Split`, so that the
theorems speak of the very properties the runs check. `Popups` extends `Notices`, because
`ActsOnDrawn` is about both; they share no variable.) `part` is chosen in the initial state
and only that component moves, so the states are those of the components side by
side, not their product. The properties of a run are conjunctions of the
components' properties, each under the component's `part`; the names of the parts
are in the comment above each, and the definitions in the component's module.

**Why the bounds are enough to be interesting.** A window of two messages is the
smallest with an oldest and a newest one, and three messages overflow it, as they
overflow the tombstones, which share the limit: eviction, the watermark and
trimming all happen. Two requests are the smallest number where one completes for the
other's gate. Three lifetime changes let a request outlive a deletion *and* the
recreation. `PageLimit` is two so that a page may be full or short. A raw queue of
two (8 in the code) is full after a frame and its delete. A retry budget of one or two
(`maxDirectoryLoadRetries` is 3) is exhausted by the changes allowed. Queues,
caches and pools have the size at which one more entry overflows them. Every property has a
mutant in `PROJECT.json`, a plausible bug in a mapped definition, under which its run
finds it violated.

**What bounds hide.** With a window of two the faulty shift of `removeByID` has no effect
(it needs an entry at index 2 or later), so the passing runs of `Timeline` say
nothing about it; the ring in `kept` has three slots. Messages of the backlog are not
edited more than `MaxBody` times. `timeline_pages` has no sends and `timeline_send`
no edits. The solver of `Split` is used with two children only.

`CHECK_DEADLOCK FALSE`: the bounded environment stops when its budget is spent, and
a client to which nothing happens rests. Symmetry is used where only safety is checked.

**Fairness.** Weak fairness on handling the next event, on each REST call's progress
and on each closure. The event loop runs closures whenever it wakes and the socket
goroutine never blocks on `Post`; retry timers fire; workers of pools and the plugin worker
run; a media request ends (`media/fetch.go:186` gives it a timeout); a Lua call returns (it runs
under a deadline, `withDeadline`). That a REST call ends is an assumption on the server and the
network, not a fact of the code: the client sets no timeout (`discord/client.go:124-127`,
`discord/transport.go:29`). `EchoResolves` and `LoadCompletes` of `timeline_send` and the loads of
the directory and the forum in `progress` rest on it. Nothing is assumed of the
server's changes, of the user, of faults, of mpv or of the browser. `video_overlay` assumes that
the UI goroutine goes on while it has something to do (it blocks only in `select` and in
`Stop`), that a goroutine that has unlocked signals, and that the terminal of a dead
mpv fails to read. `Login` needs strong fairness in one place: its poll alternates
between asking for a picture and the answer, and a cancelled context ends it however often it
was disabled meanwhile. Nothing is assumed of the exchange of the remote ticket, which takes no
context (`ui/qr_remoteauth.go:307`): that a cancelled login leaves nothing running
(`LoginUnwinds`) is claimed of the behaviours in which that call does not hang for ever.

### Counterexamples

| Run | What the repository says | What the code does |
| --- | --- | --- |
| `ring_removal` | `RemoveMessage deletes message id` (`store/mutation.go:18-19`) | `removeByID` shifts `size - 1` slots whatever the position (`ring.go:108`). In a full ring the shift wraps: deleting the entry at index 2 or later loses the oldest message and doubles the one before the deleted |
| `confirm_asked` | choosing *Delete* asks for a confirmation | the menu is dismissed *after* the item's action has opened the confirmation (`tui/widget/menu.go:439`), and the dismissal closes the overlay that is on top: the confirmation |
| `stream_ends` | the reader ends with its stream | a stream that ends inside a bracketed paste keeps the parser asking for more (`tui/input/parser.go:99`) |

### Known limits of the code, met while modelling

Each was met as a counterexample or a case a property had to exclude; none is a run of its own.

*Timeline.*
- An edit of a message that is not cached leaves no trace (`app_gateway_state.go:570`); a
  page read before it is installed after it and keeps the old body, which
  `app_history.go:42-44` says revisions exclude.
- Two sends, window 2: an older page can bring the confirmed copy of the second; it then
  precedes its echo, `ReplaceMessage` finds the copy first (`ring.go:69-77`) and the echo
  stays pending. That pages repeat nonces is an assumption of `timeline_send`: if they do
  not, the confirmation makes a second copy (`app_actions.go:229`).
- A reply lost after the gateway confirmed the message marks it as failed: `MarkFailed`
  looks for the nonce only (`ring.go:58`).
- An initial page without messages over a cached message and a newer echo: the echo keeps its revision, which
  is `MsgRev` before and after (`store.go:761`), so the transcript goes on showing the dropped message
  (`chatview_transcript.go:132`), against `store/rev_test.go:151-157`. The delete event that follows finds nothing to
  remove and does not move `MsgRev` either. It is the one case `MsgRevTracksContents` excludes (`OnlyEchoesLeft`).
- `mergeInitialHistory` puts live messages the page lacks behind it whatever their IDs
  (`app_history.go:107`). Paging up with an echo as the oldest entry marks the channel
  exhausted (`app_history.go:160`). A REST confirmation handled after the create and
  delete of its message appends it again.

*Directory, forums, read state.*
- A pull rejected by a deletion is "retried so the directory is not silently dropped"
  (`app_directory.go:92-96`), but every deletion invalidates the guilds' gate without starting a
  request, and `finishGuildLoadVersion` then says false (line 98): no retry, no callback.
- READY does not prune direct messages. Pruning a channel from a snapshot removes its
  threads and invalidates the channel's gate only (`app_gateway_state.go:425`): `severed` in `Directory`.
- THREAD_LIST_SYNC drops threads archived while disconnected, and loaded archive pages never bring
  them back; a stale archived page or metadata answer overwrites a newer event.
- READY and then hydration leave a guild read while a channel is unread (against
  `app.go:759`); a settings update drops badges of a bulk CHANNEL_UNREAD_UPDATE; guild pings drift on a
  ping for an unknown channel (`store.go:456-477`).

*Files, plugins, login, media.*
- The legacy registry is not seeded if the migrating launch dies or loses the lock
  (`LoadStartup` before `acquireInstanceLock`, `main.go:55-62`). A failed account does not reconnect.
- Plugin host accessors read `Manager.active` on the worker goroutine.
- An error after `setCaptchaSession` is hidden behind the CAPTCHA image though
  `qr_remoteauth.go:51` says it is surfaced; a QR token posted during shutdown overwrites a
  pasted one; every CAPTCHA key starts its own goroutine (`qr.go:132`) although `bidi.go:374` keeps commands ordered.
  A login cancelled during the exchange of its ticket leaves its goroutine behind until Discord answers.
- A swept media state can be followed by one with the same revision, so the body cache shows
  the old one. A cached file another program removed is not counted as freed, and pruning
  removes more than it must. A stopped playback never runs `onExit` (`media/video_linux.go:92-96`).

*Screen, input, focus.*
- A resize that is coalesced with one back skips the repaint (`diff.go:147`); a picker and the
  chat share image IDs (`picker.go:334`), closing one frees the other's.
- Alt with a multi-byte rune cut in two is lost; the Escape timer may cut a slow paste's opening.
- Alt+[ and Alt+O are held back until a final byte comes, which may be never, and with them what is typed
  after them, an Escape included: the timer is armed for a buffer of one byte only (`reader.go:179-181`), and the
  parser asks for more (`parser.go:164-193`). `NothingHeld` excludes begun control sequences and open pastes.
- Pruning leaves adjacent duplicate visits, so Alt+Left may stay where it is. A plugin that reopens
  its panel during a drag loses the drag (`shell.go:167-180`).
- The divider of a squeezed split is drawn and grabbed beside the gap (`split.go:477`).
- `clampInt` with a bound of 0 clamps nothing (`draw.go:109`): a modal as wide as the screen can be moved off it
  (`modal.go:111`), and a list of one row does not clamp its selection (`itemlist.go:85,107`), so that a picker which
  narrows to one match while a lower row was selected highlights nothing, and Enter picks nothing (`query_list.go:49-61`).

*Shell and views.*
- The switchers leave `forumActive` set when they are used in a forum; replying with staged
  files drops them; a clipboard image in flight over an account switch is staged for the new account.
- The closure that closes an ended video's overlay (`shell.go:602`) does not check whose
  overlay is shown, and files a composer request nobody takes until the next event.
- The transcript keeps its offset across channels; a visual selection's start is not remapped
  (`chatview.go:653`). After the terminal shrinks, a menu whose selection is cut off ignores its arrows.
- *Rail:* a refresh while the highlight is on a folder moves it to the active guild (`main.go:717-733`), one
  in the middle of a drag to the guild under the ghost; leaving the active guild moves it to the direct messages wherever it
  was. Dropping the only guild of a group on its own header dissolves the group, and folders from
  USER_SETTINGS_UPDATE show at the next refresh only. Assumed: the account has direct messages, and their
  row is not pinned.
- A failed GIF search is not repeated for the same query. The composer draws no cursor after a full
  row (`textinput.go:333`), and one at the start of a row after a newline at the end of the *last* row (`textinput.go:378-379`);
  `CursorShown` excepts the two by name. A composer cleared under an open menu leaves the menu open.
- *Components:* Enter after an edit or a deletion submits the picker that was used last, as it was then; of
  two activations within a tick the first is lost; a message focused by `buildFocusIndex` shows no numbers until
  something invalidates its body; selects of users, roles and channels have no options, so pressing one submits no
  values; a single select unfolded again after a Shift may submit two.

## 4. The proofs

`HistoryProofs` proves the two mechanisms a channel's history rests on.

*Gates* (`LoadGate`; any set of loaders and any bound on versions): `GateInvariance`
(`LG!Safe => []LG!IInv`), `OneLoadAtATime` and `NeverStuck`. That a pending
gate has a current loader is not inductive alone: an invalidation moves the version on, and
a loader could become current if it held a version of the future. `TokenPast`
excludes that; the invariant is `TypeOK /\ TokenPast /\ OneCurrent /\ PendingOwned`.
One lemma per kind of step (take, finish, new version), joined in `NextGate`.

*Deletes* (`Tombstones`; any messages, requests, revisions and generations): `Invariance` and
`DeletedStaysDeleted`: no step of a history request brings back a
message the client has removed. The action property needs `Covered`: an answered page
of the current lifetime has, for every removed message it shows, a tombstone from after the
request or a watermark past it. `Covered` needs that no recorded revision lies in
the future (`InPast`) and that only what the server deleted is gone (then a page
read later cannot show it). Assumed of the code's environment: snowflakes are not
reused, and a page shows messages that exist when the server reads it.

`KeptProofs` proves three components of the run `kept` for every value of their constants.

*Files* (`Launch`; any processes and accounts, and any number of kills, machine crashes and
switches): `LaunchInvariance` and `DiskKept` (`LaunchSpec => FilesKept`). The five parts of
`FilesKept` are not inductive, and `LaunchIInv` puts what a process may rely on at each place
of its program into `OwnOK`: past the lock it is the owner, a write that was synced is whole,
what the process saved last is what its memory says or what its write will install, and the
list of accounts holds the active one at the active row. Processes disturb each other through
the lock and the disk only; `Frame` says so once, and `OthersKept` carries every other process's
part over a step. `DedupKept` is about the list itself: without its duplicates it still holds
every account (`RankBijective`: positions in a finite set number its elements). That the user's
`config.lua` survives is an action property (`ConfigKept`): the first-run file is installed only
where there is none.

*Unread* (`ReadState`; any channels, any number of messages, queues of any length): `ReadInvariance`
and `StatusFollows` (`ReadSpec => ReadFollows`). What is shown is the truth only when everything has been
handled, so the invariant says where the truth is before: the last news of a channel is true
wherever it is on its way, as an UpdateEvent, as a closure or in the marks (`NewsTrue`); so is a
status that will be cached last (`StatusTrue`), unless something behind it in the queue derives it anew; and
the badge is current or a closure that pushes it waits (`BadgePending`). `Avoids` and `Ends` say
this of a queue without counting, and two lemmas, `AppendKeeps` and `TailKeeps`, are all the
proof needs of sequences. `NotAhead`, that nothing known of a channel is ahead of Discord, is why an
acknowledgement, the largest of four positions, is exactly the last message
(`AcknowledgedLast`), and why a read position never goes back (`ReadOn`). Each step on the
socket goroutine tells of one channel (`Told`) or of none (`Untold`); each closure is an
instance of `RanKept`. The proof found a `CASE` with guards that overlap in the model, which TLC
had read in order: it was made explicit.

*Gates* (`Directory`; any guilds, channels and threads, any number of pulls and retries, changes and
reconnects): `DirectoryInvariance` and `GatesStayKept` (`DirSpec => GatesKept`). That one pull owns the
pending gate (`PullOwnsGate`) needs `PullsPast`: a superseded pull has a version of the past and can never come to own the
gate again. That nothing removed returns (`NoStaleDirectory`, an action property) needs `RemovalsSeen`: what an
answer shows was on the server when it was read, so if the client has removed it since, its generation has
moved past the one the pull saw, and `SnapshotCurrent` refuses. `removed` is a history
variable: what the client has removed and the server has not had again since. It is kept over any number
of events and reconnects, not only until the next step. That a pending history gate has a load it will
accept (`HistoryOwned`) needs that its channel is known (`PendingKnown`). Both are false in one case, which the proof
made explicit: a snapshot prunes a channel, `RemoveChannel` takes its threads along, and only the
channel's own gate is invalidated (`app_gateway_state.go:425`). The history variable `severed` holds those threads; a
thread in it that comes back under its ID may find its gate pending for good. Every handler of the
gateway is an instance of one lemma (`GatewayKeeps`: it gives up the gates of what it removes, except what it
cuts, and counts what it removes), and every step of a pull of another (`PullKeeps`).

`EventLoopProofs` proves, for any closures, commands and goroutines and any capacity
of the raw queue: `Invariance` (`LoopSafe => []LoopInv`), `NeverAsleepOnWork` (no lost
wake-up), `NoneStranded` (what was accepted has run when the loop ends) and
`FirstInFirstOut` (`LoopSafe` implements `PostQueue`). That the loop does not sleep on work is not
inductive: it holds in `select` because of what the steps before left behind. `WorkWoken`
adds that a closure that arrives after the drain, and a command left by the flush,
have the token or a goroutine about to put it. `InOrder` says
that `accepted` is what ran, what is running and what waits, in this order; with
`Shutdown` (an empty queue once posts are refused and drained) `NoneStranded` follows, and
`FinishPost` is seen to run the abstract queue's head. `NewestSurvives` rests on a
lemma on the bounded queue: whatever is dropped, the command that arrives is last.

`TimelineProofs` proves that `Timeline` implements both, for any
messages, nonces, requests, page sizes and bounds, and with `INSTANCE HistoryProofs`
that it inherits their theorems.

*The gate* (`GateRefinement`; `OwnedGate`: a pending history gate always has a
request that will complete it). A request is a loader by its phase
and its version of the gate. It needs `GateIInv`: every request began in the past
and is current only in the lifetime it began in (`BeganBefore`), the gate's version is below
the lifetime's number, and the lifetimes begun and the ones still in `wire` stay within their
bound (`WireBounded`), so the gate's version does. The bound counts events in a sequence; four lemmas say what
appending and taking an event do to that count. `Events`, `Users`, `Calls` and
`Environments` group the steps that leave the gate alone.

*The tombstones* (`TombRefinement`: `Spec => ImplementsTombstones`; `DeletedStaysDeleted`: the
timeline's own `NoStaleResurrection`). The mechanism sees a ring as the set of its IDs, so
the proof is about what every store operation does to a ring of any size, the faulty shift of `removeByID` included:

- `Sound(s)`: no revision on record lies in the future, and a ring that holds messages has one.
  `Follows(s, t)`: what an operation changed of the messages it has stamped. Each operation keeps them:
  `Appends`, `Overwrites`, `Replaces`, `Reconciles`, `Edits`, `RemovesOneId`, `RemovesAll`, `Prepends`,
  `Installs` with `Merges`;
- `Removes(s, t, ids)` is the account of a delete: every ID has a tombstone from after it or the watermark
  has passed it, however many are evicted; `RemovesTwice` adds one delete to several, and a bulk
  delete is as many (`RemovesAll`);
- filters and repeated deletes are recursive functions. Their equations hold because they are defined by the
  step before (`ChosenEquation`, `RemovalEquation`), and a property climbs along the numbers up to a length
  (`Climb`): a set of numbers with 0 and each successor up to `n` contains `n`, from `Least`;
- `TombIInv` adds what the environment owes: the server reports as deleted what it has deleted (`Legal`), a page
  shows live messages (`PageIsLive`, by `RankBijective` on the server's order), an accepted
  send has an ID. One lemma per action shows `Implements`: a step of the mechanism or none, the invariant,
  and a stamp for what changed.

The same steps give `RevTracks` (`Spec => MsgRevTracksContents`): whatever changes the messages moves the
revision `ChatView` keeps its transcript under. `Follows` has three cases, nothing changed, stamped, or emptied
with the ring, and `Installs` a fourth, which is `OnlyEchoesLeft` (section 3, *Known limits*).

`VideoOverlayProofs` proves that `VideoOverlay` implements `EventLoop` (`LoopRefinement`), so that it
inherits the loop's theorems (`LoopKept`), and `VideoSafety` (`Spec => []VideoSafe`), for any
number of videos and any capacity of the raw queue. That no image survives when the loop
sleeps rests on an order over four places, and `VideoIInv` has a part for each:

- `ReaderPlaced`, `RegionHeld`: whoever reads from mpv is the player's session, or the one
  `Stop` waits for, and both hold the region; so nobody queues a frame without it;
- `Restoring`: without the region the last command queued is no frame, and commands or damaged
  cells that are left wait for a forced repaint or for the end of the loop. `NewestSurvives` of the
  loop then says that the terminal shows no image once the queue is empty;
- `RepaintPlaced`: a forced repaint has a frame due, its flush is unlimited, and it comes
  before the loop sleeps and before another video starts;
- `VideoShutdown`: the same for the last flush.

`PluginProofs` proves, for any plugins, queue size, calls and generations, `PluginTypes` and
`PluginSafety` (`Spec => []PluginsSafe`): no job executes Lua on a closed state, what is
registered belongs to a loaded plugin, and after quit at most one job begins. None is inductive alone:

- that a job meets a live state needs `ExecLive` (the states the worker is inside of are loaded
  or being loaded) and `CallsCommitted` (a handler that waits in the queue belongs to a state
  no rollback will close), and `ShutdownOrder`: quit, then the worker's end, then the states;
- that a registration has an owner needs `LoadPlaced`: where the one load under way is;
- the bound on late jobs needs `LateCounted`: a worker that waits after quit has not begun any.

`PluginProofs` also proves what is drawn over the program and acted on, three components of the run
`toolkit`. All three hang on one thing: an event is handled after a frame, so what the last frame left
behind is current then, and only then.

*Panels* (`Pointer`; any screens, sizes and cells): `PanelInvariance` and `PanelsFollow`
(`PanelSpec => Panels`). `FrameFresh`: while no frame is due the panel was last drawn where its state
puts it; `GrabKept`: a drag that can still move the panel knows where the press found it, and
what it moved is that panel. `FollowStep`, `PutBackStep` and `RefreshStep` are the steps of the action property, by cases on the edges of the screen.
*Toasts* (`Notices`; any pings, errors, slots): `NoticesInvariance`, with `PingNotLost` itself,
`RowsFresh` (the rows are those of the stack) and `ErrorsAgeless`. Lemmas on the stack say what
remains of it when an element is put first (`PutFirst`), moved to the front (`WithoutRange`) or taken out
(`StayingRange`, which uses that ranks number a finite set, `Ranks`).
*Menus and cards* (`Popups`; any users, details and heights): `PopupsInvariance`. `AnswersPlaced`: what is
being fetched under the number of the open card is for its user; `DMsFresh`: the DMs are where they
were drawn; `DoneClosed`: a choice has closed the popup before anything else is handled. `SelectableDrawn`
says that what can be chosen lies within the box for every height of the terminal.
`ShownActedOn` (`PopupsSpec /\ NoticesSpec => ActsOnDrawn`) puts them together.

`LoginProofs` proves the two components of the login, for any numbers of commands, Closes and
modes. For the browser session, `BrowserInvariance` and `BrowserSafety`: a command gets its own reply
and just one, and the profile outlives the browser that uses it. Three goroutines may answer a
command: the reader for its reply, the reader when it fails, and any Close. `OneWriter` says that
every identifier owed an answer is owed by exactly one of them: it is in `pending`, or
taken from there by one. `Replied` ties what a command has received to the
identifiers nobody owes, `KilledFirst` orders kill, wait and remove. For the login screen,
`LoginInvariance` and `LoginSafety`: a prompt belongs to the login that waits for it, and one that is over
leaves no Firefox and no connection. `AskedOnce` says that the prompt exists once, as a posted closure or on
the panel, while its answer channel is open.

`ShellProofs` proves, for any accounts, channels, forums and number of staged files,
`ShellInvariance`, `ShellFocus` (`Spec => []FocusHonest`) and `ShellComposer`
(`Spec => []ComposerHonest`). Shell and main view are one record `u`, changed by operators that call each
other as the Go methods do, so the proof goes by operator: each keeps `Sound(v, w, c)`, that
view `v` tells the truth while widget `w` has the focus and channel `c` is selected.

- `FocusHonest` speaks of the moment after a frame, when key presses are taken. `EditorPlaced` holds at every
  step: an editor in use belongs to the selected channel, the composer accepts the focus just while
  the editor waits or takes text, and a suspended one has the overlay that wakes it. With it, `ApplyDrawn` shows
  that a frame leaves no focused composer whose editor is at rest;
- `RequestPlaced`: an editor that waits has its request in the shell, or in the runtime in the same
  generation. `ConsumeSound` and `ApplySound` carry it through the two places where a request is
  applied, refused or held. `Quiet` says why the runtime may judge an event's request by the selected channel: a
  step that changes the channel leaves no request;
- `Answers` is `TargetOnScreen` for a view in the middle of a step, `StillArrived` the step from one channel to another;
- `Unstaged` orders the end: Close waits for the clipboard's worker, then empties the composer, and
  the loop ends after the last closure; so `FilesOwned` leaves no file.

The invariants of these proofs were model-checked before they were proved; `IInv` of
`Tombstones` remains one of the properties of `kept`.

Assumptions on constants are stated in the modules that declare them and evaluated by
the runs that extend those modules. They say that bounds are naturals, that queues hold at
least one entry, and that a value which stands for "none" (the empty nonce, no caller, no
mode, no channel and no widget) is none of the values it is told apart from; that guilds, channels and pulls are finitely many and the parent of a thread is no thread; `config.lua` is one of the plugins.

Out of the prover's reach, and left to TLC: liveness under fairness (`progress`,
`timeline_send`, `VideoEnds`), what recursive definitions and folds compute,
and therefore most of what pages and rings contain, and in which order (`NoRollback`, `PagingKeepsBothEnds`). `SendKept` is
no theorem: a window of four or more loses and doubles entries (`ring_removal`).
Model-checked only, though within the prover's reach in principle: `Forum` and the media
caches; of the toolkit `Focus`, `GuildRail`, `Composer`, `Split` and `Screen`; `InputReader`, `Picker`,
`MediaBodies`, `Transcript` and `Components` (whose conversion is recursive over a tree). Three invariants of runs have no theorem: `SettledMembership` compares the
contents of a ring after merges and sorts, `Pictures` a terminal and a frame that are written cell by cell,
`ReaderKept` what a parser makes of a stream of bytes. All three are about what folds and recursive functions
compute over sequences, which takes induction over data.

## 5. Not modelled, and why

Reactions, pins, members, roles, presences, typing, relationships (in-place updates of
data beside the timeline); the confirmation of an edit (`app_actions.go:268`, a hazard
without a property); outages of guilds (a flag), hydration of DMs; a permission's
computation and colours; visual selection, the drawing of messages, embeds, markup;
mouse reports, modifiers and the Kitty keyboard protocol; image protocols other than
Kitty's; a profile card's column; the CAPTCHA's keys and mouse; account removal and failed
connections; Unicode widths, switchers, settings, slash commands, secrets, REST wrappers,
telemetry, command-line flags (sequential transformations or I/O). Vendored arikawa is
external: its ordered synchronous handlers are an assumption of `Timeline`, `Directory`,
`Forum` and `ReadState`.

## 6. Plan

The model covers what was planned. The next proofs: the media
caches, whose processes share files as those of `Launch` do; `InputReader` with its recursion as a function. After that `EditSync`: the confirmation of an edit
against MESSAGE_UPDATE.
