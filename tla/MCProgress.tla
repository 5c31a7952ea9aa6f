--------------------------------- MODULE MCProgress ---------------------------------
(***************************************************************************)
(* What has to end, in smaller instances than MCApp's of the components    *)
(* that run beside the UI goroutine, each with the fairness of its module: *)
(* the plugin host, the login and its browser, the threads of a forum, the *)
(* directory, the pictures of the pickers and of the chat, the             *)
(* notifications and the reader of the input.                              *)
(***************************************************************************)
EXTENDS Integers, Sequences, FiniteSets, TLC

CONSTANTS None, config, p1, n1, k1, k2, a, b, w, u, g, m1, m2, DM, NoParent, parent, thread, dm

\* Two messages of a channel share a URL.
MsgsOf == a :> <<m1, m2>>
UrlsOf == m1 :> <<u>> @@ m2 :> <<u, g>>

\* Three emoji, and two queries of which one narrows.
Found == [q \in {"", "x"} |-> IF q = "x" THEN {"b", "c"} ELSE {"a", "b", "c"}]

\* One guild with a channel and its thread, and one direct message.
Channels == {parent, thread, dm}
GuildOf == (parent :> g) @@ (thread :> g) @@ (dm :> DM)
ParentOf == (parent :> NoParent) @@ (thread :> parent) @@ (dm :> NoParent)

\* A chord, a lone Escape after it, a paste, one that is cut off, and the chords that look like
\* the beginning of a control sequence, read in pieces of one or two bytes.
ESC == "esc"
Key(key, alt) == [kind |-> "key", key |-> key, alt |-> alt]
U(bytes, events) == [bytes |-> bytes, events |-> events]
Opening == <<ESC, "[", "200", "~">>
Closing == <<ESC, "[", "201", "~">>
Escape == U(<<ESC>>, <<Key(ESC, FALSE)>>)
AltX == U(<<ESC, "x">>, <<Key("x", TRUE)>>)
Paste == U(Opening \o <<ESC, "x">> \o Closing, <<[kind |-> "paste", text |-> <<ESC, "x">>]>>)
Unfinished == U(Opening \o <<"x">>, <<>>)
AltBracket == U(<<ESC, "[">>, <<Key("[", TRUE)>>)
AltO == U(<<ESC, "O">>, <<Key("O", TRUE)>>)
Inputs == {<<Escape>>, <<AltX, Escape>>, <<Paste>>, <<AltX, Unfinished>>,
           <<AltBracket>>, <<AltX, AltO>>, <<AltBracket, Escape>>, <<AltO, Escape>>}

VARIABLES
  part, \* the component that runs
  pluginsJobs, pluginsQuit, pluginsWorker, pluginsMain, pluginsLife, pluginsStacks, pluginsSubs,
  pluginsTimers, pluginsViewports, pluginsClosers, pluginsLate,
  bidiAttached, bidiSocket, bidiGate, bidiCall, bidiNext, bidiPending, bidiWire, bidiInbox,
  bidiReader, bidiCloser, bidiOwned, bidiFox, bidiProfile,
  loginUi, loginCanceled, loginPosts, loginPanel, loginToken, loginStage, loginRa, loginConn,
  loginHeart, loginAnswer, loginFox,
  forumSrv, forumAccess, forumClock, forumConnected, forumWire, forumStore, forumKnown, forumGen,
  forumGate, forumCursor, forumPages, forumMeta, forumMetas, forumAsked, forumRows, forumMissed,
  pickerTab, pickerQuery, pickerFavorites, pickerMedia, pickerJobs, pickerWorking, pickerPosts,
  pickerState, pickerGifQuery, pickerGifResults, pickerSearches, pickerInputs,
  dirDir, dirHist, dirGate, dirLoads, dirPulls, dirTold, dirLive, dirWire, dirUsed, dirRemoved,
  dirSevered, dirBare,
  bodiesChan, bodiesRev, bodiesMedia, bodiesCount, bodiesJobs, bodiesWork, bodiesPosts,
  bodiesBodies, bodiesTrans, bodiesDirty, bodiesPass, bodiesOpen, bodiesEvicted,
  noticesUnfocused, noticesArrived, noticesSlots, noticesPosts, noticesToasts, noticesBounds,
  noticesDirty, noticesTold, noticesEnded, noticesErrors,
  readerUnits, readerSent, readerHeld, readerChunk, readerPc, readerP, readerOut, readerLast,
  readerTimer, readerQueue, readerGot, readerExpired, readerQuit

Plug == INSTANCE PluginRuntime WITH
  Plugins <- {config, p1}, Config <- config, Names <- {n1}, Stoppers <- {k1}, QueueSize <- 1,
  MaxStack <- 1, jobs <- pluginsJobs, quit <- pluginsQuit, worker <- pluginsWorker,
  main <- pluginsMain, life <- pluginsLife, stacks <- pluginsStacks, subs <- pluginsSubs,
  timers <- pluginsTimers, viewports <- pluginsViewports, closers <- pluginsClosers,
  late <- pluginsLate

Fox == INSTANCE BiDi WITH
  Callers <- {a, b}, Closers <- {k1, k2}, MaxId <- 1, attached <- bidiAttached,
  socket <- bidiSocket, gate <- bidiGate, call <- bidiCall, next <- bidiNext,
  pending <- bidiPending, wire <- bidiWire, inbox <- bidiInbox, reader <- bidiReader,
  closer <- bidiCloser, owned <- bidiOwned, fox <- bidiFox, profile <- bidiProfile

Log == INSTANCE Login WITH
  Modes <- {"tui", "browser"}, Nothing <- None, ui <- loginUi, canceled <- loginCanceled, posts <- loginPosts,
  panel <- loginPanel, token <- loginToken, stage <- loginStage, ra <- loginRa, conn <- loginConn,
  heart <- loginHeart, answer <- loginAnswer, firefox <- loginFox

For == INSTANCE Forum WITH
  Threads <- {1}, Limit <- 1, MaxChanges <- 2, MaxRequests <- 2, srv <- forumSrv,
  access <- forumAccess, clock <- forumClock, connected <- forumConnected, wire <- forumWire,
  store <- forumStore, known <- forumKnown, gen <- forumGen, gate <- forumGate,
  cursor <- forumCursor, pages <- forumPages, meta <- forumMeta, metas <- forumMetas,
  asked <- forumAsked, rows <- forumRows, missed <- forumMissed

Pick == INSTANCE Picker WITH
  Catalog <- <<"a", "b", "c">>, Queries <- {"", "x"}, Empty <- "", Matches <- Found, MaxRows <- 3,
  MaxThumbs <- 2, QueueSize <- 1, Workers <- {w}, MaxInputs <- 3, tab <- pickerTab,
  query <- pickerQuery, favorites <- pickerFavorites, media <- pickerMedia, jobs <- pickerJobs,
  working <- pickerWorking, posts <- pickerPosts, state <- pickerState,
  gifQuery <- pickerGifQuery, gifResults <- pickerGifResults, searches <- pickerSearches,
  inputs <- pickerInputs

Dir == INSTANCE Directory WITH
  Guilds <- {g}, DM <- DM, DirChannels <- Channels, GuildOf <- GuildOf, ParentOf <- ParentOf,
  NoParent <- NoParent, Pulls <- {p1}, MaxRetries <- 1, MaxPulls <- 1, MaxChanges <- 1,
  MaxReconnects <- 1, MaxHistory <- 0, MaxWire <- 2, dir <- dirDir, hist <- dirHist,
  gate <- dirGate, loads <- dirLoads, pulls <- dirPulls, told <- dirTold, live <- dirLive,
  wire <- dirWire, used <- dirUsed, removed <- dirRemoved,
  severed <- dirSevered, bare <- dirBare

Med == INSTANCE MediaBodies WITH
  Channels <- {a}, MsgsOf <- MsgsOf, UrlsOf <- UrlsOf, Gifs <- {g}, QueueSize <- 1, Workers <- 1,
  MaxStates <- 1, MaxRev <- 1, chan <- bodiesChan, rev <- bodiesRev, media <- bodiesMedia,
  count <- bodiesCount, jobs <- bodiesJobs, work <- bodiesWork, posts <- bodiesPosts,
  bodies <- bodiesBodies, trans <- bodiesTrans, dirty <- bodiesDirty, pass <- bodiesPass,
  open <- bodiesOpen, evicted <- bodiesEvicted

Notes == INSTANCE Notices WITH
  Pings <- {a, b}, Errors <- {}, Slots <- 1, ScreenRows <- 9, Lines <- 3, ErrorMax <- 1, Absent <- None,
  unfocused <- noticesUnfocused, arrived <- noticesArrived, slots <- noticesSlots,
  posts <- noticesPosts, toasts <- noticesToasts, bounds <- noticesBounds, undrawn <- noticesDirty,
  told <- noticesTold, ended <- noticesEnded, errors <- noticesErrors

Rd == INSTANCE InputReader WITH
  Inputs <- Inputs, ReadMax <- 2, Cap <- 1, units <- readerUnits, sent <- readerSent,
  held <- readerHeld, chunk <- readerChunk, pc <- readerPc, p <- readerP, out <- readerOut,
  last <- readerLast, timer <- readerTimer, queue <- readerQueue, got <- readerGot,
  expired <- readerExpired, quit <- readerQuit

pluginsVars == <<pluginsJobs, pluginsQuit, pluginsWorker, pluginsMain, pluginsLife,
                   pluginsStacks, pluginsSubs, pluginsTimers, pluginsViewports, pluginsClosers,
                   pluginsLate>>
bidiVars == <<bidiAttached, bidiSocket, bidiGate, bidiCall, bidiNext, bidiPending, bidiWire,
                bidiInbox, bidiReader, bidiCloser, bidiOwned, bidiFox, bidiProfile>>
loginVars == <<loginUi, loginCanceled, loginPosts, loginPanel, loginToken, loginStage, loginRa,
                 loginConn, loginHeart, loginAnswer, loginFox>>
forumVars == <<forumSrv, forumAccess, forumClock, forumConnected, forumWire, forumStore,
                 forumKnown, forumGen, forumGate, forumCursor, forumPages, forumMeta, forumMetas,
                 forumAsked, forumRows, forumMissed>>
pickerVars == <<pickerTab, pickerQuery, pickerFavorites, pickerMedia, pickerJobs, pickerWorking,
                  pickerPosts, pickerState, pickerGifQuery, pickerGifResults, pickerSearches,
                  pickerInputs>>
dirVars == <<dirDir, dirHist, dirGate, dirLoads, dirPulls, dirTold, dirLive, dirWire, dirUsed,
               dirRemoved, dirSevered, dirBare>>
bodiesVars == <<bodiesChan, bodiesRev, bodiesMedia, bodiesCount, bodiesJobs, bodiesWork,
                  bodiesPosts, bodiesBodies, bodiesTrans, bodiesDirty, bodiesPass, bodiesOpen,
                  bodiesEvicted>>
noticesVars == <<noticesUnfocused, noticesArrived, noticesSlots, noticesPosts, noticesToasts,
                   noticesBounds, noticesDirty, noticesTold, noticesEnded, noticesErrors>>
readerVars == <<readerUnits, readerSent, readerHeld, readerChunk, readerPc, readerP, readerOut,
                  readerLast, readerTimer, readerQueue, readerGot, readerExpired, readerQuit>>
vars == <<part, pluginsVars, bidiVars, loginVars, forumVars, pickerVars, dirVars, bodiesVars, noticesVars, readerVars>>

\* The component is chosen once; the others stay as they start.
Init ==
  /\ part \in {"plugins", "bidi", "login", "forum", "picker", "dir", "bodies", "notices", "reader"}
  /\ Plug!Init
  /\ Fox!BidiInit
  /\ Log!LoginInit
  /\ For!Init /\ (part # "forum" => forumSrv = [t \in {1} |-> [is |-> "none", at |-> 0]])
  /\ Pick!Init
  /\ Dir!DirInit
  /\ Med!Init
  /\ Notes!NoticesInit
  /\ Rd!Init /\ (part # "reader" => readerUnits = <<Escape>>)

Next ==
  \/ part = "plugins" /\ Plug!Next /\ UNCHANGED <<part, bidiVars, loginVars, forumVars, pickerVars, dirVars, bodiesVars, noticesVars, readerVars>>
  \/ part = "bidi" /\ Fox!BidiNext /\ UNCHANGED <<part, pluginsVars, loginVars, forumVars, pickerVars, dirVars, bodiesVars, noticesVars, readerVars>>
  \/ part = "login" /\ Log!LoginNext /\ UNCHANGED <<part, pluginsVars, bidiVars, forumVars, pickerVars, dirVars, bodiesVars, noticesVars, readerVars>>
  \/ part = "forum" /\ For!Next /\ UNCHANGED <<part, pluginsVars, bidiVars, loginVars, pickerVars, dirVars, bodiesVars, noticesVars, readerVars>>
  \/ part = "picker" /\ Pick!Next /\ UNCHANGED <<part, pluginsVars, bidiVars, loginVars, forumVars, dirVars, bodiesVars, noticesVars, readerVars>>
  \/ part = "dir" /\ Dir!DirNext /\ UNCHANGED <<part, pluginsVars, bidiVars, loginVars, forumVars, pickerVars, bodiesVars, noticesVars, readerVars>>
  \/ part = "bodies" /\ Med!Next /\ UNCHANGED <<part, pluginsVars, bidiVars, loginVars, forumVars, pickerVars, dirVars, noticesVars, readerVars>>
  \/ part = "notices" /\ Notes!NoticesNext /\ UNCHANGED <<part, pluginsVars, bidiVars, loginVars, forumVars, pickerVars, dirVars, bodiesVars, readerVars>>
  \/ part = "reader" /\ Rd!Next /\ UNCHANGED <<part, pluginsVars, bidiVars, loginVars, forumVars, pickerVars, dirVars, bodiesVars, noticesVars>>

\* The fairness of the component that runs.
Fairness ==
  /\ WF_pluginsVars(part = "plugins" /\ Plug!Work)
  /\ \A p \in {config, p1} : WF_pluginsVars(part = "plugins" /\ Plug!TickerExits(p))
  /\ \A c \in {k1} : WF_pluginsVars(part = "plugins" /\ (Plug!Stopped(c) \/ Plug!CloseTimers(c) \/ Plug!CloseStates(c)))
  /\ \A c \in {a, b} : WF_bidiVars(part = "bidi" /\ (Fox!Register(c) \/ Fox!Write(c) \/ Fox!Answered(c) \/ Fox!Finish(c)))
  /\ \A k \in {k1, k2} : WF_bidiVars(part = "bidi" /\ Fox!CloseStep(k))
  /\ WF_bidiVars(part = "bidi" /\ (Fox!Take \/ Fox!Deliver \/ Fox!ReaderFails))
  /\ WF_loginVars(part = "login" /\ Log!RunPost)
  /\ WF_loginVars(part = "login" /\ Log!Leave)
  /\ WF_loginVars(part = "login" /\ Log!LoopEnds)
  /\ WF_loginVars(part = "login" /\ Log!Unwind)
  /\ WF_loginVars(part = "login" /\ Log!CloseConn)
  /\ WF_loginVars(part = "login" /\ Log!DeliverToken)
  /\ WF_loginVars(part = "login" /\ Log!HeartStops)
  /\ WF_loginVars(part = "login" /\ Log!AwaitMode)
  /\ WF_loginVars(part = "login" /\ loginCanceled /\ ~loginConn /\ Log!ReadFails(TRUE))
  /\ WF_loginVars(part = "login" /\ loginCanceled /\ (Log!Dial \/ Log!LaunchFirefox \/ Log!RenderChallenge))
  /\ SF_loginVars(part = "login" /\ loginCanceled /\ Log!Poll /\ loginRa'.at # "poll")
  /\ WF_forumVars(part = "forum" /\ For!Handle)
  /\ WF_forumVars(part = "forum" /\ (\E r \in forumPages : For!Complete(r) \/ For!Fail(r)))
  /\ WF_forumVars(part = "forum" /\ (\E m \in forumMetas : For!MetadataAnswer(m)))
  /\ WF_pickerVars(part = "picker" /\ Pick!Arrive)
  /\ WF_pickerVars(part = "picker" /\ Pick!Closed)
  /\ WF_pickerVars(part = "picker" /\ Pick!Take(w))
  /\ WF_pickerVars(part = "picker" /\ Pick!Fetched(w))
  /\ WF_pickerVars(part = "picker" /\ Pick!Leave(w))
  /\ WF_dirVars(part = "dir" /\ Dir!HandleEvent)
  /\ WF_dirVars(part = "dir" /\ Dir!PullStep(p1))
  /\ WF_bodiesVars(part = "bodies" /\ (Med!Draw \/ Med!RenderMessage \/ Med!EndRender))
  /\ WF_bodiesVars(part = "bodies" /\ Med!mediaWorker)
  /\ WF_bodiesVars(part = "bodies" /\ (\E q \in bodiesPosts : Med!deliver(q)))
  /\ \A url \in {u, g} : WF_bodiesVars(part = "bodies" /\ Med!fetchMedia(url))
  /\ WF_noticesVars(part = "notices" /\ Notes!ShowPosted)
  /\ WF_noticesVars(part = "notices" /\ Notes!DrawToasts)
  /\ SF_noticesVars(part = "notices" /\ Notes!ExpireToasts)
  /\ \A q \in {a, b} : WF_noticesVars(part = "notices" /\ (Notes!Notified(q) \/ Notes!NotifyFails(q)))
  /\ WF_readerVars(part = "reader" /\ (\E n \in 1 .. 2 : Rd!Read(n)))
  /\ WF_readerVars(part = "reader" /\ Rd!Pass)
  /\ WF_readerVars(part = "reader" /\ Rd!Parse)
  /\ WF_readerVars(part = "reader" /\ Rd!Loop)
  /\ WF_readerVars(part = "reader" /\ Rd!Expire)
  /\ WF_readerVars(part = "reader" /\ Rd!Send)
  /\ WF_readerVars(part = "reader" /\ Rd!Stop)
  /\ WF_readerVars(part = "reader" /\ Rd!Take)

Spec == Init /\ [][Next]_vars /\ Fairness

(* ------------------------------ properties ----------------------------- *)

\* A plugin's startup returns although ticks fill the queue, and Close returns with every
\* ticker goroutine gone (plugin/runtime.go, plugin/manager.go).
PluginsEnd == (part = "plugins") => Plug!CloseReleases /\ Plug!LoadReturns

\* Closing the browser session frees every caller that waits for a reply, a cancelled login
\* unwinds to the last goroutine unless the exchange of its ticket never returns, and a token
\* that was posted is the result
\* (captcha/bidi.go, ui/qr.go, ui/qr_remoteauth.go, ui/login.go).
LoginEnds ==
  /\ (part = "bidi") => Fox!CloseReturns
  /\ (part = "login") => Log!LoginUnwinds /\ Log!TokenDelivered

\* Whatever is begun ends: the pages and the metadata of a forum, the pull of the directory,
\* the fetch of a medium on the screen, the pictures of a picker's rows and the picker's Close
\* (app/threads.go, app/app_directory.go, ui/chatview_media.go, ui/picker.go).
LoadsEnd ==
  /\ (part = "forum") => For!PagesEnd /\ For!MetadataEnds
  /\ (part = "dir") => Dir!PullEnds
  /\ (part = "bodies") => Med!Retried
  /\ (part = "picker") => Pick!ThumbnailsArrive /\ Pick!CloseReturns

\* A ping that arrived is shown: by the desktop's notifier, or on a toast (ui/shell.go).
PingShown == (part = "notices") => Notes!PingShown

\* The reader of the input ends when it is told to or its stream does, and nothing is held
\* back for ever but a paste or a control sequence that was begun (tui/input/reader.go).
ReaderEnds == (part = "reader") => Rd!ReaderEnds /\ Rd!NothingHeld

\* "Reader owns an input stream and publishes decoded events until its context is canceled or
\* the stream ends" (tui/input/reader.go:25).
StreamEnds == (part = "reader") => Rd!StreamEnds
=============================================================================
