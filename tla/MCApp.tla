----------------------------------- MODULE MCApp -----------------------------------
(***************************************************************************)
(* Parts of the program, each in a small instance of its own: the plugin   *)
(* host, the browser of the login and the login, the threads of a forum,   *)
(* the media and the transcript of the chat, the components of bots'       *)
(* messages, the reader of the input, the pickers, and the pull of the     *)
(* directory.  It extends the first three.                                 *)
(***************************************************************************)
EXTENDS PluginRuntime, BiDi, Login, Integers, TLC

CONSTANTS p1, a, b, m1, m2, m3, u, g, DM, NoParent, parent, thread, other, dm

\* Two channels whose messages share a URL.
MsgsOf == a :> <<m1, m2>> @@ b :> <<m3>>
UrlsOf == m1 :> <<u>> @@ m2 :> <<u, g>> @@ m3 :> <<g>>

\* Messages of two authors.
Author == [m \in {1, 2, 3, 9} |-> IF m \in {2, 3} THEN "b" ELSE "a"]

\* Three emoji, and two queries of which one narrows.
Found == [q \in {"", "x"} |-> IF q = "x" THEN {"b", "c"} ELSE {"a", "b", "c"}]

\* One guild with a channel, its thread and another channel, and one direct message.
Channels == {parent, thread, other, dm}
GuildOf == (parent :> g) @@ (thread :> g) @@ (other :> g) @@ (dm :> DM)
ParentOf == (parent :> NoParent) @@ (thread :> parent) @@ (other :> NoParent) @@ (dm :> NoParent)

\* A key, a chord or a paste before another, read in pieces of one to four bytes.
ESC == "esc"
Key(key, alt) == [kind |-> "key", key |-> key, alt |-> alt]
U(bytes, events) == [bytes |-> bytes, events |-> events]
Opening == <<ESC, "[", "200", "~">>
Closing == <<ESC, "[", "201", "~">>
PasteOf(text) == U(Opening \o text \o Closing, <<[kind |-> "paste", text |-> text]>>)
Plain == U(<<"x">>, <<Key("x", FALSE)>>)
Escape == U(<<ESC>>, <<Key(ESC, FALSE)>>)
AltX == U(<<ESC, "x">>, <<Key("x", TRUE)>>)
Up == U(<<ESC, "[", "A">>, <<Key("up", FALSE)>>)
SS3Up == U(<<ESC, "O", "A">>, <<Key("up", FALSE)>>)
Unknown == U(<<ESC, "[", "x">>, <<>>)
AltRune == U(<<ESC, "lead", "cont">>, <<Key("wide", TRUE)>>)
Unfinished == U(Opening \o <<"x">>, <<>>)
First == {Plain, AltX, Up, PasteOf(<<"x", ESC, "[">>)}
Then == {Escape, SS3Up, AltRune, Unknown, Unfinished}
Inputs == {<<i, j>> : i \in First, j \in Then}

\* Two messages of a bot: a select that an edit disables, widens and puts into a container,
\* and a section with a link.
Item(type, id) ==
  [type |-> type, id |-> id, disabled |-> FALSE, max |-> 1, url |-> FALSE, items |-> <<>>]
In(type, c) == [type |-> type, items |-> <<c>>]
OneOf == Item("string select", "s") @@ [options |-> <<"x">>, defaults |-> {"x"}]
TwoOf == [Item("string select", "s") EXCEPT !.max = 2, !.disabled = TRUE]
         @@ [options |-> <<"x", "y">>, defaults |-> {"y"}]
Link == [Item("button", "b") EXCEPT !.url = TRUE]
Wire == <<<<<<In("row", OneOf)>>, <<In("container", In("row", TwoOf))>>>>,
          <<<<In("section", Item("text", "")) @@ [accessory |-> Link]>>>>>>

VARIABLES
  part, \* the component that runs
  forumSrv, forumAccess, forumClock, forumConnected, forumWire, forumStore, forumKnown, forumGen,
  forumGate, forumCursor, forumPages, forumMeta, forumMetas, forumAsked, forumRows, forumMissed,
  bodiesChan, bodiesRev, bodiesMedia, bodiesCount, bodiesJobs, bodiesWork, bodiesPosts,
  bodiesBodies, bodiesTrans, bodiesDirty, bodiesPass, bodiesOpen, bodiesEvicted,
  viewChan, viewMsgs, viewRows, viewCollapsed, viewHeight, viewScroll, viewAnchor, viewPin,
  viewStick, viewOwner, viewFocus, viewStops, viewStale, viewLast, viewDrawn, viewMoved, viewDirty,
  readerUnits, readerSent, readerHeld, readerChunk, readerPc, readerP, readerOut, readerLast,
  readerTimer, readerQueue, readerGot, readerExpired, readerQuit,
  pickerTab, pickerQuery, pickerFavorites, pickerMedia, pickerJobs, pickerWorking, pickerPosts,
  pickerState, pickerGifQuery, pickerGifResults, pickerSearches, pickerInputs,
  dirDir, dirHist, dirGate, dirLoads, dirPulls, dirTold, dirLive, dirWire, dirUsed, dirRemoved,
  dirSevered, dirBare,
  cmpVersion, cmpLast, cmpStates, cmpExpanded, cmpChosen, cmpMultis, cmpActive,
  cmpFocus, cmpBodies, cmpFrame, cmpDirty, cmpSlot, cmpFlying

For == INSTANCE Forum WITH
  Threads <- {1, 2}, Limit <- 1, MaxChanges <- 3, MaxRequests <- 2, srv <- forumSrv,
  access <- forumAccess, clock <- forumClock, connected <- forumConnected, wire <- forumWire,
  store <- forumStore, known <- forumKnown, gen <- forumGen, gate <- forumGate,
  cursor <- forumCursor, pages <- forumPages, meta <- forumMeta, metas <- forumMetas,
  asked <- forumAsked, rows <- forumRows, missed <- forumMissed

Med == INSTANCE MediaBodies WITH
  Channels <- {a, b}, MsgsOf <- MsgsOf, UrlsOf <- UrlsOf, Gifs <- {g}, QueueSize <- 1,
  Workers <- 1, MaxStates <- 1, MaxRev <- 1, chan <- bodiesChan, rev <- bodiesRev,
  media <- bodiesMedia, count <- bodiesCount, jobs <- bodiesJobs, work <- bodiesWork,
  posts <- bodiesPosts, bodies <- bodiesBodies, trans <- bodiesTrans, dirty <- bodiesDirty,
  pass <- bodiesPass, open <- bodiesOpen, evicted <- bodiesEvicted

View == INSTANCE Transcript WITH
  Home <- a, Away <- b, Ids <- {1, 2, 3}, Visitor <- 9, Author <- Author, Foldable <- {2},
  MaxRows <- 2, MaxMsgs <- 2, Heights <- {2, 3}, Edited <- {2}, Follow <- TRUE, chan <- viewChan,
  msgs <- viewMsgs, rows <- viewRows, collapsed <- viewCollapsed, height <- viewHeight,
  scroll <- viewScroll, anchor <- viewAnchor, pin <- viewPin, stick <- viewStick,
  owner <- viewOwner, focus <- viewFocus, stops <- viewStops, stale <- viewStale,
  last <- viewLast, drawn <- viewDrawn, moved <- viewMoved, dirty <- viewDirty

Rd == INSTANCE InputReader WITH
  Inputs <- Inputs, ReadMax <- 4, Cap <- 1, units <- readerUnits, sent <- readerSent,
  held <- readerHeld, chunk <- readerChunk, pc <- readerPc, p <- readerP, out <- readerOut,
  last <- readerLast, timer <- readerTimer, queue <- readerQueue, got <- readerGot,
  expired <- readerExpired, quit <- readerQuit

Pick == INSTANCE Picker WITH
  Catalog <- <<"a", "b", "c">>, Queries <- {"", "x"}, Empty <- "", Matches <- Found, MaxRows <- 3,
  MaxThumbs <- 2, QueueSize <- 1, Workers <- {a, b}, MaxInputs <- 4, tab <- pickerTab,
  query <- pickerQuery, favorites <- pickerFavorites, media <- pickerMedia, jobs <- pickerJobs,
  working <- pickerWorking, posts <- pickerPosts, state <- pickerState,
  gifQuery <- pickerGifQuery, gifResults <- pickerGifResults, searches <- pickerSearches,
  inputs <- pickerInputs

Dir == INSTANCE Directory WITH
  Guilds <- {g}, DM <- DM, DirChannels <- Channels, GuildOf <- GuildOf, ParentOf <- ParentOf,
  NoParent <- NoParent, Pulls <- {p1}, MaxRetries <- 2, MaxPulls <- 1, MaxChanges <- 2,
  MaxReconnects <- 1, MaxHistory <- 0, MaxWire <- 2, dir <- dirDir, hist <- dirHist,
  gate <- dirGate, loads <- dirLoads, pulls <- dirPulls, told <- dirTold, live <- dirLive,
  wire <- dirWire, used <- dirUsed, removed <- dirRemoved,
  severed <- dirSevered, bare <- dirBare

Cmp == INSTANCE Components WITH
  Wire <- Wire, Shortcuts <- 3, MaxPosts <- 2, version <- cmpVersion, last <- cmpLast,
  states <- cmpStates, expanded <- cmpExpanded, chosen <- cmpChosen,
  multis <- cmpMultis, active <- cmpActive, focus <- cmpFocus,
  bodies <- cmpBodies, frame <- cmpFrame, dirty <- cmpDirty,
  slot <- cmpSlot, flying <- cmpFlying

forumVars == <<forumSrv, forumAccess, forumClock, forumConnected, forumWire, forumStore,
                 forumKnown, forumGen, forumGate, forumCursor, forumPages, forumMeta, forumMetas,
                 forumAsked, forumRows, forumMissed>>
bodiesVars == <<bodiesChan, bodiesRev, bodiesMedia, bodiesCount, bodiesJobs, bodiesWork,
                  bodiesPosts, bodiesBodies, bodiesTrans, bodiesDirty, bodiesPass, bodiesOpen,
                  bodiesEvicted>>
viewVars == <<viewChan, viewMsgs, viewRows, viewCollapsed, viewHeight, viewScroll, viewAnchor,
                viewPin, viewStick, viewOwner, viewFocus, viewStops, viewStale, viewLast,
                viewDrawn, viewMoved, viewDirty>>
readerVars == <<readerUnits, readerSent, readerHeld, readerChunk, readerPc, readerP, readerOut,
                  readerLast, readerTimer, readerQueue, readerGot, readerExpired, readerQuit>>
pickerVars == <<pickerTab, pickerQuery, pickerFavorites, pickerMedia, pickerJobs, pickerWorking,
                  pickerPosts, pickerState, pickerGifQuery, pickerGifResults, pickerSearches,
                  pickerInputs>>
dirVars == <<dirDir, dirHist, dirGate, dirLoads, dirPulls, dirTold, dirLive, dirWire, dirUsed,
               dirRemoved, dirSevered, dirBare>>
cmpVars == <<cmpVersion, cmpLast, cmpStates, cmpExpanded, cmpChosen, cmpMultis, cmpActive,
             cmpFocus, cmpBodies, cmpFrame, cmpDirty, cmpSlot, cmpFlying>>
allVars == <<part, vars, bidiVars, loginVars, forumVars, bodiesVars, viewVars, readerVars, pickerVars, dirVars, cmpVars>>

\* The component is chosen once; the others stay as they start.
InitAll ==
  /\ part \in {"plugins", "bidi", "login", "forum", "bodies", "view", "reader", "picker", "dir", "components"}
  /\ Init
  /\ BidiInit
  /\ LoginInit
  /\ For!Init /\ (part # "forum" => forumSrv = [t \in {1, 2} |-> [is |-> "none", at |-> 0]])
  /\ Med!Init /\ (part # "bodies" => bodiesChan = a)
  /\ View!Init /\ (part # "view" => viewHeight = 2 /\ viewOwner)
  /\ Rd!Init /\ (part # "reader" => readerUnits = <<Plain, Escape>>)
  /\ Pick!Init
  /\ Dir!DirInit
  /\ Cmp!Init

NextAll ==
  \/ part = "plugins" /\ Next /\ UNCHANGED <<part, bidiVars, loginVars, forumVars, bodiesVars, viewVars, readerVars, pickerVars, dirVars, cmpVars>>
  \/ part = "bidi" /\ BidiNext /\ UNCHANGED <<part, vars, loginVars, forumVars, bodiesVars, viewVars, readerVars, pickerVars, dirVars, cmpVars>>
  \/ part = "login" /\ LoginNext /\ UNCHANGED <<part, vars, bidiVars, forumVars, bodiesVars, viewVars, readerVars, pickerVars, dirVars, cmpVars>>
  \/ part = "forum" /\ For!Next /\ UNCHANGED <<part, vars, bidiVars, loginVars, bodiesVars, viewVars, readerVars, pickerVars, dirVars, cmpVars>>
  \/ part = "bodies" /\ Med!Next /\ UNCHANGED <<part, vars, bidiVars, loginVars, forumVars, viewVars, readerVars, pickerVars, dirVars, cmpVars>>
  \/ part = "view" /\ View!Next /\ UNCHANGED <<part, vars, bidiVars, loginVars, forumVars, bodiesVars, readerVars, pickerVars, dirVars, cmpVars>>
  \/ part = "reader" /\ Rd!Next /\ UNCHANGED <<part, vars, bidiVars, loginVars, forumVars, bodiesVars, viewVars, pickerVars, dirVars, cmpVars>>
  \/ part = "picker" /\ Pick!Next /\ UNCHANGED <<part, vars, bidiVars, loginVars, forumVars, bodiesVars, viewVars, readerVars, dirVars, cmpVars>>
  \/ part = "dir" /\ Dir!DirNext /\ UNCHANGED <<part, vars, bidiVars, loginVars, forumVars, bodiesVars, viewVars, readerVars, pickerVars, cmpVars>>
  \/ part = "components" /\ Cmp!Next /\ UNCHANGED <<part, vars, bidiVars, loginVars, forumVars, bodiesVars, viewVars, readerVars, pickerVars, dirVars>>

SpecAll == InitAll /\ [][NextAll]_allVars

(* ------------------------------ properties ----------------------------- *)

\* What is shown is what is there once everything has been told: no post of a forum that was
\* deleted, every archived post of the pages read, no channel or thread of the directory that
\* the last changes removed, no answer of a GIF search of another query, and a body on the
\* screen is the one of the newest revision, though it comes from a cache, its media fetched
\* by one job at a time
\* (app/threads.go, app/app_directory.go, ui/picker.go, ui/chatview_media.go).
NothingStale ==
  /\ [](part = "forum" => For!NoGhost /\ For!ArchivedComplete /\ For!StaysGone)
  /\ [](part = "dir" => Dir!SettledChannels)
  /\ [](part = "bodies" => Med!OneFetch /\ Med!ShownCurrent)
  /\ Pick!NoStaleGIFs

\* Whatever arrives, is edited or is deleted, the reader of a transcript keeps the message he
\* reads in place, a view at its end follows what arrives, and what was folded stays so
\* (ui/chatview.go, ui/chatview_transcript.go).  A bot's picker submits the options that were
\* marked, nothing goes out for a control that was drawn disabled, no number is dealt twice,
\* the memoized bodies are up to date, and a spinner waits for an answer
\* (ui/chatview_components.go, ui/componentview.go, app/app_actions.go).
TranscriptKept ==
  /\ [](part = "view" => View!FocusTruthful /\ View!GgHolds /\ View!MoveReveals)
  /\ View!ReadingKept /\ View!FollowsLive /\ View!FoldStays
  /\ [](part = "components" => Cmp!PendingWaits /\ Cmp!FrameTruthful /\ Cmp!NumbersDistinct)
  /\ Cmp!SubmitsAsDrawn /\ Cmp!TogglesWhatIsDrawn /\ Cmp!DisabledStaysQuiet

\* However the input is cut into reads, the program gets the keys that were typed, and a paste
\* whole (tui/input/reader.go, tui/input/parser.go).
ReaderKept == part = "reader" => Rd!CutsDoNotShow /\ Rd!PasteWhole
=============================================================================
