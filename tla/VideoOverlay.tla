---------------------------- MODULE VideoOverlay ----------------------------
(***************************************************************************)
(* A video plays in a full-screen overlay: mpv draws Kitty images into a   *)
(* pseudo-terminal, a reader goroutine forwards each of them to the event  *)
(* loop's raw queue, a second one reaps the process and, if nobody stopped *)
(* the playback, posts the closing of the overlay (internal/media/         *)
(* video_linux.go: Play, Stop; internal/ui/shell.go: playVideo,            *)
(* closeOverlay, teardownVideo, Close).  The loop knows nothing of what    *)
(* mpv paints, so closing must stop the reader, delete the image and force *)
(* a full repaint, in this order up to the terminal.                       *)
(*                                                                         *)
(* The process always dies within the two seconds that Stop waits for it.  *)
(* The steps of the loop and of its queues are those of EventLoop.         *)
(***************************************************************************)
EXTENDS EventLoop

CONSTANTS
  Sessions,  \* playbacks, each started at most once
  Plain,     \* closures that touch no video
  Frame,     \* the raw command that shows one frame of mpv
  Delete,    \* KittyDeleteAllImages
  Other,     \* an overlay that is no video
  Nothing    \* no overlay, no session

\* onExit posts one closure per session, named after it.  The reader and the
\* reaper of a session are one goroutine: the second waits for the first.
ASSUME VideoAssumption ==
  /\ Closures = Plain \union Sessions
  /\ Commands = {Frame, Delete}
  /\ Sessions \subseteq Goroutines
  /\ Plain \intersect Sessions = {}
  /\ None \notin Commands /\ Frame # Delete
  /\ Nothing \notin Sessions \union {Other} /\ Other \notin Sessions

VARIABLES
  overlay,      \* Shell.overlay: Nothing, Other or the session it shows
  videoRegion,  \* Shell.videoRegion is not empty
  session,      \* VideoPlayer.session
  proc,         \* per session: the mpv process
  reader,       \* per session: "read", "emit" (past the current check), "done"
  reaper,       \* per session: "wait", "notify" (onExit is due), "done"
  ui,           \* how far the running UI code is with closing the overlay
  joining,      \* the session whose end Stop waits for
  image,        \* the terminal shows an image of mpv
  damaged       \* mpv has painted over cells the loop believes unchanged

videoVars == <<overlay, videoRegion, session, proc, reader, reaper, ui, joining, image, damaged>>

playerVars == <<session, proc, reader, reaper>>

vars == <<loopVars, videoVars>>

Init ==
  /\ LoopInit
  /\ overlay = Nothing /\ videoRegion = FALSE /\ session = Nothing
  /\ proc = [s \in Sessions |-> "none"]
  /\ reader = [s \in Sessions |-> "done"]
  /\ reaper = [s \in Sessions |-> "done"]
  /\ ui = "idle" /\ joining = Nothing
  /\ image = FALSE /\ damaged = FALSE

-----------------------------------------------------------------------------
(* The player's goroutines.                                                *)

ProcessExits(s) ==
  /\ proc[s] = "alive"
  /\ proc' = [proc EXCEPT ![s] = "dead"]
  /\ UNCHANGED <<loopVars, overlay, videoRegion, session, reader, reaper, ui, joining,
                 image, damaged>>

\* Output of a session that is no longer the player's is thrown away.
ReadFrame(s) ==
  /\ reader[s] = "read" /\ s \notin signalling
  /\ session = s
  /\ reader' = [reader EXCEPT ![s] = "emit"]
  /\ UNCHANGED <<loopVars, overlay, videoRegion, session, proc, reaper, ui, joining,
                 image, damaged>>

\* Mutant: the reader writes to the terminal itself.
EmitDirectly(s) ==
  /\ reader[s] = "emit"
  /\ reader' = [reader EXCEPT ![s] = "read"]
  /\ lastOut' = Frame
  /\ UNCHANGED <<posts, postsStopped, rawWrites, rawStopped, wake, signalling, dirty,
                 forceRepaint, pc, batch, flushAll, accepted, ran, lastRaw, broken>>
  /\ UNCHANGED <<overlay, videoRegion, session, proc, reaper, ui, joining, image, damaged>>

\* The check was made under the player's mutex, the write is not.
Emit(s) ==
  /\ reader[s] = "emit"
  /\ IF rawStopped THEN UNCHANGED loopVars ELSE WriteRaw(s, Frame)
  /\ reader' = [reader EXCEPT ![s] = "read"]
  /\ UNCHANGED <<overlay, videoRegion, session, proc, reaper, ui, joining, image, damaged>>

ReadFails(s) ==
  /\ reader[s] = "read" /\ s \notin signalling
  /\ proc[s] = "dead"
  /\ reader' = [reader EXCEPT ![s] = "done"]
  /\ UNCHANGED <<loopVars, overlay, videoRegion, session, proc, reaper, ui, joining,
                 image, damaged>>

\* The reaper waits for the process and the reader.  Only a session that nobody
\* stopped or replaced reports its end.
Reap(s) ==
  /\ reaper[s] = "wait"
  /\ proc[s] = "dead" /\ reader[s] = "done"
  /\ session' = IF session = s THEN Nothing ELSE session
  /\ reaper' = [reaper EXCEPT ![s] = IF session = s THEN "notify" ELSE "done"]
  /\ UNCHANGED <<loopVars, overlay, videoRegion, proc, reader, ui, joining, image, damaged>>

OnExit(s) ==
  /\ reaper[s] = "notify"
  /\ IF postsStopped THEN UNCHANGED loopVars ELSE TryPost(s, s)
  /\ reaper' = [reaper EXCEPT ![s] = "done"]
  /\ UNCHANGED <<overlay, videoRegion, session, proc, reader, ui, joining, image, damaged>>

-----------------------------------------------------------------------------
(* UI code.                                                                *)

\* Videos start from the message under the cursor or pointer, which an overlay
\* covers.  Without an overlay no session is left for Play to stop.  A start that
\* fails takes the overlay and the region back.
PlayVideo(s) ==
  /\ pc = "handling" /\ ui = "idle"
  /\ overlay = Nothing /\ proc[s] = "none"
  /\ overlay' = s
  /\ videoRegion' = TRUE
  /\ session' = s
  /\ proc' = [proc EXCEPT ![s] = "alive"]
  /\ reader' = [reader EXCEPT ![s] = "read"]
  /\ reaper' = [reaper EXCEPT ![s] = "wait"]
  /\ Invalidate
  /\ ui' = "over"
  /\ UNCHANGED <<joining, image, damaged>>

\* A prompt opened by the user, or a plugin's overlay, which its closure puts in
\* place of whatever is shown; a video under it plays on.
OpenOverlay ==
  /\ ui = "idle"
  /\ \/ pc = "handling" /\ overlay = Nothing
     \/ pc = "running" /\ Head(batch) \in Plain
  /\ overlay' = Other
  /\ Invalidate
  /\ ui' = "over"
  /\ UNCHANGED <<playerVars, videoRegion, joining, image, damaged>>

\* Stop takes the session from the player and kills its process.
Stop ==
  /\ session' = Nothing
  /\ joining' = session
  /\ proc' = IF session = Nothing THEN proc ELSE [proc EXCEPT ![session] = "dead"]
  /\ UNCHANGED <<reader, reaper>>

\* closeOverlay and Shell.Close begin alike: a video is stopped first, anything
\* else just goes away.
BeginClose ==
  /\ \/ videoRegion /\ Stop /\ ui' = "join" /\ UNCHANGED overlay
     \/ ~ videoRegion /\ overlay' = Nothing /\ ui' = "over" /\ UNCHANGED <<playerVars, joining>>
  /\ UNCHANGED <<loopVars, videoRegion, image, damaged>>

\* Escape, or a click on a toast; mpv's own end, posted by OnExit.
CloseOverlay ==
  /\ ui = "idle"
  /\ \/ pc = "handling" /\ overlay # Nothing
     \/ pc = "running" /\ Head(batch) \in Sessions
  /\ BeginClose

ShellClose == pc = "closing" /\ ui = "idle" /\ BeginClose

\* Mutant: Stop waits for mpv and not for the goroutine that reads from it.
JoinedProcess == \A s \in Sessions : joining = s => proc[s] = "dead"

Joined == \A s \in Sessions : joining = s => reaper[s] = "done"

\* The process is reaped: nothing more of it will be queued.
Join ==
  /\ ui = "join" /\ Joined
  /\ ui' = "delete"
  /\ joining' = Nothing
  /\ UNCHANGED <<loopVars, playerVars, overlay, videoRegion, image, damaged>>

DeleteImages ==
  /\ ui = "delete"
  /\ UiWriteRaw(Delete)
  /\ videoRegion' = FALSE
  /\ overlay' = Nothing
  /\ ui' = IF pc = "closing" THEN "over" ELSE "repaint"
  /\ UNCHANGED <<playerVars, joining, image, damaged>>

RepaintAll ==
  /\ ui = "repaint"
  /\ ForceRepaint
  /\ ui' = "over"
  /\ UNCHANGED <<playerVars, overlay, videoRegion, joining, image, damaged>>

-----------------------------------------------------------------------------
(* The loop, with what the terminal shows and the UI code that must be over *)
(* before the loop goes on.                                                *)

\* The closing closure of a session, and the root's Close, do run.
UiOver ==
  \/ ui = "over"
  \/ ui = "idle" /\ pc = "handling"
  \/ ui = "idle" /\ pc = "running" /\ Head(batch) \in Plain

UiReturns ==
  /\ UiOver
  /\ FinishPost \/ StopPosts \/ \E handled \in BOOLEAN : EndEvent(handled)
  /\ ui' = "idle"
  /\ UNCHANGED <<playerVars, overlay, videoRegion, joining, image, damaged>>

Write ==
  /\ Flush
  /\ image' = (Head(rawWrites) = Frame)
  /\ damaged' = (damaged \/ Head(rawWrites) = Frame)
  /\ UNCHANGED <<playerVars, overlay, videoRegion, ui, joining>>

\* A forced repaint emits every cell again.
RenderFrame ==
  /\ \E fails \in BOOLEAN :
       /\ Render(fails)
       /\ damaged' = (damaged /\ (fails \/ ~ (dirty /\ forceRepaint)))
  /\ UNCHANGED <<playerVars, overlay, videoRegion, ui, joining, image>>

OtherLoopStep ==
  /\ TakePosts \/ EndDrain \/ FlushFails \/ EndFlush \/ WakeUp \/ StopRawWrites
  /\ UNCHANGED videoVars

UiWork == Join \/ DeleteImages \/ RepaintAll

\* What the UI goroutine does without waiting for anybody to act.
UiGoroutine ==
  \/ OtherLoopStep \/ Write \/ RenderFrame \/ UiReturns \/ UiWork \/ ShellClose
  \/ pc = "running" /\ CloseOverlay

Input ==
  \/ (Event \/ Exit) /\ UNCHANGED videoVars
  \/ pc = "handling" /\ CloseOverlay
  \/ OpenOverlay
  \/ \E s \in Sessions : PlayVideo(s)

PlayerStep(s) == Emit(s) \/ ReadFails(s) \/ Reap(s) \/ OnExit(s)

\* Other goroutines post closures; the raw queue carries video only.
Elsewhere(g) == (Signal(g) \/ \E f \in Plain : g \notin Sessions /\ TryPost(g, f)) /\ UNCHANGED videoVars

Next ==
  \/ UiGoroutine
  \/ Input
  \/ \E s \in Sessions : PlayerStep(s) \/ ReadFrame(s) \/ ProcessExits(s)
  \/ \E g \in Goroutines : Elsewhere(g)

\* The UI goroutine never blocks for good; each goroutine is scheduled and a dead
\* process' terminal fails to read.  Nothing is assumed of the user or of mpv.
Fairness ==
  /\ WF_vars(UiGoroutine)
  /\ \A s \in Sessions : WF_vars(PlayerStep(s))
  /\ \A g \in Goroutines : WF_vars(Signal(g) /\ UNCHANGED videoVars)

Spec == Init /\ [][Next]_vars /\ Fairness

-----------------------------------------------------------------------------

\* Whenever the loop sleeps, a video that is closed has left no trace: neither a
\* late image nor cells the frame diff takes for unchanged.  Once the terminal has
\* been given back, no image is on it either.
ScreenRestored ==
  /\ pc = "select" /\ ~ videoRegion => ~ image /\ ~ damaged
  /\ pc = "done" /\ ~ broken => ~ image

\* The unlimited flush before a repaint ends: nobody adds to its backlog.
BacklogFinite ==
  pc = "flush" /\ flushAll =>
    session = Nothing /\ \A s \in Sessions : reader[s] = "done"

\* No playback is out of reach: one plays at most, the player knows it, and while
\* it does the region is set, which makes closeOverlay and Close stop it.  Without
\* an overlay there is none, so Play finds nothing to stop.
PlayingIsOwned ==
  /\ overlay \in Sessions \union {Other, Nothing}
  /\ \A s \in Sessions : proc[s] = "alive" => session = s
  /\ session # Nothing => videoRegion
  /\ overlay = Nothing /\ pc = "select" => ~ videoRegion

\* The overlay of a video that has ended goes away, unless the program does: the
\* closure is posted, the loop wakes for it, and Stop waits for no one in vain.
EndedCloses == \A s \in Sessions : reaper[s] = "notify" ~> overlay # s \/ pc = "done"

\* Stop returns: the goroutines it joins wait neither for the loop nor for a lock
\* it holds.
StopReturns == ui = "join" ~> ui # "join"

\* While videos start, end and are stopped over each other: no frame shows on a
\* screen that was given back, a session that plays is the one the player knows,
\* and what waits for the loop stays finite (media/video_linux.go, ui/shell.go).
VideoSafe == ScreenRestored /\ BacklogFinite /\ PlayingIsOwned

\* The overlay of a video that has ended closes, and Stop returns
\* (media/video_linux.go, ui/shell.go).
VideoEnds == EndedCloses /\ StopReturns

\* Whatever the player and the shell do to the loop, they do by its operations, so
\* that EventLoop's theorems hold with videos too: closures run first in first out
\* (media/video_linux.go, ui/shell.go, tui/tui/app.go).
ImplementsEventLoop == LoopSafe /\ ImplementsPostQueue

-----------------------------------------------------------------------------
(* The inductive invariant behind VideoSafe, on top of LoopInv.            *)

VideoTypes ==
  /\ overlay \in Sessions \union {Other, Nothing}
  /\ session \in Sessions \union {Nothing} /\ joining \in Sessions \union {Nothing}
  /\ proc \in [Sessions -> {"none", "alive", "dead"}]
  /\ reader \in [Sessions -> {"read", "emit", "done"}]
  /\ reaper \in [Sessions -> {"wait", "notify", "done"}]
  /\ ui \in {"idle", "join", "delete", "repaint", "over"}
  /\ videoRegion \in BOOLEAN /\ image \in BOOLEAN /\ damaged \in BOOLEAN

\* A reader is the player's, or Stop waits for its end.
ReaderPlaced(s) ==
  /\ reader[s] # "done" => session = s \/ (ui = "join" /\ joining = s)
  /\ reader[s] # "done" \/ proc[s] = "alive" => reaper[s] = "wait"
  /\ reaper[s] = "wait" => proc[s] # "none"
  /\ proc[s] = "alive" => session = s

\* The player's session has the region, and so has one that is being stopped.
RegionHeld ==
  /\ overlay = Nothing => ~ videoRegion
  /\ session # Nothing => videoRegion
  /\ ui \in {"join", "delete"} => videoRegion
  /\ ui \in {"join", "delete", "repaint"} => session = Nothing
  /\ ui = "repaint" => ~ videoRegion

\* Where the loop is while UI code runs.
UiPlaced ==
  /\ ui # "idle" => UiCode
  /\ pc = "closing" => ui # "repaint" /\ (ui = "over" => ~ videoRegion)

Ending == pc = "closing" \/ postsStopped

\* A repaint that is forced has a frame due, and no video plays until it is drawn.
RepaintPlaced ==
  /\ forceRepaint => dirty /\ ~ videoRegion /\ pc # "select"
  /\ forceRepaint /\ pc = "handling" => ui = "over"
  /\ pc = "flush" => flushAll = forceRepaint
  /\ pc = "render" /\ forceRepaint => rawWrites = <<>>

\* Once the region is given back, the delete is the last command, and nothing of
\* the video outlives the repaint: the queue and the cells wait for it together.
Restoring ==
  /\ image = (lastOut = Frame)
  /\ ~ videoRegion =>
       /\ lastRaw # Frame
       /\ rawWrites # <<>> \/ damaged => forceRepaint \/ ui = "repaint" \/ Ending

\* The shutdown stops the video, and its last flush writes everything.
VideoShutdown ==
  /\ broken => Ending
  /\ postsStopped => ~ videoRegion
  /\ pc = "lastFlush" => flushAll
  /\ pc = "stopRaw" /\ ~ broken => rawWrites = <<>>
  /\ pc = "done" /\ ~ broken => ~ image

VideoIInv ==
  /\ LoopInv
  /\ VideoTypes
  /\ \A s \in Sessions : ReaderPlaced(s)
  /\ RegionHeld /\ UiPlaced /\ RepaintPlaced /\ Restoring /\ VideoShutdown
=============================================================================
