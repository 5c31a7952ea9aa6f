------------------------- MODULE VideoOverlayProofs -------------------------
(* Safety of the video overlay, for any number of videos, closures and      *)
(* goroutines and any capacity of the raw queue: what player and shell do   *)
(* to the event loop they do by its operations, so that its theorems hold   *)
(* with videos too; and a closed video leaves nothing behind.               *)
EXTENDS VideoOverlay, EventLoopProofs

-----------------------------------------------------------------------------
(* The refinement.                                                          *)

\* A session's goroutine is one of the loop's, its closure one of the closures,
\* and what it draws one of the commands.
LEMMA SessionsKnown ==
  ASSUME NEW s \in Sessions
  PROVE  s \in Goroutines /\ s \in Closures /\ Frame \in Commands
BY VideoAssumption

\* The player hands the loop frames and the end of the video.
LEMMA PlayerRefines ==
  ASSUME NEW s \in Sessions, PlayerStep(s) \/ ReadFrame(s) \/ ProcessExits(s)
  PROVE  [LoopNext]_loopVars
<1>1. WriteRaw(s, Frame) \/ TryPost(s, s) => LoopNext
  BY SessionsKnown DEF LoopNext, GoroutineStep
<1>. QED BY <1>1 DEF PlayerStep, ReadFrame, ProcessExits, Emit, ReadFails, Reap, OnExit

\* UI code asks for frames, queues the delete and forces the repaint.
LEMMA UiRefines ==
  ASSUME \/ Join \/ DeleteImages \/ RepaintAll \/ ShellClose \/ CloseOverlay \/ OpenOverlay
         \/ \E s \in Sessions : PlayVideo(s)
  PROVE  [LoopNext]_loopVars
<1>1. UiWriteRaw(Delete) \/ ForceRepaint \/ Invalidate => LoopNext
  BY VideoAssumption DEF LoopNext, UiStep
<1>2. CASE Join \/ ShellClose \/ CloseOverlay
  BY <1>2 DEF Join, ShellClose, CloseOverlay, BeginClose
<1>. QED BY <1>1, <1>2 DEF DeleteImages, RepaintAll, OpenOverlay, PlayVideo

\* The loop itself goes on as without videos.
LEMMA LoopRefines ==
  ASSUME \/ OtherLoopStep \/ Write \/ RenderFrame \/ UiReturns \/ Event \/ Exit
         \/ \E g \in Goroutines : Elsewhere(g)
  PROVE  LoopNext
<1>1. LoopStep \/ Event \/ Exit => LoopNext
  BY DEF LoopNext
<1>2. ASSUME NEW g \in Goroutines, Elsewhere(g) PROVE LoopNext
  BY <1>2, VideoAssumption DEF Elsewhere, LoopNext, GoroutineStep
<1>3. CASE OtherLoopStep
  BY <1>1, <1>3 DEF OtherLoopStep, LoopStep
<1>4. CASE Write \/ RenderFrame \/ UiReturns
  BY <1>1, <1>4 DEF Write, RenderFrame, UiReturns, LoopStep
<1>. QED BY <1>1, <1>2, <1>3, <1>4

\* Every step is one of the loop's, or leaves the loop alone.
LEMMA NextRefines == [Next]_vars => [LoopNext]_loopVars
<1>1. CASE UiGoroutine
  BY <1>1, UiRefines, LoopRefines DEF UiGoroutine, UiWork
<1>2. CASE Input
  BY <1>2, UiRefines, LoopRefines DEF Input
<1>3. ASSUME NEW s \in Sessions, PlayerStep(s) \/ ReadFrame(s) \/ ProcessExits(s)
      PROVE  [LoopNext]_loopVars
  BY <1>3, PlayerRefines
<1>4. ASSUME NEW g \in Goroutines, Elsewhere(g) PROVE [LoopNext]_loopVars
  BY <1>4, LoopRefines
<1>5. CASE UNCHANGED vars
  BY <1>5 DEF vars
<1>. QED BY <1>1, <1>2, <1>3, <1>4, <1>5 DEF Next

\* The loop with videos implements the loop: mpv's reader and reaper, the shell
\* and the terminal use posts, raw commands and repaints as EventLoop lets them
\* (media/video_linux.go, ui/shell.go, tui/tui/app.go).
THEOREM LoopRefinement == Spec => ImplementsEventLoop
<1>1. Init => LoopInit
  BY DEF Init
<1>2. Spec => LoopSafe
  BY <1>1, NextRefines, PTL DEF Spec, LoopSafe
<1>. QED BY <1>2, FirstInFirstOut, PTL DEF ImplementsEventLoop

\* So the loop with videos neither sleeps on work nor strands a closure.
THEOREM LoopKept == Spec => [](NoLostWakeup /\ AcceptedRan)
BY LoopRefinement, NeverAsleepOnWork, NoneStranded, PTL DEF ImplementsEventLoop

-----------------------------------------------------------------------------
(* The inductive invariant, one lemma per kind of step.                     *)

\* There is no video at first, and no command has been written.
LEMMA InitVideo == Init => VideoIInv
<1> SUFFICES ASSUME Init PROVE VideoIInv
  OBVIOUS
<1> USE VideoAssumption DEF Init, LoopInit
<1>1. LoopInv
  BY InitLoopInv
<1>2. VideoTypes
  BY DEF VideoTypes
<1>3. \A s \in Sessions : ReaderPlaced(s)
  BY DEF ReaderPlaced
<1>4. None # Frame
  OBVIOUS
<1>5. RegionHeld /\ UiPlaced /\ RepaintPlaced /\ Restoring /\ VideoShutdown
  BY <1>4 DEF RegionHeld, UiPlaced, RepaintPlaced, Restoring, VideoShutdown, Ending
<1>. QED BY <1>1, <1>2, <1>3, <1>5 DEF VideoIInv

\* mpv dies, its reader looks at the session or ends, the reaper follows.
LEMMA PlayerVideo ==
  ASSUME VideoIInv, LoopInv', NEW s \in Sessions,
         ProcessExits(s) \/ ReadFrame(s) \/ ReadFails(s) \/ Reap(s)
  PROVE  VideoIInv'
<1> USE DEF VideoIInv
<1>1. UNCHANGED <<loopVars, overlay, videoRegion, ui, joining, image, damaged>>
  BY DEF ProcessExits, ReadFrame, ReadFails, Reap
<1>2. session' = session \/ session' = Nothing
  BY DEF ProcessExits, ReadFrame, ReadFails, Reap
<1>3. VideoTypes'
  BY <1>1 DEF VideoTypes, ProcessExits, ReadFrame, ReadFails, Reap
<1>4. \A t \in Sessions : ReaderPlaced(t)'
  BY <1>1 DEF VideoTypes, ReaderPlaced, ProcessExits, ReadFrame, ReadFails, Reap
<1>5. RegionHeld' /\ UiPlaced' /\ RepaintPlaced' /\ Restoring' /\ VideoShutdown'
  BY <1>1, <1>2 DEF RegionHeld, UiPlaced, UiCode, RepaintPlaced, Restoring, VideoShutdown,
                    Ending, loopVars
<1>. QED BY <1>3, <1>4, <1>5

\* A reader that emits has the region: no repaint is due and the loop goes on.
LEMMA EmitVideo ==
  ASSUME VideoIInv, LoopInv', NEW s \in Sessions, Emit(s)
  PROVE  VideoIInv'
<1> USE DEF VideoIInv, Emit
<1>1. videoRegion /\ ~ forceRepaint /\ ~ postsStopped
  BY VideoAssumption DEF ReaderPlaced, RegionHeld, RepaintPlaced, VideoShutdown
<1>2. pc # "stopRaw"
  BY <1>1 DEF LoopInv, Shutdown
<1>3. UNCHANGED <<pc, postsStopped, forceRepaint, dirty, flushAll, lastOut, broken, overlay,
                  videoRegion, session, proc, reaper, ui, joining, image, damaged>>
  BY DEF WriteRaw, QueueRaw, loopVars
<1>4. VideoTypes'
  BY <1>3 DEF VideoTypes
<1>5. \A t \in Sessions : ReaderPlaced(t)'
  BY <1>3 DEF VideoTypes, ReaderPlaced
<1>6. RegionHeld' /\ UiPlaced' /\ RepaintPlaced' /\ Restoring' /\ VideoShutdown'
  BY <1>1, <1>2, <1>3 DEF RegionHeld, UiPlaced, UiCode, RepaintPlaced, Restoring,
                          VideoShutdown, Ending
<1>. QED BY <1>4, <1>5, <1>6

\* A closure in the queue, and a token in the channel, are nothing to the video.
LEMMA PostVideo ==
  ASSUME VideoIInv, LoopInv', UNCHANGED <<overlay, videoRegion, session, proc, reader, ui,
         joining, image, damaged>>,
         UNCHANGED <<postsStopped, rawWrites, dirty, forceRepaint, pc, flushAll, lastRaw,
                     lastOut, broken>>,
         \/ UNCHANGED reaper
         \/ \E s \in Sessions : reaper[s] = "notify" /\ reaper' = [reaper EXCEPT ![s] = "done"]
  PROVE  VideoIInv'
<1> USE DEF VideoIInv
<1>1. VideoTypes'
  BY DEF VideoTypes
<1>2. \A t \in Sessions : ReaderPlaced(t)'
  BY DEF VideoTypes, ReaderPlaced
<1>3. RegionHeld' /\ UiPlaced' /\ RepaintPlaced' /\ Restoring' /\ VideoShutdown'
  BY DEF RegionHeld, UiPlaced, UiCode, RepaintPlaced, Restoring, VideoShutdown, Ending
<1>. QED BY <1>1, <1>2, <1>3

\* Play begins where no overlay is, and so no other video, and no repaint is due.
LEMMA PlayVideoVideo ==
  ASSUME VideoIInv, LoopInv', NEW s \in Sessions, PlayVideo(s)
  PROVE  VideoIInv'
<1> USE VideoAssumption DEF VideoIInv, PlayVideo
<1>1. session = Nothing /\ ~ videoRegion /\ ~ forceRepaint /\ ~ postsStopped /\ pc = "handling"
  BY DEF RegionHeld, RepaintPlaced, LoopInv, Shutdown
<1>2. /\ dirty' = TRUE /\ forceRepaint' = forceRepaint
      /\ UNCHANGED <<postsStopped, rawWrites, pc, flushAll, lastRaw, lastOut, broken>>
  BY <1>1 DEF Invalidate, UiRepaint, LoopInv, TypeOK
<1>3. VideoTypes'
  BY DEF VideoTypes
<1>4. \A t \in Sessions : ReaderPlaced(t)'
  BY <1>1 DEF VideoTypes, ReaderPlaced
<1>5. RegionHeld' /\ UiPlaced' /\ RepaintPlaced' /\ Restoring' /\ VideoShutdown'
  BY <1>1, <1>2 DEF RegionHeld, UiPlaced, UiCode, RepaintPlaced, Restoring, VideoShutdown, Ending
<1>. QED BY <1>3, <1>4, <1>5

\* Another overlay covers whatever is shown.
LEMMA OpenVideo ==
  ASSUME VideoIInv, LoopInv', OpenOverlay
  PROVE  VideoIInv'
<1> USE VideoAssumption DEF VideoIInv, OpenOverlay
<1>1. /\ dirty' = TRUE /\ pc \in {"handling", "running"} /\ ui = "idle" /\ ui' = "over"
      /\ forceRepaint \in BOOLEAN /\ forceRepaint' = forceRepaint
      /\ UNCHANGED <<postsStopped, rawWrites, pc, flushAll, lastRaw, lastOut, broken>>
      /\ UNCHANGED <<session, proc, reader, reaper, videoRegion, joining, image, damaged>>
  BY DEF Invalidate, UiRepaint, LoopInv, TypeOK, playerVars
<1>2. VideoTypes'
  BY <1>1 DEF VideoTypes
<1>3. \A t \in Sessions : ReaderPlaced(t)'
  BY <1>1 DEF ReaderPlaced
<1>4. RegionHeld' /\ UiPlaced' /\ RepaintPlaced' /\ Restoring' /\ VideoShutdown'
  BY <1>1 DEF RegionHeld, UiPlaced, UiCode, RepaintPlaced, Restoring, VideoShutdown, Ending
<1>. QED BY <1>2, <1>3, <1>4

\* Closing takes the session from the player, or has nothing to stop.
LEMMA CloseVideo ==
  ASSUME VideoIInv, LoopInv', CloseOverlay \/ ShellClose
  PROVE  VideoIInv'
<1> USE VideoAssumption DEF VideoIInv
<1>1. /\ pc \in {"handling", "running", "closing"} /\ ui = "idle" /\ BeginClose
      /\ UNCHANGED <<postsStopped, rawWrites, dirty, forceRepaint, pc, flushAll, lastRaw,
                     lastOut, broken, videoRegion, image, damaged, reader, reaper>>
  BY DEF CloseOverlay, ShellClose, BeginClose, Stop, loopVars, playerVars
<1>2. CASE videoRegion
  <2>1. /\ session' = Nothing /\ joining' = session /\ ui' = "join" /\ overlay' = overlay
        /\ proc' = IF session = Nothing THEN proc ELSE [proc EXCEPT ![session] = "dead"]
    BY <1>1, <1>2 DEF BeginClose, Stop
  <2>2. VideoTypes'
    BY <1>1, <2>1 DEF VideoTypes
  <2>3. \A t \in Sessions : ReaderPlaced(t)'
    BY <1>1, <2>1 DEF VideoTypes, ReaderPlaced
  <2>4. RegionHeld' /\ UiPlaced' /\ RepaintPlaced' /\ Restoring' /\ VideoShutdown'
    BY <1>1, <1>2, <2>1 DEF RegionHeld, UiPlaced, UiCode, RepaintPlaced, Restoring,
                            VideoShutdown, Ending
  <2>. QED BY <2>2, <2>3, <2>4
<1>3. CASE ~ videoRegion
  <2>1. overlay' = Nothing /\ ui' = "over" /\ UNCHANGED <<session, proc, joining>>
    BY <1>1, <1>3 DEF BeginClose, playerVars
  <2>2. VideoTypes'
    BY <1>1, <2>1 DEF VideoTypes
  <2>3. \A t \in Sessions : ReaderPlaced(t)'
    BY <1>1, <2>1 DEF ReaderPlaced
  <2>4. RegionHeld' /\ UiPlaced' /\ RepaintPlaced' /\ Restoring' /\ VideoShutdown'
    BY <1>1, <1>3, <2>1 DEF RegionHeld, UiPlaced, UiCode, RepaintPlaced, Restoring,
                            VideoShutdown, Ending
  <2>. QED BY <2>2, <2>3, <2>4
<1>. QED BY <1>2, <1>3

\* The session that Stop has waited for has no reader any more.
LEMMA JoinVideo ==
  ASSUME VideoIInv, LoopInv', Join
  PROVE  VideoIInv'
<1> USE VideoAssumption DEF VideoIInv, Join
<1>1. session = Nothing /\ \A s \in Sessions : reader[s] = "done"
  BY DEF RegionHeld, ReaderPlaced, Joined
<1>2. UNCHANGED <<postsStopped, rawWrites, dirty, forceRepaint, pc, flushAll, lastRaw,
                  lastOut, broken, session, proc, reader, reaper>>
  BY DEF loopVars, playerVars
<1>3. VideoTypes'
  BY <1>2 DEF VideoTypes
<1>4. \A t \in Sessions : ReaderPlaced(t)'
  BY <1>1, <1>2 DEF ReaderPlaced
<1>5. RegionHeld' /\ UiPlaced' /\ RepaintPlaced' /\ Restoring' /\ VideoShutdown'
  BY <1>1, <1>2 DEF RegionHeld, UiPlaced, UiCode, RepaintPlaced, Restoring, VideoShutdown, Ending
<1>. QED BY <1>3, <1>4, <1>5

\* The delete is the last command, and the repaint or the end of the loop is due.
LEMMA DeleteVideo ==
  ASSUME VideoIInv, LoopInv', DeleteImages
  PROVE  VideoIInv'
<1> USE VideoAssumption DEF VideoIInv, DeleteImages
<1>1. /\ pc \in {"handling", "running", "closing"} /\ lastRaw' = Delete /\ ui = "delete"
      /\ UNCHANGED <<postsStopped, dirty, forceRepaint, pc, flushAll, lastOut, broken>>
      /\ UNCHANGED <<session, proc, reader, reaper, joining, image, damaged>>
      /\ ~ videoRegion' /\ overlay' = Nothing
      /\ ui' = IF pc = "closing" THEN "over" ELSE "repaint"
  BY DEF UiWriteRaw, QueueRaw, UiCode, playerVars
<1>2. videoRegion /\ session = Nothing /\ ~ forceRepaint
  BY <1>1 DEF RegionHeld, RepaintPlaced
<1>3. VideoTypes'
  BY <1>1 DEF VideoTypes
<1>4. \A t \in Sessions : ReaderPlaced(t)'
  BY <1>1 DEF ReaderPlaced
<1>5. RegionHeld' /\ UiPlaced' /\ RepaintPlaced' /\ Restoring' /\ VideoShutdown'
  BY <1>1, <1>2 DEF RegionHeld, UiPlaced, UiCode, RepaintPlaced, Restoring, VideoShutdown, Ending
<1>. QED BY <1>3, <1>4, <1>5

\* The repaint is due from here.
LEMMA RepaintVideo ==
  ASSUME VideoIInv, LoopInv', RepaintAll
  PROVE  VideoIInv'
<1> USE VideoAssumption DEF VideoIInv, RepaintAll
<1>1. /\ ~ videoRegion /\ session = Nothing /\ pc \in {"handling", "running"}
      /\ forceRepaint' /\ dirty' /\ ui' = "over"
      /\ UNCHANGED <<postsStopped, rawWrites, pc, flushAll, lastRaw, lastOut, broken>>
      /\ UNCHANGED <<session, proc, reader, reaper, overlay, videoRegion, joining, image, damaged>>
  BY DEF ForceRepaint, UiRepaint, UiCode, RegionHeld, UiPlaced, playerVars
<1>2. VideoTypes'
  BY <1>1 DEF VideoTypes
<1>3. \A t \in Sessions : ReaderPlaced(t)'
  BY <1>1 DEF ReaderPlaced
<1>4. RegionHeld' /\ UiPlaced'
  BY <1>1 DEF RegionHeld, UiPlaced, UiCode
<1>5. RepaintPlaced'
  <2>1. dirty' /\ ~ videoRegion' /\ pc' \in {"handling", "running"} /\ ui' = "over"
    BY <1>1
  <2>2. /\ pc' # "select" /\ pc' # "flush" /\ pc' # "render"
    BY <2>1
  <2>. QED BY <2>1, <2>2 DEF RepaintPlaced
<1>6. Restoring' /\ VideoShutdown'
  BY <1>1 DEF Restoring, VideoShutdown, Ending
<1>. QED BY <1>2, <1>3, <1>4, <1>5, <1>6

\* Closures are taken, the loop sleeps, wakes, and refuses what comes late.  When
\* the raw queue is given up it is empty, or the terminal is lost.
LEMMA OtherVideo ==
  ASSUME VideoIInv, LoopInv', OtherLoopStep \/ ((Event \/ Exit) /\ UNCHANGED videoVars)
  PROVE  VideoIInv'
<1> USE VideoAssumption DEF VideoIInv
<1>1. UNCHANGED <<overlay, videoRegion, session, proc, reader, reaper, ui, joining, image, damaged>>
  BY DEF OtherLoopStep, videoVars
<1>2. VideoTypes' /\ \A t \in Sessions : ReaderPlaced(t)'
  BY <1>1 DEF VideoTypes, ReaderPlaced
<1>3. ui = "idle"
  BY DEF OtherLoopStep, TakePosts, EndDrain, FlushFails, TakeRaw, Flushing, EndFlush, WakeUp,
         StopRawWrites, Event, Exit, UiPlaced, UiCode
<1>4. RegionHeld' /\ UiPlaced'
  BY <1>1, <1>3 DEF RegionHeld, UiPlaced
<1>5. CASE TakePosts \/ WakeUp \/ ((Event \/ Exit) /\ UNCHANGED videoVars)
  <2>1. /\ \/ pc = "drain" /\ pc' = "running"
           \/ pc = "select" /\ pc' \in {"drain", "handling", "closing"}
        /\ UNCHANGED <<postsStopped, rawWrites, dirty, forceRepaint, flushAll, lastRaw, lastOut, broken>>
    BY <1>5 DEF TakePosts, WakeUp, Event, Exit, GoTo
  <2>2. RepaintPlaced' /\ Restoring' /\ VideoShutdown'
    BY <1>1, <1>3, <2>1 DEF RepaintPlaced, Restoring, VideoShutdown, Ending
  <2>. QED BY <1>2, <1>4, <2>2
<1>6. CASE EndDrain
  <2>1. postsStopped \in BOOLEAN /\ forceRepaint \in BOOLEAN
    BY DEF LoopInv, TypeOK
  <2>2. RepaintPlaced' /\ Restoring' /\ VideoShutdown'
    BY <1>1, <1>3, <1>6, <2>1 DEF EndDrain, RepaintPlaced, Restoring, VideoShutdown, Ending
  <2>. QED BY <1>2, <1>4, <2>2
<1>7. CASE FlushFails
  <2>1. /\ \/ pc = "flush" /\ pc' = "closing"
           \/ pc = "lastFlush" /\ pc' = "stopRaw" /\ postsStopped
        /\ broken' = TRUE
        /\ UNCHANGED <<postsStopped, dirty, forceRepaint, flushAll, lastRaw, lastOut>>
    BY <1>7 DEF FlushFails, TakeRaw, Flushing, LoopInv, Shutdown
  <2>2. RepaintPlaced' /\ Restoring' /\ VideoShutdown'
    BY <1>1, <1>3, <2>1 DEF RepaintPlaced, Restoring, VideoShutdown, Ending
  <2>. QED BY <1>2, <1>4, <2>2
<1>8. CASE EndFlush
  BY <1>1, <1>2, <1>3, <1>4, <1>8
     DEF EndFlush, Flushing, AfterFlush, RepaintPlaced, Restoring, VideoShutdown, Ending
<1>9. CASE StopRawWrites
  <2>1. pc = "stopRaw" /\ pc' = "done" /\ rawWrites' = <<>> /\ postsStopped
        /\ UNCHANGED <<postsStopped, dirty, forceRepaint, flushAll, lastRaw, lastOut, broken>>
    BY <1>9 DEF StopRawWrites, LoopInv, Shutdown
  <2>2. ~ broken => ~ image
    BY <2>1 DEF LoopInv, Shutdown, NewestSurvives, VideoShutdown, Restoring
  <2>3. RepaintPlaced' /\ Restoring' /\ VideoShutdown'
    BY <1>1, <1>3, <2>1, <2>2 DEF RepaintPlaced, Restoring, VideoShutdown, Ending
  <2>. QED BY <1>2, <1>4, <2>3
<1>. QED BY <1>5, <1>6, <1>7, <1>8, <1>9 DEF OtherLoopStep

\* A frame is written over a screen that a repaint will restore, or for a video
\* that still has it: what is written without the region waits for the repaint.
LEMMA WriteVideo ==
  ASSUME VideoIInv, LoopInv', Write
  PROVE  VideoIInv'
<1> USE VideoAssumption DEF VideoIInv
<1>1. /\ pc \in {"flush", "lastFlush"} /\ rawWrites # <<>>
      /\ pc' = IF flushAll THEN pc ELSE AfterFlush
      /\ lastOut' = Head(rawWrites) /\ image' = (Head(rawWrites) = Frame)
      /\ damaged' = (damaged \/ Head(rawWrites) = Frame)
      /\ UNCHANGED <<postsStopped, dirty, forceRepaint, flushAll, lastRaw, broken>>
      /\ UNCHANGED <<overlay, videoRegion, session, proc, reader, reaper, ui, joining>>
  BY DEF Write, Flush, TakeRaw, Flushing, playerVars
<1>2. ui = "idle" /\ (pc = "lastFlush" => flushAll) /\ (pc = "flush" => flushAll = forceRepaint)
  BY <1>1 DEF UiPlaced, UiCode, VideoShutdown, RepaintPlaced
<1>3. pc' \in {"flush", "lastFlush", "render"} /\ (pc' = "render" => ~ forceRepaint)
      /\ (pc' # "render" => pc' = pc)
  BY <1>1, <1>2 DEF AfterFlush
<1>4. VideoTypes'
  BY <1>1 DEF VideoTypes
<1>5. \A t \in Sessions : ReaderPlaced(t)'
  BY <1>1 DEF ReaderPlaced
<1>6. ~ videoRegion => forceRepaint \/ postsStopped
  BY <1>1, <1>2 DEF Restoring, Ending
<1>7. Restoring'
  BY <1>1, <1>6 DEF Restoring, Ending
<1>8. RegionHeld' /\ UiPlaced' /\ RepaintPlaced' /\ VideoShutdown'
  BY <1>1, <1>2, <1>3 DEF RegionHeld, UiPlaced, RepaintPlaced, VideoShutdown, Ending
<1>. QED BY <1>4, <1>5, <1>7, <1>8

\* The repaint restores every cell; the loop sleeps with the queue written out.
LEMMA RenderVideo ==
  ASSUME VideoIInv, LoopInv', RenderFrame
  PROVE  VideoIInv'
<1> USE VideoAssumption DEF VideoIInv
<1>1. PICK fails \in BOOLEAN :
        /\ Render(fails)
        /\ damaged' = (damaged /\ (fails \/ ~ (dirty /\ forceRepaint)))
  BY DEF RenderFrame
<1>2. /\ pc = "render" /\ pc' = IF fails THEN "closing" ELSE "select"
      /\ broken' = (broken \/ fails) /\ forceRepaint' = (forceRepaint /\ ~ dirty)
      /\ UNCHANGED <<postsStopped, rawWrites, flushAll, lastRaw, lastOut>>
      /\ UNCHANGED <<overlay, videoRegion, session, proc, reader, reaper, ui, joining, image>>
  BY <1>1 DEF Render, RenderFrame, playerVars
<1>3. ui = "idle" /\ ~ postsStopped /\ ~ broken /\ (forceRepaint => dirty)
  BY <1>2 DEF UiPlaced, UiCode, LoopInv, Shutdown, VideoShutdown, RepaintPlaced, Ending
<1>4. VideoTypes' /\ \A t \in Sessions : ReaderPlaced(t)'
  BY <1>1, <1>2 DEF VideoTypes, ReaderPlaced
<1>5. ~ forceRepaint'
  BY <1>2, <1>3
<1>6. ~ videoRegion /\ ~ fails => rawWrites = <<>> /\ ~ damaged'
  BY <1>1, <1>2, <1>3 DEF Restoring, RepaintPlaced, Ending
<1>7. Restoring'
  BY <1>2, <1>6 DEF Restoring, Ending
<1>8. RegionHeld' /\ UiPlaced' /\ RepaintPlaced' /\ VideoShutdown'
  BY <1>2, <1>3, <1>5 DEF RegionHeld, UiPlaced, RepaintPlaced, VideoShutdown, Ending
<1>. QED BY <1>4, <1>7, <1>8

\* UI code returns after it has closed what it closes; the root's Close, too.
LEMMA ReturnVideo ==
  ASSUME VideoIInv, LoopInv', UiReturns
  PROVE  VideoIInv'
<1> USE VideoAssumption DEF VideoIInv
<1>1. /\ ui \in {"over", "idle"} /\ ui' = "idle" /\ pc' \in {"drain", "running"}
      /\ pc = "closing" => ui = "over"
      /\ UNCHANGED <<rawWrites, forceRepaint, flushAll, lastRaw, lastOut, broken>>
      /\ UNCHANGED <<overlay, videoRegion, session, proc, reader, reaper, joining, image, damaged>>
  BY DEF UiReturns, UiOver, FinishPost, StopPosts, EndEvent, GoTo, playerVars
<1>2. /\ dirty => dirty'
      /\ \/ pc # "closing" /\ postsStopped' = postsStopped
         \/ pc = "closing" /\ postsStopped' = TRUE
  <2>1. CASE FinishPost
    BY <2>1 DEF FinishPost
  <2>2. CASE StopPosts
    BY <2>2 DEF StopPosts
  <2>3. ASSUME NEW handled \in BOOLEAN, EndEvent(handled)
        PROVE  dirty' = (dirty \/ handled) /\ pc = "handling" /\ postsStopped' = postsStopped
    BY <2>3 DEF EndEvent, GoTo
  <2>. QED BY <2>1, <2>2, <2>3 DEF UiReturns
<1>3. VideoTypes' /\ \A t \in Sessions : ReaderPlaced(t)'
  BY <1>1 DEF VideoTypes, ReaderPlaced
<1>4. RegionHeld' /\ UiPlaced' /\ RepaintPlaced'
  BY <1>1, <1>2 DEF RegionHeld, UiPlaced, RepaintPlaced
<1>5. Restoring' /\ VideoShutdown'
  BY <1>1, <1>2 DEF Restoring, VideoShutdown, Ending, UiPlaced
<1>. QED BY <1>3, <1>4, <1>5

\* Every step keeps the invariant; the loop's part follows from the refinement.
LEMMA NextVideo == VideoIInv /\ [Next]_vars => VideoIInv'
<1> SUFFICES ASSUME VideoIInv, [Next]_vars PROVE VideoIInv'
  OBVIOUS
<1>1. LoopInv'
  BY NextRefines, NextLoopInv DEF VideoIInv
<1>2. CASE UiGoroutine
  BY <1>1, <1>2, OtherVideo, WriteVideo, RenderVideo, ReturnVideo, JoinVideo, DeleteVideo,
     RepaintVideo, CloseVideo DEF UiGoroutine, UiWork
<1>3. CASE Input
  BY <1>1, <1>3, OtherVideo, CloseVideo, OpenVideo, PlayVideoVideo DEF Input
<1>4. ASSUME NEW s \in Sessions, PlayerStep(s) \/ ReadFrame(s) \/ ProcessExits(s)
      PROVE  VideoIInv'
  <2>1. CASE OnExit(s)
    BY <1>1, <2>1, PostVideo DEF OnExit, TryPost, Post, loopVars
  <2>. QED BY <1>1, <1>4, <2>1, PlayerVideo, EmitVideo DEF PlayerStep
<1>5. ASSUME NEW g \in Goroutines, Elsewhere(g) PROVE VideoIInv'
  BY <1>1, <1>5, PostVideo DEF Elsewhere, Signal, TryPost, Post, videoVars
<1>6. CASE UNCHANGED vars
  BY <1>1, <1>6, PostVideo DEF vars, loopVars, videoVars
<1>. QED BY <1>2, <1>3, <1>4, <1>5, <1>6 DEF Next

\* VideoIInv holds in every state.
THEOREM VideoInvariance == Spec => []VideoIInv
BY InitVideo, NextVideo, PTL DEF Spec

\* Whenever the loop sleeps, a video that was closed has left no image and no cell
\* it painted; the flush before a repaint ends; a video that plays is the player's,
\* which the overlay's or the shell's Close will stop (media/video_linux.go, ui/shell.go).
THEOREM VideoSafety == Spec => []VideoSafe
<1>1. VideoIInv => VideoSafe
  <2> SUFFICES ASSUME VideoIInv PROVE VideoSafe
    OBVIOUS
  <2> USE VideoAssumption DEF VideoIInv
  <2>1. ScreenRestored
    <3>1. ASSUME pc = "select", ~ videoRegion PROVE ~ image /\ ~ damaged
      <4>1. ~ forceRepaint /\ ui = "idle" /\ ~ postsStopped /\ ~ rawStopped
        BY <3>1 DEF RepaintPlaced, UiPlaced, UiCode, LoopInv, Shutdown
      <4>2. rawWrites = <<>> /\ ~ damaged /\ lastRaw # Frame /\ ~ broken
        BY <3>1, <4>1 DEF Restoring, VideoShutdown, Ending
      <4>. QED BY <4>1, <4>2 DEF LoopInv, NewestSurvives, Restoring
    <3>. QED BY <3>1 DEF ScreenRestored, VideoShutdown
  <2>2. BacklogFinite
    <3> SUFFICES ASSUME pc = "flush", flushAll
                 PROVE  session = Nothing /\ \A s \in Sessions : reader[s] = "done"
      BY DEF BacklogFinite
    <3>1. session = Nothing /\ ui = "idle"
      BY DEF RepaintPlaced, RegionHeld, UiPlaced, UiCode
    <3>. QED BY <3>1 DEF ReaderPlaced
  <2>3. PlayingIsOwned
    BY DEF PlayingIsOwned, VideoTypes, ReaderPlaced, RegionHeld
  <2>. QED BY <2>1, <2>2, <2>3 DEF VideoSafe
<1>. QED BY <1>1, VideoInvariance, PTL
=============================================================================
