----------------------------- MODULE EventLoop -----------------------------
(***************************************************************************)
(* The goroutine that owns the screen (internal/tui/tui/app.go: TryPost,   *)
(* WriteRaw, takeRaw, run, drainPosts, signal).  Other goroutines hand it  *)
(* closures and raw terminal commands under a mutex and then poke a wake   *)
(* channel of capacity one.  It runs the closures, writes raw commands,    *)
(* renders when the frame is dirty and sleeps until it is woken or an      *)
(* input event or tick arrives.  On exit it closes the root widget,        *)
(* refuses new closures, runs those it has accepted and writes what is     *)
(* left of the raw commands.                                               *)
(*                                                                         *)
(* A closure and an event handler are stretches of UI code during which    *)
(* the loop itself may post, write raw commands and ask for a repaint;     *)
(* VideoOverlay says which.  Only such code calls Invalidate and           *)
(* ForceRepaint, as all of their callers run on this goroutine.            *)
(***************************************************************************)
EXTENDS Naturals, Sequences

CONSTANTS
  Closures,    \* closures, each of them posted at most once
  Commands,    \* kinds of raw commands
  Goroutines,  \* the goroutines other than the loop's
  MaxRaw,      \* maxRawWrites, 8 in the code
  None         \* no command yet

ASSUME EventLoopAssumption == MaxRaw \in Nat \ {0}

VARIABLES
  posts, postsStopped,    \* the queue of closures
  rawWrites, rawStopped,  \* the queue of raw commands
  wake,                   \* the wake channel holds its token
  signalling,             \* goroutines between their unlock and their signal
  dirty, forceRepaint,
  pc,                     \* where the loop is
  batch,                  \* the closures drainPosts took; its head is running
  flushAll,               \* rawLimit of this turn is unlimited
  accepted, ran,          \* history: closures accepted and closures run
  lastRaw, lastOut,       \* history: last command queued, last command written
  broken                  \* history: a write to the terminal failed

loopVars == <<posts, postsStopped, rawWrites, rawStopped, wake, signalling, dirty,
              forceRepaint, pc, batch, flushAll, accepted, ran, lastRaw, lastOut, broken>>

Pc == {"drain", "running", "flush", "render", "select", "handling", "closing",
       "lastFlush", "stopRaw", "done"}

\* a.run starts with Invalidate.  Posts made before it wait in the queue.
LoopInit ==
  /\ posts = <<>> /\ postsStopped = FALSE
  /\ rawWrites = <<>> /\ rawStopped = FALSE
  /\ wake = TRUE
  /\ signalling = {}
  /\ dirty = TRUE /\ forceRepaint = FALSE
  /\ pc = "drain"
  /\ batch = <<>>
  /\ flushAll = FALSE
  /\ accepted = <<>> /\ ran = <<>>
  /\ lastRaw = None /\ lastOut = None
  /\ broken = FALSE

Fresh(f) == \A i \in DOMAIN accepted : accepted[i] # f

-----------------------------------------------------------------------------
(* The queues.  The caller signals after it has released the mutex: other  *)
(* goroutines in a step of their own, the loop before it does anything else. *)

\* A refused closure changes nothing and needs no action.
Post(f) ==
  /\ ~ postsStopped
  /\ Fresh(f)
  /\ posts' = Append(posts, f)
  /\ accepted' = Append(accepted, f)
  /\ UNCHANGED <<postsStopped, rawWrites, rawStopped, dirty, forceRepaint, pc, batch,
                 flushAll, ran, lastRaw, lastOut, broken>>

\* A full queue drops its oldest command, whole.
Enqueue(queue, c) ==
  IF Len(queue) < MaxRaw THEN Append(queue, c) ELSE Append(Tail(queue), c)

QueueRaw(c) ==
  /\ ~ rawStopped
  /\ rawWrites' = Enqueue(rawWrites, c)
  /\ lastRaw' = c
  /\ UNCHANGED <<posts, postsStopped, rawStopped, dirty, forceRepaint, pc, batch,
                 flushAll, accepted, ran, lastOut, broken>>

SignalLater(g) ==
  /\ g \notin signalling
  /\ signalling' = signalling \union {g}
  /\ UNCHANGED wake

SignalNow == wake' = TRUE /\ UNCHANGED signalling

\* Mutant: the closure is queued and the loop not woken.
TryPostSilently(g, f) == Post(f) /\ g \notin signalling /\ UNCHANGED <<wake, signalling>>

TryPost(g, f) == Post(f) /\ SignalLater(g)

WriteRaw(g, c) == QueueRaw(c) /\ SignalLater(g)

\* The token is dropped when the channel already holds one.
Signal(g) ==
  /\ g \in signalling
  /\ signalling' = signalling \ {g}
  /\ wake' = TRUE
  /\ UNCHANGED <<posts, postsStopped, rawWrites, rawStopped, dirty, forceRepaint, pc,
                 batch, flushAll, accepted, ran, lastRaw, lastOut, broken>>

-----------------------------------------------------------------------------
(* UI code: a closure, an event handler, or the root's Close.              *)

UiCode == pc \in {"running", "handling", "closing"}

UiPost(f) == UiCode /\ Post(f) /\ SignalNow

UiWriteRaw(c) == UiCode /\ QueueRaw(c) /\ SignalNow

UiRepaint(force) ==
  /\ UiCode
  /\ dirty' = TRUE
  /\ forceRepaint' = (forceRepaint \/ force)
  /\ SignalNow
  /\ UNCHANGED <<posts, postsStopped, rawWrites, rawStopped, pc, batch, flushAll,
                 accepted, ran, lastRaw, lastOut, broken>>

ForceRepaint == UiRepaint(TRUE)

Invalidate == UiRepaint(FALSE)

-----------------------------------------------------------------------------
(* The loop.                                                               *)

\* Mutant: a.posts is not reset.
TakePostsAgain ==
  /\ pc = "drain" /\ posts # <<>>
  /\ batch' = posts
  /\ pc' = "running"
  /\ UNCHANGED <<posts, postsStopped, rawWrites, rawStopped, wake, signalling, dirty,
                 forceRepaint, flushAll, accepted, ran, lastRaw, lastOut, broken>>

TakePosts ==
  /\ pc = "drain" /\ posts # <<>>
  /\ batch' = posts
  /\ posts' = <<>>
  /\ pc' = "running"
  /\ UNCHANGED <<postsStopped, rawWrites, rawStopped, wake, signalling, dirty,
                 forceRepaint, flushAll, accepted, ran, lastRaw, lastOut, broken>>

\* The running closure returns; after the last of the batch the queue is read again.
FinishPost ==
  /\ pc = "running"
  /\ ran' = Append(ran, Head(batch))
  /\ batch' = Tail(batch)
  /\ pc' = IF Tail(batch) = <<>> THEN "drain" ELSE "running"
  /\ dirty' = (dirty \/ Tail(batch) = <<>>)
  /\ UNCHANGED <<posts, postsStopped, rawWrites, rawStopped, wake, signalling,
                 forceRepaint, flushAll, accepted, lastRaw, lastOut, broken>>

\* The queue is empty.  The turn goes on with the raw commands, all of them if a
\* repaint is pending; the drain of the shutdown with what is left of them.
EndDrain ==
  /\ pc = "drain" /\ posts = <<>>
  /\ pc' = IF postsStopped THEN "lastFlush" ELSE "flush"
  /\ flushAll' = (postsStopped \/ forceRepaint)
  /\ UNCHANGED <<posts, postsStopped, rawWrites, rawStopped, wake, signalling, dirty,
                 forceRepaint, batch, accepted, ran, lastRaw, lastOut, broken>>

Flushing == pc \in {"flush", "lastFlush"}

AfterFlush == IF pc = "flush" THEN "render" ELSE "stopRaw"

\* Mutant: no signal for the commands that are left.
TakeRawSilently ==
  /\ Flushing /\ rawWrites # <<>>
  /\ rawWrites' = Tail(rawWrites)
  /\ UNCHANGED <<posts, postsStopped, rawStopped, wake, signalling, dirty, forceRepaint,
                 batch, flushAll, accepted, ran, lastRaw>>

TakeRaw ==
  /\ Flushing /\ rawWrites # <<>>
  /\ rawWrites' = Tail(rawWrites)
  /\ wake' = (wake \/ Len(rawWrites) > 1)
  /\ UNCHANGED <<posts, postsStopped, rawStopped, signalling, dirty, forceRepaint,
                 batch, flushAll, accepted, ran, lastRaw>>

Flush ==
  /\ TakeRaw
  /\ lastOut' = Head(rawWrites)
  /\ pc' = IF flushAll THEN pc ELSE AfterFlush
  /\ UNCHANGED broken

\* The terminal refuses the command: the loop exits, the last flush gives up.
FlushFails ==
  /\ TakeRaw
  /\ pc' = IF pc = "flush" THEN "closing" ELSE "stopRaw"
  /\ broken' = TRUE
  /\ UNCHANGED lastOut

EndFlush ==
  /\ Flushing /\ rawWrites = <<>>
  /\ pc' = AfterFlush
  /\ UNCHANGED <<posts, postsStopped, rawWrites, rawStopped, wake, signalling, dirty,
                 forceRepaint, batch, flushAll, accepted, ran, lastRaw, lastOut, broken>>

\* A frame is drawn if one is due; it may fail to reach the terminal.
Render(fails) ==
  /\ pc = "render"
  /\ fails => dirty
  /\ dirty' = FALSE
  /\ forceRepaint' = (forceRepaint /\ ~ dirty)
  /\ pc' = IF fails THEN "closing" ELSE "select"
  /\ broken' = (broken \/ fails)
  /\ UNCHANGED <<posts, postsStopped, rawWrites, rawStopped, wake, signalling, batch,
                 flushAll, accepted, ran, lastRaw, lastOut>>

GoTo(p) ==
  /\ pc' = p
  /\ UNCHANGED <<posts, postsStopped, rawWrites, rawStopped, signalling, forceRepaint,
                 batch, flushAll, accepted, ran, lastRaw, lastOut, broken>>

WakeUp ==
  /\ pc = "select" /\ wake
  /\ wake' = FALSE
  /\ GoTo("drain")
  /\ UNCHANGED dirty

\* Input, a tick or a resize.
Event == pc = "select" /\ GoTo("handling") /\ UNCHANGED <<wake, dirty>>

\* The context is cancelled, the quit key is hit, or the input ends.
Exit == pc = "select" /\ GoTo("closing") /\ UNCHANGED <<wake, dirty>>

\* A handled event invalidates the frame.
EndEvent(handled) ==
  /\ pc = "handling"
  /\ dirty' = (dirty \/ handled)
  /\ wake' = (wake \/ handled)
  /\ GoTo("drain")

\* Mutant: the queue is drained no more once it refuses closures.
StopPostsUndrained ==
  /\ pc = "closing"
  /\ postsStopped' = TRUE
  /\ pc' = "lastFlush"
  /\ UNCHANGED <<posts, rawWrites, rawStopped, wake, signalling, dirty, forceRepaint,
                 batch, flushAll, accepted, ran, lastRaw, lastOut, broken>>

\* The root is closed.
StopPosts ==
  /\ pc = "closing"
  /\ postsStopped' = TRUE
  /\ pc' = "drain"
  /\ UNCHANGED <<posts, rawWrites, rawStopped, wake, signalling, dirty, forceRepaint,
                 batch, flushAll, accepted, ran, lastRaw, lastOut, broken>>

StopRawWrites ==
  /\ pc = "stopRaw"
  /\ rawStopped' = TRUE
  /\ rawWrites' = <<>>
  /\ pc' = "done"
  /\ UNCHANGED <<posts, postsStopped, wake, signalling, dirty, forceRepaint, batch,
                 flushAll, accepted, ran, lastRaw, lastOut, broken>>

-----------------------------------------------------------------------------

\* The steps the loop owes whoever waits for it.
LoopStep ==
  \/ TakePosts \/ FinishPost \/ EndDrain
  \/ Flush \/ FlushFails \/ EndFlush
  \/ \E fails \in BOOLEAN : Render(fails)
  \/ WakeUp
  \/ \E handled \in BOOLEAN : EndEvent(handled)
  \/ StopPosts \/ StopRawWrites

UiStep ==
  \/ \E f \in Closures : UiPost(f)
  \/ \E c \in Commands : UiWriteRaw(c)
  \/ ForceRepaint \/ Invalidate

GoroutineStep(g) ==
  \/ \E f \in Closures : TryPost(g, f)
  \/ \E c \in Commands : WriteRaw(g, c)
  \/ Signal(g)

LoopNext == LoopStep \/ UiStep \/ Event \/ Exit \/ \E g \in Goroutines : GoroutineStep(g)

LoopSafe == LoopInit /\ [][LoopNext]_loopVars

-----------------------------------------------------------------------------

TypeOK ==
  /\ posts \in Seq(Closures) /\ batch \in Seq(Closures)
  /\ accepted \in Seq(Closures) /\ ran \in Seq(Closures)
  /\ rawWrites \in Seq(Commands)
  /\ pc \in Pc
  /\ signalling \subseteq Goroutines
  /\ postsStopped \in BOOLEAN /\ rawStopped \in BOOLEAN /\ wake \in BOOLEAN
  /\ dirty \in BOOLEAN /\ forceRepaint \in BOOLEAN /\ flushAll \in BOOLEAN
  /\ broken \in BOOLEAN

\* Every accepted closure is in exactly one place, in the order of acceptance.
InOrder ==
  /\ accepted = (ran \o batch) \o posts
  /\ batch # <<>> <=> pc = "running"

Woken == wake \/ signalling # {}

\* The loop does not sleep on work: a closure, a raw command or a frame that is
\* due has the token in the channel, or its goroutine is about to put it there.
\* takeRaw's own signal carries over the commands its turn leaves in the queue.
NoLostWakeup ==
  pc = "select" => (posts # <<>> \/ rawWrites # <<>> \/ dirty => Woken)

\* What NoLostWakeup rests on in the states before select.
WorkWoken ==
  /\ pc \in {"flush", "render", "select"} => (posts # <<>> => Woken)
  /\ pc \in {"render", "select"} => (rawWrites # <<>> => Woken)
  /\ pc = "select" => ~ dirty

Shutdown ==
  /\ postsStopped =>
       pc \in {"drain", "running", "lastFlush", "stopRaw", "done"}
  /\ pc \in {"lastFlush", "stopRaw", "done"} => postsStopped /\ posts = <<>>
  /\ rawStopped <=> pc = "done"

\* A closure the loop has accepted runs, also when it is accepted while the root
\* closes: TryPost's true means that its owner need not clean up.
AcceptedRan == pc = "done" => ran = accepted

\* Dropping the oldest never costs the newest command: what was queued last is at
\* the queue's end or has been written last.  teardownVideo's final delete is that
\* command.
NewestSurvives ==
  ~ broken /\ ~ rawStopped =>
    IF rawWrites = <<>> THEN lastOut = lastRaw ELSE rawWrites[Len(rawWrites)] = lastRaw

LoopInv == TypeOK /\ InOrder /\ WorkWoken /\ Shutdown /\ NewestSurvives

\* The refinement: closures run first in first out, each once.
PQ == INSTANCE PostQueue WITH open <- ~ postsStopped

ImplementsPostQueue == PQ!Safe
=============================================================================
