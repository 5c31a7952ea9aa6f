-------------------------- MODULE EventLoopProofs --------------------------
(* Safety of the event loop for any closures, commands, goroutines and any *)
(* capacity of the raw queue.                                              *)
EXTENDS EventLoop, SequenceTheorems, TLAPS

-----------------------------------------------------------------------------
(* Sequences.                                                              *)

\* Moving the head of the second sequence to the end of the first one changes
\* nothing of the two together.
LEMMA MoveHead ==
  ASSUME NEW S, NEW s \in Seq(S), NEW t \in Seq(S), t # <<>>
  PROVE  s \o t = Append(s, Head(t)) \o Tail(t)
<1>1. Head(t) \in S /\ Tail(t) \in Seq(S) /\ Len(t) > 0
  BY HeadTailProperties, EmptySeq
<1>2. Len(Tail(t)) = Len(t) - 1 /\ \A i \in 1..Len(t) - 1 : Tail(t)[i] = t[i + 1]
  BY <1>1
<1>3. Append(s, Head(t)) \in Seq(S) /\ Len(Append(s, Head(t))) = Len(s) + 1
  BY <1>1
<1>4. s \o t \in Seq(S) /\ Append(s, Head(t)) \o Tail(t) \in Seq(S)
  BY <1>1, <1>3, ConcatProperties
<1>5. Len(s \o t) = Len(Append(s, Head(t)) \o Tail(t))
  BY <1>1, <1>2, <1>3, ConcatProperties
<1>6. ASSUME NEW i \in 1..Len(s \o t)
      PROVE  (s \o t)[i] = (Append(s, Head(t)) \o Tail(t))[i]
  <2>1. CASE i <= Len(s)
    BY <2>1, <1>1, <1>2, <1>3
  <2>2. CASE i = Len(s) + 1
    BY <2>2, <1>1, <1>2, <1>3
  <2>3. CASE i > Len(s) + 1
    BY <2>3, <1>1, <1>2, <1>3
  <2>. QED BY <2>1, <2>2, <2>3, <1>1
<1>. QED BY <1>4, <1>5, <1>6, SeqEqual

\* A command that is queued becomes the last one, whether or not the oldest had
\* to go.
LEMMA EnqueueLast ==
  ASSUME NEW S, NEW q \in Seq(S), NEW c \in S
  PROVE  /\ Enqueue(q, c) \in Seq(S)
         /\ Enqueue(q, c) # <<>>
         /\ Enqueue(q, c)[Len(Enqueue(q, c))] = c
<1>1. CASE Len(q) < MaxRaw
  BY <1>1 DEF Enqueue
<1>2. CASE ~ (Len(q) < MaxRaw)
  <2>1. q # <<>>
    BY <1>2, EventLoopAssumption
  <2>2. Tail(q) \in Seq(S)
    BY <2>1, HeadTailProperties
  <2>. QED BY <1>2, <2>2 DEF Enqueue
<1>. QED BY <1>1, <1>2

-----------------------------------------------------------------------------
(* The inductive invariant.                                                *)

\* The loop starts with empty queues and a token in the wake channel.
LEMMA InitLoopInv == LoopInit => LoopInv
<1> SUFFICES ASSUME LoopInit PROVE LoopInv
  OBVIOUS
<1> USE DEF LoopInit
<1>1. TypeOK
  BY EmptySeq DEF TypeOK, Pc
<1>2. InOrder
  BY DEF InOrder
<1>3. WorkWoken /\ Shutdown /\ NewestSurvives
  BY DEF WorkWoken, Shutdown, NewestSurvives
<1>. QED BY <1>1, <1>2, <1>3 DEF LoopInv

\* Where a signal is due or made, the loop counts as woken afterwards.
LEMMA SignalsWake ==
  ASSUME TypeOK, SignalNow \/ \E g \in Goroutines : SignalLater(g)
  PROVE  Woken' /\ wake' \in BOOLEAN /\ signalling' \subseteq Goroutines
BY DEF TypeOK, SignalNow, SignalLater, Woken

\* A closure that is accepted goes to the end of the queue, and wakes the loop.
LEMMA PostLoopInv ==
  ASSUME LoopInv, NEW f \in Closures, Post(f),
         SignalNow \/ \E g \in Goroutines : SignalLater(g)
  PROVE  LoopInv'
<1> USE DEF LoopInv
<1>1. Woken' /\ wake' \in BOOLEAN /\ signalling' \subseteq Goroutines
  BY SignalsWake
<1>2. TypeOK'
  BY <1>1, AppendProperties DEF TypeOK, Post
<1>3. InOrder'
  <2> DEFINE s == ran \o batch
  <2>1. s \in Seq(Closures) /\ posts \in Seq(Closures)
    BY ConcatProperties DEF TypeOK
  <2>2. accepted = s \o posts
    BY DEF InOrder
  <2>3. s' = s /\ (batch # <<>> <=> pc = "running") /\ UNCHANGED <<batch, pc>>
    BY DEF InOrder, Post
  <2> HIDE DEF s
  <2>4. posts' = posts \o <<f>> /\ accepted' = (s \o posts) \o <<f>>
    BY <2>1, <2>2, AppendIsConcat, ConcatProperties DEF Post, TypeOK
  <2>5. accepted' = s' \o posts'
    BY <2>1, <2>3, <2>4, ConcatAssociative
  <2>. QED BY <2>3, <2>5 DEF InOrder, s
<1>4. WorkWoken'
  BY <1>1 DEF WorkWoken, Post
<1>5. Shutdown' /\ NewestSurvives'
  BY DEF Shutdown, NewestSurvives, Post
<1>. QED BY <1>2, <1>3, <1>4, <1>5

\* A raw command becomes the newest in its queue, and wakes the loop.
LEMMA QueueRawLoopInv ==
  ASSUME LoopInv, NEW c \in Commands, QueueRaw(c),
         SignalNow \/ \E g \in Goroutines : SignalLater(g)
  PROVE  LoopInv'
<1> USE DEF LoopInv
<1>1. Woken' /\ wake' \in BOOLEAN /\ signalling' \subseteq Goroutines
  BY SignalsWake
<1>2. /\ rawWrites' \in Seq(Commands) /\ rawWrites' # <<>>
      /\ rawWrites'[Len(rawWrites')] = lastRaw'
  BY EnqueueLast DEF QueueRaw, TypeOK
<1>3. TypeOK'
  BY <1>1, <1>2 DEF TypeOK, QueueRaw
<1>4. InOrder' /\ Shutdown'
  BY DEF InOrder, Shutdown, QueueRaw
<1>5. WorkWoken'
  BY <1>1 DEF WorkWoken, QueueRaw
<1>6. NewestSurvives'
  BY <1>2 DEF NewestSurvives
<1>. QED BY <1>3, <1>4, <1>5, <1>6

\* The pending signal becomes a token.
LEMMA SignalLoopInv ==
  ASSUME LoopInv, NEW g \in Goroutines, Signal(g)
  PROVE  LoopInv'
BY DEF LoopInv, Signal, TypeOK, InOrder, WorkWoken, Woken, Shutdown, NewestSurvives

\* UI code runs in no state in which work must have woken the loop.
LEMMA RepaintLoopInv ==
  ASSUME LoopInv, NEW force \in BOOLEAN, UiRepaint(force)
  PROVE  LoopInv'
BY DEF LoopInv, UiRepaint, UiCode, SignalNow, TypeOK, InOrder, WorkWoken, Woken, Shutdown,
       NewestSurvives

\* The queue becomes the batch, or the batch moves on by one closure.
LEMMA DrainLoopInv ==
  ASSUME LoopInv, TakePosts \/ FinishPost \/ EndDrain
  PROVE  LoopInv'
<1> USE DEF LoopInv
<1>1. CASE TakePosts
  <2>1. batch = <<>>
    BY <1>1 DEF TakePosts, InOrder
  <2>2. (ran \o batch) \o posts = (ran \o posts) \o <<>>
    <3>1. ran \o posts \in Seq(Closures) /\ ran \o <<>> = ran
      BY ConcatProperties, ConcatEmptySeq DEF TypeOK
    <3>. QED BY <2>1, <3>1, ConcatEmptySeq
  <2>3. InOrder'
    BY <1>1, <2>2 DEF TakePosts, InOrder
  <2>4. TypeOK'
    BY <1>1, EmptySeq DEF TakePosts, TypeOK, Pc
  <2>5. WorkWoken' /\ Shutdown' /\ NewestSurvives'
    BY <1>1 DEF TakePosts, WorkWoken, Shutdown, NewestSurvives
  <2>. QED BY <2>3, <2>4, <2>5
<1>2. CASE FinishPost
  <2>1. batch # <<>> /\ batch \in Seq(Closures) /\ ran \in Seq(Closures)
    BY <1>2 DEF FinishPost, InOrder, TypeOK
  <2>2. Head(batch) \in Closures /\ Tail(batch) \in Seq(Closures)
    BY <2>1, HeadTailProperties
  <2>3. ran \o batch = ran' \o batch'
    BY <1>2, <2>1, MoveHead DEF FinishPost
  <2>4. InOrder'
    BY <1>2, <2>3 DEF FinishPost, InOrder
  <2>5. TypeOK'
    BY <1>2, <2>1, <2>2, AppendProperties DEF FinishPost, TypeOK, Pc
  <2>6. WorkWoken' /\ Shutdown' /\ NewestSurvives'
    BY <1>2 DEF FinishPost, WorkWoken, Shutdown, NewestSurvives
  <2>. QED BY <2>4, <2>5, <2>6
<1>3. CASE EndDrain
  BY <1>3 DEF EndDrain, TypeOK, Pc, InOrder, WorkWoken, Woken, Shutdown, NewestSurvives
<1>. QED BY <1>1, <1>2, <1>3

\* One command is taken: the next one has its signal, and the newest is either
\* still the last in the queue or the one that has just been written.
LEMMA FlushLoopInv ==
  ASSUME LoopInv, Flush \/ FlushFails \/ EndFlush
  PROVE  LoopInv'
<1> USE DEF LoopInv, Flushing, AfterFlush
<1>1. CASE EndFlush
  BY <1>1 DEF EndFlush, TypeOK, Pc, InOrder, WorkWoken, Woken, Shutdown, NewestSurvives
<1>2. CASE Flush \/ FlushFails
  <2>1. /\ rawWrites \in Seq(Commands) /\ rawWrites # <<>>
        /\ rawWrites' = Tail(rawWrites) /\ wake' = (wake \/ Len(rawWrites) > 1)
    BY <1>2 DEF Flush, FlushFails, TakeRaw, TypeOK
  <2>2. Len(rawWrites) \in Nat \ {0} /\ rawWrites' \in Seq(Commands)
    BY <2>1, EmptySeq, HeadTailProperties
  <2>3. /\ Len(rawWrites') = Len(rawWrites) - 1
        /\ \A i \in 1..Len(rawWrites') : rawWrites'[i] = rawWrites[i + 1]
    BY <2>1, <2>2
  <2>4. rawWrites' # <<>> => Len(rawWrites) > 1
    BY <2>1, <2>2, <2>3
  <2>5. TypeOK'
    BY <1>2, <2>1, <2>2 DEF Flush, FlushFails, TakeRaw, TypeOK, Pc
  <2>6. InOrder' /\ Shutdown'
    BY <1>2 DEF Flush, FlushFails, TakeRaw, InOrder, Shutdown
  <2>7. WorkWoken'
    BY <1>2, <2>1, <2>4 DEF Flush, FlushFails, TakeRaw, WorkWoken, Woken
  <2>8. NewestSurvives'
    <3>1. CASE FlushFails
      BY <3>1 DEF FlushFails, NewestSurvives
    <3>2. CASE Flush /\ ~ broken /\ ~ rawStopped
      <4>1. rawWrites[Len(rawWrites)] = lastRaw /\ lastRaw' = lastRaw
        BY <3>2, <2>1 DEF Flush, TakeRaw, NewestSurvives
      <4>2. CASE rawWrites' = <<>>
        <5>1. Len(rawWrites) = 1
          BY <4>2, <2>2, <2>3
        <5>2. lastOut' = rawWrites[1]
          BY <3>2, <2>1 DEF Flush
        <5>. QED BY <4>1, <4>2, <5>1, <5>2 DEF NewestSurvives
      <4>3. CASE rawWrites' # <<>>
        <5>1. Len(rawWrites') \in 1..Len(rawWrites')
          BY <4>3, <2>2, <2>3, <2>4
        <5>2. rawWrites'[Len(rawWrites')] = rawWrites[Len(rawWrites)]
          BY <5>1, <2>2, <2>3
        <5>. QED BY <4>1, <4>3, <5>2 DEF NewestSurvives
      <4>. QED BY <4>2, <4>3
    <3>3. CASE Flush /\ (broken \/ rawStopped)
      BY <3>3 DEF Flush, TakeRaw, NewestSurvives
    <3>. QED BY <1>2, <3>1, <3>2, <3>3
  <2>. QED BY <2>5, <2>6, <2>7, <2>8
<1>. QED BY <1>1, <1>2

\* The frame, the sleep, the input and the shutdown touch no queue but the last.
LEMMA TurnLoopInv ==
  ASSUME LoopInv,
         \/ \E fails \in BOOLEAN : Render(fails)
         \/ WakeUp \/ Event \/ Exit
         \/ \E handled \in BOOLEAN : EndEvent(handled)
         \/ StopPosts \/ StopRawWrites
  PROVE  LoopInv'
<1> USE DEF LoopInv, GoTo
<1>1. ASSUME NEW fails \in BOOLEAN, Render(fails) PROVE LoopInv'
  BY <1>1 DEF Render, TypeOK, Pc, InOrder, WorkWoken, Woken, Shutdown, NewestSurvives
<1>2. CASE WakeUp
  BY <1>2 DEF WakeUp, TypeOK, Pc, InOrder, WorkWoken, Woken, Shutdown, NewestSurvives
<1>6. CASE Event \/ Exit
  <2>1. pc = "select" /\ pc' \in {"handling", "closing"}
    BY <1>6 DEF Event, Exit
  <2>2. UNCHANGED <<posts, postsStopped, rawWrites, rawStopped, wake, signalling, dirty,
                    forceRepaint, batch, flushAll, accepted, ran, lastRaw, lastOut, broken>>
    BY <1>6 DEF Event, Exit
  <2>. QED BY <2>1, <2>2 DEF TypeOK, Pc, InOrder, WorkWoken, Shutdown, NewestSurvives
<1>3. ASSUME NEW handled \in BOOLEAN, EndEvent(handled) PROVE LoopInv'
  BY <1>3 DEF EndEvent, TypeOK, Pc, InOrder, WorkWoken, Woken, Shutdown, NewestSurvives
<1>4. CASE StopPosts
  BY <1>4 DEF StopPosts, TypeOK, Pc, InOrder, WorkWoken, Woken, Shutdown, NewestSurvives
<1>5. CASE StopRawWrites
  BY <1>5, EmptySeq DEF StopRawWrites, TypeOK, Pc, InOrder, WorkWoken, Woken, Shutdown,
                        NewestSurvives
<1>. QED BY <1>1, <1>2, <1>3, <1>4, <1>5, <1>6

\* Every step of the loop, of UI code and of the other goroutines keeps LoopInv.
LEMMA NextLoopInv == LoopInv /\ [LoopNext]_loopVars => LoopInv'
<1> SUFFICES ASSUME LoopInv, [LoopNext]_loopVars PROVE LoopInv'
  OBVIOUS
<1>1. CASE LoopStep
  BY <1>1, DrainLoopInv, FlushLoopInv, TurnLoopInv DEF LoopStep
<1>2. CASE UiStep
  BY <1>2, PostLoopInv, QueueRawLoopInv, RepaintLoopInv
     DEF UiStep, UiPost, UiWriteRaw, ForceRepaint, Invalidate
<1>3. CASE Event \/ Exit
  BY <1>3, TurnLoopInv
<1>4. ASSUME NEW g \in Goroutines, GoroutineStep(g) PROVE LoopInv'
  BY <1>4, PostLoopInv, QueueRawLoopInv, SignalLoopInv DEF GoroutineStep, TryPost, WriteRaw
<1>5. CASE UNCHANGED loopVars
  BY <1>5 DEF loopVars, LoopInv, TypeOK, InOrder, WorkWoken, Woken, Shutdown, NewestSurvives
<1>. QED BY <1>1, <1>2, <1>3, <1>4, <1>5 DEF LoopNext

\* LoopInv holds in every state of the loop.
THEOREM Invariance == LoopSafe => []LoopInv
BY InitLoopInv, NextLoopInv, PTL DEF LoopSafe

\* The loop never sleeps on a closure, a raw command or a frame: TryPost, WriteRaw
\* and takeRaw signal enough.
THEOREM NeverAsleepOnWork == LoopSafe => []NoLostWakeup
<1>1. LoopInv => NoLostWakeup
  BY DEF LoopInv, WorkWoken, NoLostWakeup
<1>. QED BY <1>1, Invariance, PTL

\* When the loop has ended, every closure TryPost accepted has run.
THEOREM NoneStranded == LoopSafe => []AcceptedRan
<1>1. LoopInv => AcceptedRan
  <2> SUFFICES ASSUME LoopInv, pc = "done" PROVE ran = accepted
    BY DEF AcceptedRan
  <2>1. batch = <<>> /\ posts = <<>>
    BY DEF LoopInv, InOrder, Shutdown
  <2>. QED BY <2>1, ConcatEmptySeq DEF LoopInv, TypeOK, InOrder
<1>. QED BY <1>1, Invariance, PTL

-----------------------------------------------------------------------------
(* The refinement.                                                         *)

\* The closure that finishes is the oldest one that has not run.
LEMMA FinishIsRun == LoopInv /\ FinishPost => PQ!Run
<1> SUFFICES ASSUME LoopInv, FinishPost PROVE PQ!Run
  OBVIOUS
<1>1. /\ ran \in Seq(Closures) /\ batch \in Seq(Closures) /\ posts \in Seq(Closures)
      /\ batch # <<>> /\ accepted = (ran \o batch) \o posts
  BY DEF LoopInv, TypeOK, InOrder, FinishPost
<1>2. Len(batch) \in Nat \ {0}
  BY <1>1, EmptySeq
<1>3. /\ ran \o batch \in Seq(Closures)
      /\ Len(ran \o batch) = Len(ran) + Len(batch)
      /\ (ran \o batch)[Len(ran) + 1] = batch[1]
  BY <1>1, <1>2
<1>4. /\ Len(accepted) = Len(ran) + Len(batch) + Len(posts)
      /\ accepted[Len(ran) + 1] = Head(batch)
  BY <1>1, <1>2, <1>3
<1>5. Len(ran) < Len(accepted)
  BY <1>1, <1>2, <1>4
<1>. QED BY <1>4, <1>5 DEF PQ!Run, FinishPost

\* The loop implements the queue that Timeline and Directory take for granted.
THEOREM FirstInFirstOut == LoopSafe => ImplementsPostQueue
<1>1. LoopInit => PQ!Init
  BY DEF LoopInit, PQ!Init
<1>2. LoopInv /\ [LoopNext]_loopVars => [PQ!Next]_PQ!vars
  <2> SUFFICES ASSUME LoopInv, [LoopNext]_loopVars PROVE [PQ!Next]_PQ!vars
    OBVIOUS
  <2> USE DEF PQ!Next, PQ!vars
  <2>1. ASSUME NEW f \in Closures, Post(f) PROVE PQ!Next
    BY <2>1 DEF Post, PQ!Accept
  <2>2. CASE FinishPost
    BY <2>2, FinishIsRun
  <2>3. CASE StopPosts
    BY <2>3 DEF StopPosts, PQ!Close, LoopInv, Shutdown
  <2>4. ASSUME NEW g \in Goroutines, Signal(g) PROVE UNCHANGED PQ!vars
    BY <2>4 DEF Signal
  <2>5. ASSUME NEW c \in Commands, QueueRaw(c) PROVE UNCHANGED PQ!vars
    BY <2>5 DEF QueueRaw
  <2>6. CASE LoopStep /\ ~ FinishPost /\ ~ StopPosts
    BY <2>6 DEF LoopStep, TakePosts, EndDrain, Flush, FlushFails, TakeRaw, EndFlush, Render,
                WakeUp, EndEvent, GoTo, StopRawWrites
  <2>7. CASE UiStep
    BY <2>7, <2>1, <2>5 DEF UiStep, UiPost, UiWriteRaw, ForceRepaint, Invalidate, UiRepaint
  <2>8. CASE Event \/ Exit
    BY <2>8 DEF Event, Exit, GoTo
  <2>9. ASSUME NEW g \in Goroutines, GoroutineStep(g) PROVE [PQ!Next]_PQ!vars
    BY <2>9, <2>1, <2>4, <2>5 DEF GoroutineStep, TryPost, WriteRaw
  <2>10. CASE UNCHANGED loopVars
    BY <2>10 DEF loopVars
  <2>. QED BY <2>2, <2>3, <2>6, <2>7, <2>8, <2>9, <2>10 DEF LoopNext
<1>. QED BY <1>1, <1>2, Invariance, PTL DEF LoopSafe, ImplementsPostQueue, PQ!Safe
=============================================================================
