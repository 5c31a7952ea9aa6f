---------------------------- MODULE PluginProofs ----------------------------
(***************************************************************************)
(* What PluginRuntime, Pointer, Popups and Notices promise, for any values *)
(* of their constants: the safety of the plugin host, the panels its       *)
(* plugins open, the toasts, and the menus and profile cards.              *)
(***************************************************************************)
EXTENDS PluginRuntime, Pointer, Popups, FiniteSetTheorems, TLAPS

-----------------------------------------------------------------------------
(* The ownership stacks                                                    *)

\* The rank of an element of a finite set of numbers: how many are no larger.
\* Ranks are different numbers of 1 .. Cardinality.
Rank(S, i) == Cardinality({j \in S : j <= i})

LEMMA Ranks ==
  ASSUME NEW S \in SUBSET Nat, IsFiniteSet(S)
  PROVE  /\ Cardinality(S) \in Nat
         /\ \A i \in S : Rank(S, i) \in 1 .. Cardinality(S)
         /\ \A i, h \in S : Rank(S, i) = Rank(S, h) => i = h
<1> DEFINE upTo(i) == {j \in S : j <= i}
<1>1. Cardinality(S) \in Nat
  BY FS_CardinalityType
<1>2. \A i \in S : /\ upTo(i) \in SUBSET S /\ IsFiniteSet(upTo(i))
                   /\ Cardinality(upTo(i)) \in Nat /\ Cardinality(upTo(i)) <= Cardinality(S)
  BY FS_Subset, FS_CardinalityType
<1>3. \A i \in S : Cardinality(upTo(i)) # 0
  <2> SUFFICES ASSUME NEW i \in S PROVE Cardinality(upTo(i)) # 0
    OBVIOUS
  <2>1. i \in upTo(i)
    OBVIOUS
  <2>. QED BY <1>2, <2>1, FS_EmptySet
<1>4. \A i \in S : Cardinality(upTo(i)) \in 1 .. Cardinality(S)
  BY <1>1, <1>2, <1>3
<1>5. \A i, h \in S : i < h => Cardinality(upTo(i)) # Cardinality(upTo(h))
  <2> SUFFICES ASSUME NEW i \in S, NEW h \in S, i < h PROVE Cardinality(upTo(i)) # Cardinality(upTo(h))
    OBVIOUS
  <2>1. i \in Nat /\ h \in Nat /\ \A j \in S : j \in Nat
    OBVIOUS
  <2>2. upTo(i) \in SUBSET upTo(h)
    <3>1. \A j \in S : j <= i => j <= h
      BY <2>1
    <3>. QED BY <3>1
  <2>3. h \in upTo(h) /\ h \notin upTo(i)
    BY <2>1
  <2>4. Cardinality(upTo(h)) # Cardinality(upTo(i))
    BY <1>2, <2>2, <2>3, FS_Subset
  <2>. QED BY <2>4
<1>6. \A i, h \in S : i < h \/ h < i \/ i = h
  OBVIOUS
<1> HIDE DEF upTo
<1>7. \A i, h \in S : Cardinality(upTo(i)) = Cardinality(upTo(h)) => i = h
  BY <1>5, <1>6
<1>8. \A i \in S : Rank(S, i) = Cardinality(upTo(i))
  BY DEF Rank, upTo
<1>. QED BY <1>1, <1>4, <1>7, <1>8

\* A finite set of numbers has a k-th smallest element: the ranks of its elements
\* are as many numbers of 1 .. Cardinality as there are.
LEMMA KthExists ==
  ASSUME NEW S \in SUBSET Nat, IsFiniteSet(S), NEW k \in 1 .. Cardinality(S)
  PROVE  \E i \in S : Rank(S, i) = k
<1> DEFINE rank == [i \in S |-> Rank(S, i)]
           ranks == 1 .. Cardinality(S)
<1>1. rank \in Injection(S, ranks)
  BY Ranks DEF Injection, IsInjective
<1>2. IsFiniteSet(ranks) /\ Cardinality(ranks) = Cardinality(S)
  <2>1. Cardinality(S) \in Nat
    BY Ranks
  <2>. QED BY <2>1, FS_Interval
<1>3. rank \in Surjection(S, ranks)
  BY <1>1, <1>2, FS_Injection
<1>4. \E i \in S : rank[i] = k
  BY <1>3 DEF Surjection
<1>. QED BY <1>4

\* Rolling an owner back leaves only entries of others.
LEMMA WithoutOwner ==
  ASSUME NEW stack \in Seq(Plugins), NEW p
  PROVE  /\ handlersWithoutOwner(stack, p) \in Seq(Plugins)
         /\ \A k \in 1 .. Len(handlersWithoutOwner(stack, p)) :
              /\ handlersWithoutOwner(stack, p)[k] # p
              /\ \E i \in 1 .. Len(stack) : handlersWithoutOwner(stack, p)[k] = stack[i]
<1> DEFINE kept == {i \in DOMAIN stack : stack[i] # p}
           at(k) == CHOOSE i \in kept : Cardinality({j \in kept : j <= i}) = k
           left == handlersWithoutOwner(stack, p)
<1>1. left = [k \in 1 .. Cardinality(kept) |-> stack[at(k)]]
  BY DEF handlersWithoutOwner
<1>2. kept \in SUBSET (1 .. Len(stack)) /\ Len(stack) \in Nat
  OBVIOUS
<1>3. IsFiniteSet(1 .. Len(stack))
  BY <1>2, FS_Interval
<1>4. IsFiniteSet(kept) /\ Cardinality(kept) \in Nat
  BY <1>2, <1>3, FS_Subset, FS_CardinalityType
<1>5. kept \in SUBSET Nat
  BY <1>2
<1>6. \A k \in 1 .. Cardinality(kept) : at(k) \in kept
  BY <1>4, <1>5, KthExists DEF Rank
<1>7. \A k \in 1 .. Cardinality(kept) :
        /\ at(k) \in 1 .. Len(stack) /\ left[k] = stack[at(k)]
        /\ left[k] \in Plugins /\ left[k] # p
  <2> HIDE DEF at, left
  <2>1. \A i \in kept : i \in 1 .. Len(stack) /\ stack[i] \in Plugins /\ stack[i] # p
    OBVIOUS
  <2>. QED BY <1>1, <1>6, <2>1
<1>8. left \in Seq(Plugins) /\ Len(left) = Cardinality(kept)
  <2> HIDE DEF at, left, kept
  <2>. QED BY <1>1, <1>4, <1>7
<1>. QED BY <1>7, <1>8

-----------------------------------------------------------------------------
(* The steps                                                               *)

\* The host starts in a state of the invariant.
LEMMA InitPlugin == Init => PluginIInv
<1> SUFFICES ASSUME Init PROVE PluginIInv
  OBVIOUS
<1> USE PluginAssumption DEF Init, NoJob, Job
<1>1. TypeOK
  <2>1. worker \in [pc : {"check", "wait", "run", "done"}, job : Jobs \cup {NoJob}, exec : SUBSET Plugins]
    OBVIOUS
  <2>2. main \in [pc : {"ready", "sending", "waiting", "loaded", "failed"}, p : Plugins]
    OBVIOUS
  <2>3. jobs \in Seq(Jobs)
    <3>1. jobs = <<>>
      OBVIOUS
    <3>. QED BY ONLY <3>1
  <2>4. life \in [Plugins -> {"none", "starting", "committed", "closed"}]
    OBVIOUS
  <2>5. stacks \in [Names -> Seq(Plugins)] /\ subs \in SUBSET Plugins
    OBVIOUS
  <2>6. timers \in [Plugins -> {"none", "running", "stopping", "ended"}] /\ viewports \in SUBSET Plugins
    OBVIOUS
  <2>7. closers \in [Stoppers -> {"idle", "stopping", "stopped", "closing", "closed"}]
    OBVIOUS
  <2>8. quit \in BOOLEAN /\ late \in Nat
    OBVIOUS
  <2> HIDE DEF Init
  <2>. QED BY <2>1, <2>2, <2>3, <2>4, <2>5, <2>6, <2>7, <2>8 DEF TypeOK
<1>2. RegistrationsOwned /\ LoadPlaced /\ CallsCommitted
  BY DEF RegistrationsOwned, LoadPlaced, CallsCommitted
<1>3. ExecLive /\ ShutdownOrder /\ LateCounted
  BY DEF ExecLive, ShutdownOrder, LateCounted, OneLateJob
<1>. QED BY <1>1, <1>2, <1>3 DEF PluginIInv

\* A job that is queued, or refused, or dropped; a call only of a committed state,
\* and no load.
LEMMA SubmitIInv ==
  ASSUME PluginIInv, NEW job \in Jobs, submit(job), job.kind # "load",
         job.kind = "call" /\ worker.pc # "done" => life[job.p] = "committed"
  PROVE  PluginIInv'
<1> USE DEF PluginIInv, submit, Lua
<1>1. jobs' \in Seq(Jobs)
  BY DEF TypeOK
<1>2. \A i \in DOMAIN jobs' : (i \in DOMAIN jobs /\ jobs'[i] = jobs[i]) \/ jobs'[i] = job
  BY DEF TypeOK
<1>3. TypeOK'
  BY <1>1 DEF TypeOK
<1>4. RegistrationsOwned'
  BY DEF RegistrationsOwned
<1>5. LoadPlaced'
  BY <1>2 DEF LoadPlaced
<1>6. CallsCommitted'
  BY <1>2 DEF CallsCommitted
<1>7. (ExecLive /\ ShutdownOrder /\ LateCounted)'
  BY DEF ExecLive, ShutdownOrder, LateCounted, OneLateJob
<1>. QED BY <1>3, <1>4, <1>5, <1>6, <1>7

\* A command is queued for the handler it finds, which while the worker lives is
\* registered by a committed plugin: none is starting once loading is over.
LEMMA RunCommandIInv ==
  ASSUME PluginIInv, NEW n \in Names, RunCommand(n)
  PROVE  PluginIInv'
<1> DEFINE p == lookup(n)
<1>1. Len(stacks[n]) \in 1 .. Len(stacks[n]) /\ p \in Plugins
  BY DEF PluginIInv, TypeOK, RunCommand, lookup
<1>2. ASSUME worker.pc # "done" PROVE life[p] = "committed"
  <2>1. \A c \in Stoppers : closers[c] # "closed"
    BY <1>2 DEF PluginIInv, ShutdownOrder
  <2>2. life[p] \notin {"none", "closed"}
    BY <1>1, <2>1 DEF PluginIInv, RegistrationsOwned, lookup
  <2>3. life[p] # "starting"
    <3> SUFFICES ASSUME life[p] = "starting" PROVE FALSE
      OBVIOUS
    <3>1. worker.pc = "run" /\ worker.job = Job("load", p)
      BY <1>1 DEF PluginIInv, LoadPlaced
    <3>2. worker.job.kind = "load"
      BY <3>1 DEF Job
    <3>3. main = [pc |-> "waiting", p |-> worker.job.p]
      BY <3>1, <3>2 DEF PluginIInv, LoadPlaced
    <3>. QED BY <3>3 DEF RunCommand
  <2>. QED BY <1>1, <2>2, <2>3 DEF PluginIInv, TypeOK
<1>3. Job("call", p) \in Jobs /\ Job("call", p).kind = "call" /\ Job("call", p).p = p
  BY <1>1 DEF Job, Jobs
<1>. QED BY <1>2, <1>3, SubmitIInv DEF RunCommand

\* The other jobs that are queued.
LEMMA QueueIInv ==
  ASSUME PluginIInv, Emit \/ \E p \in Plugins : Press(p) \/ Tick(p)
  PROVE  PluginIInv'
<1>1. \A p \in Plugins : \A k \in {"event", "press", "tick"} :
        /\ Job(k, p) \in Jobs /\ Job(k, p).kind # "load" /\ Job(k, p).kind # "call"
  BY DEF Job, Jobs
<1>. QED BY <1>1, SubmitIInv, PluginAssumption DEF Emit, Press, Tick

\* The next plugin's load is queued, or waits for room.
LEMMA DoLoadIInv ==
  ASSUME PluginIInv, NEW p \in Plugins, DoLoad(p)
  PROVE  PluginIInv'
<1> USE DEF PluginIInv, DoLoad, Lua
<1>1. Job("load", p) \in Jobs /\ Job("load", p).kind = "load" /\ Job("load", p).p = p
  BY DEF Job, Jobs
<1>2. main.pc = "ready" /\ life[p] = "none" /\ UNCHANGED <<quit, worker, life, stacks, subs, timers, viewports, closers, late>>
  OBVIOUS
<1>3. /\ jobs' \in Seq(Jobs)
      /\ \A i \in DOMAIN jobs' : \/ i \in DOMAIN jobs /\ jobs'[i] = jobs[i]
                                 \/ /\ i = Len(jobs) + 1 /\ jobs'[i] = Job("load", p)
                                    /\ main' = [pc |-> "waiting", p |-> p]
  <2>1. jobs \in Seq(Jobs)
    BY DEF TypeOK
  <2>2. CASE jobs' = jobs
    BY <2>1, <2>2
  <2>3. CASE jobs' = Append(jobs, Job("load", p)) /\ main' = [pc |-> "waiting", p |-> p]
    <3> HIDE DEF DoLoad, PluginIInv
    <3>. QED BY <1>1, <2>1, <2>3
  <2>. QED BY <2>2, <2>3
<1>4. main' \in {[pc |-> "waiting", p |-> p], [pc |-> "sending", p |-> p]}
  OBVIOUS
<1>5. TypeOK'
  BY <1>2, <1>3, <1>4 DEF TypeOK
<1>6. RegistrationsOwned'
  BY <1>2 DEF RegistrationsOwned
<1>7. LoadPlaced'
  <2>1. \A i \in DOMAIN jobs : jobs[i].kind # "load"
    BY <1>2 DEF LoadPlaced
  <2>2. ~ (worker.pc = "run" /\ worker.job.kind = "load")
    BY <1>2 DEF LoadPlaced
  <2>. QED BY <1>1, <1>2, <1>3, <1>4, <2>1, <2>2 DEF LoadPlaced
<1>8. CallsCommitted'
  BY <1>1, <1>2, <1>3 DEF CallsCommitted
<1>9. (ExecLive /\ ShutdownOrder /\ LateCounted)'
  BY <1>2 DEF ExecLive, ShutdownOrder, LateCounted, OneLateJob
<1>. QED BY <1>5, <1>6, <1>7, <1>8, <1>9

\* The worker looks for quit, and goes on or ends.
LEMMA CheckIInv ==
  ASSUME PluginIInv, Check \/ Quit
  PROVE  PluginIInv'
<1> USE DEF PluginIInv, Check, Quit, Lua
<1>1. /\ worker.pc \in {"check", "wait"} /\ worker' = [worker EXCEPT !.pc = worker'.pc]
      /\ worker'.pc \in {"wait", "done"} /\ (worker'.pc = "done" => quit) /\ (worker'.pc = "wait" => ~quit)
      /\ UNCHANGED <<jobs, quit, main, life, stacks, subs, timers, viewports, closers, late>>
  BY DEF TypeOK
<1> HIDE DEF Check, Quit
<1>2. TypeOK'
  BY <1>1 DEF TypeOK
<1>3. RegistrationsOwned'
  BY <1>1 DEF RegistrationsOwned
<1>4. LoadPlaced' /\ CallsCommitted'
  BY <1>1 DEF LoadPlaced, CallsCommitted
<1>5. ExecLive'
  BY <1>1 DEF ExecLive, TypeOK
<1>6. ShutdownOrder' /\ LateCounted'
  BY <1>1 DEF ShutdownOrder, LateCounted, OneLateJob
<1>. QED BY <1>2, <1>3, <1>4, <1>5, <1>6

\* What a job executes is live as it begins: subscribers and handlers that were
\* found are registered, ticks and presses ask, and a load makes its state.
LEMMA ExecutedLive ==
  ASSUME PluginIInv, TakeJob
  PROVE  \A p \in Executed(Head(jobs)) : p \in Plugins /\ life'[p] \in {"starting", "committed"}
<1> DEFINE job == Head(jobs)
<1> USE DEF PluginIInv
<1>1. /\ jobs # <<>> /\ worker.pc = "wait" /\ job \in Jobs /\ job = jobs[1] /\ 1 \in DOMAIN jobs
      /\ life' = IF job.kind = "load" THEN [life EXCEPT ![job.p] = "starting"] ELSE life
  BY DEF TakeJob, TypeOK
<1>2. job.p \in Plugins /\ life \in [Plugins -> {"none", "starting", "committed", "closed"}]
  BY <1>1 DEF Jobs, TypeOK
<1>3. CASE job.kind = "event"
  <2>1. \A c \in Stoppers : closers[c] # "closed"
    BY <1>1 DEF ShutdownOrder
  <2>2. \A p \in subs : p \in Plugins /\ life[p] \notin {"none", "closed"}
    BY <2>1 DEF RegistrationsOwned, TypeOK
  <2>. QED BY <1>1, <1>2, <1>3, <2>2 DEF Executed
<1>4. CASE job.kind \in {"tick", "press"}
  BY <1>1, <1>2, <1>4 DEF Executed, isLive
<1>5. CASE job.kind = "call"
  BY <1>1, <1>2, <1>5 DEF Executed, CallsCommitted
<1>6. CASE job.kind = "load"
  BY <1>1, <1>2, <1>6 DEF Executed
<1>. QED BY <1>1, <1>3, <1>4, <1>5, <1>6 DEF Jobs

\* The worker takes a job, and main's load may move into the room it leaves.
LEMMA TakeJobIInv ==
  ASSUME PluginIInv, TakeJob
  PROVE  PluginIInv'
<1> DEFINE job == Head(jobs)
<1> USE DEF PluginIInv
<1>1. /\ jobs # <<>> /\ worker.pc = "wait" /\ job \in Jobs /\ job = jobs[1] /\ 1 \in DOMAIN jobs
      /\ jobs \in Seq(Jobs) /\ main.p \in Plugins
      /\ worker' = [pc |-> "run", job |-> job, exec |-> Executed(job)]
      /\ life' = IF job.kind = "load" THEN [life EXCEPT ![job.p] = "starting"] ELSE life
      /\ late' = IF quit THEN late + 1 ELSE late
      /\ UNCHANGED <<quit, stacks, subs, timers, viewports, closers>>
  BY DEF TakeJob, TypeOK
<1>2. job.p \in Plugins /\ life \in [Plugins -> {"none", "starting", "committed", "closed"}]
  BY <1>1 DEF Jobs, TypeOK
<1>3. /\ Tail(jobs) \in Seq(Jobs)
      /\ \A i \in DOMAIN Tail(jobs) : i + 1 \in DOMAIN jobs /\ Tail(jobs)[i] = jobs[i + 1] /\ i + 1 # 1
  BY <1>1
<1>4. Job("load", main.p) \in Jobs /\ Job("load", main.p).kind = "load" /\ Job("load", main.p).p = main.p
  BY <1>1 DEF Job, Jobs
<1>5. main' = IF main.pc = "sending" THEN [pc |-> "waiting", p |-> main.p] ELSE main
  BY DEF TakeJob, TypeOK
<1>6. /\ jobs' \in Seq(Jobs)
      /\ \A i \in DOMAIN jobs' : \/ /\ i + 1 \in DOMAIN jobs /\ i + 1 # 1 /\ jobs'[i] = jobs[i + 1]
                                 \/ /\ i = Len(jobs) /\ jobs'[i] = Job("load", main.p)
                                    /\ main.pc = "sending"
  <2>1. Len(Tail(jobs)) + 1 = Len(jobs)
    BY <1>1
  <2>2. CASE jobs' = Tail(jobs)
    BY <1>3, <2>2
  <2>3. CASE main.pc = "sending" /\ jobs' = Append(Tail(jobs), Job("load", main.p))
    <3> HIDE DEF PluginIInv
    <3>. QED BY <1>3, <1>4, <2>1, <2>3
  <2>. QED BY <2>2, <2>3 DEF TakeJob
<1>7. \A p \in Executed(job) : p \in Plugins /\ life'[p] \in {"starting", "committed"}
  BY ExecutedLive
<1>8. TypeOK'
  <2>1. life' \in [Plugins -> {"none", "starting", "committed", "closed"}]
    BY <1>1, <1>2
  <2>2. main' \in [pc : {"ready", "sending", "waiting", "loaded", "failed"}, p : Plugins]
    BY <1>1, <1>5 DEF TypeOK
  <2>3. worker' \in [pc : {"check", "wait", "run", "done"}, job : Jobs \cup {NoJob}, exec : SUBSET Plugins]
    BY <1>1, <1>7
  <2>4. late' \in Nat
    BY <1>1 DEF TypeOK
  <2>. QED BY <1>1, <1>6, <2>1, <2>2, <2>3, <2>4 DEF TypeOK
<1>9. RegistrationsOwned'
  BY <1>1, <1>2 DEF RegistrationsOwned
<1>10. LoadPlaced'
  <2>1. \A p \in Plugins : life[p] # "starting"
    BY <1>1 DEF LoadPlaced
  <2>2. CASE job.kind = "load"
    <3>1. /\ main = [pc |-> "waiting", p |-> job.p] /\ life[job.p] = "none"
          /\ \A i \in DOMAIN jobs : jobs[i].kind = "load" => i = 1
      BY <1>1, <2>2 DEF LoadPlaced
    <3>2. main' = main /\ \A i \in DOMAIN jobs' : jobs'[i].kind # "load"
      BY <1>5, <1>6, <3>1
    <3>3. job = Job("load", job.p)
      BY <1>1, <2>2 DEF Jobs, Job
    <3>4. life'[job.p] = "starting" /\ \A p \in Plugins : life'[p] = "starting" => p = job.p
      BY <1>1, <1>2, <2>1, <2>2
    <3>. QED BY <1>1, <3>1, <3>2, <3>3, <3>4 DEF LoadPlaced
  <2>3. CASE job.kind # "load"
    <3>1. life' = life /\ worker'.job.kind # "load"
      BY <1>1, <2>3
    <3>2. CASE main.pc = "sending"
      <4>1. life[main.p] = "none" /\ \A i \in DOMAIN jobs : jobs[i].kind # "load"
        BY <3>2 DEF LoadPlaced
      <4>2. main' = [pc |-> "waiting", p |-> main.p]
        BY <1>5, <3>2
      <4>3. \A i \in DOMAIN jobs' : jobs'[i].kind = "load" => i = Len(jobs) /\ jobs'[i].p = main.p
        BY <1>4, <1>6, <4>1
      <4>. QED BY <2>1, <3>1, <4>1, <4>2, <4>3 DEF LoadPlaced
    <3>3. CASE main.pc # "sending"
      <4>1. main' = main
        BY <1>5, <3>3
      <4>2. \A i \in DOMAIN jobs' : i + 1 \in DOMAIN jobs /\ jobs'[i] = jobs[i + 1] /\ i \in Nat
        BY <1>6, <3>3
      <4>. QED BY <2>1, <3>1, <3>3, <4>1, <4>2 DEF LoadPlaced
    <3>. QED BY <3>2, <3>3
  <2>. QED BY <2>2, <2>3
<1>11. CallsCommitted'
  <2>1. \A i \in DOMAIN jobs : jobs[i].kind = "call" => life'[jobs[i].p] = "committed"
    <3>1. \A i \in DOMAIN jobs : jobs[i].kind = "call" => life[jobs[i].p] = "committed"
      BY <1>1 DEF CallsCommitted
    <3>2. \A q \in Plugins : life[q] = "committed" => life'[q] = "committed"
      BY <1>1, <1>2 DEF LoadPlaced
    <3>3. \A i \in DOMAIN jobs : jobs[i].p \in Plugins
      <4>1. \A i \in DOMAIN jobs : jobs[i] \in Jobs
        BY <1>1
      <4>. QED BY <4>1 DEF Jobs
    <3>. QED BY <3>1, <3>2, <3>3
  <2>. QED BY <1>4, <1>6, <2>1 DEF CallsCommitted
<1>12. ExecLive'
  BY <1>1, <1>7 DEF ExecLive
<1>13. ShutdownOrder'
  BY <1>1, <1>5 DEF ShutdownOrder
<1>14. LateCounted'
  BY <1>1 DEF LateCounted, OneLateJob, TypeOK
<1>. QED BY <1>8, <1>9, <1>10, <1>11, <1>12, <1>13, <1>14

\* Lua that runs registers for states that are live, and the worker lives: no
\* Close has closed them.
LEMMA RunLuaIInv ==
  ASSUME PluginIInv, RunLua
  PROVE  PluginIInv'
<1> USE DEF PluginIInv
<1>1. worker.pc = "run" /\ UNCHANGED <<jobs, quit, worker, main, life, closers, late>>
  BY DEF RunLua
<1>2. PICK p \in worker.exec : register(p) \/ on(p) \/ every(p) \/ viewport(p)
  BY DEF RunLua
<1>3. p \in Plugins /\ life[p] \in {"starting", "committed"}
  BY DEF ExecLive, TypeOK
<1>4. /\ subs' \in SUBSET Plugins /\ subs' \subseteq subs \cup {p} /\ viewports' \in SUBSET Plugins
      /\ timers' \in [Plugins -> {"none", "running", "stopping", "ended"}]
      /\ \A q \in Plugins \ {p} : timers'[q] = timers[q]
  BY <1>2, <1>3 DEF register, on, every, viewport, TypeOK
<1>5. /\ stacks' \in [Names -> Seq(Plugins)]
      /\ \A n \in Names : \A i \in 1 .. Len(stacks'[n]) :
           (i \in 1 .. Len(stacks[n]) /\ stacks'[n][i] = stacks[n][i]) \/ stacks'[n][i] = p
  <2>1. stacks \in [Names -> Seq(Plugins)]
    BY DEF TypeOK
  <2>2. CASE UNCHANGED stacks
    BY <2>1, <2>2
  <2>3. CASE register(p)
    <3>1. PICK n \in Names : stacks' = [stacks EXCEPT ![n] = Append(@, p)]
      BY <2>3 DEF register
    <3> HIDE DEF PluginIInv
    <3>. QED BY <1>3, <2>1, <3>1
  <2>. QED BY <1>2, <2>2, <2>3 DEF on, every, viewport
<1>6. TypeOK'
  BY <1>1, <1>4, <1>5 DEF TypeOK
<1>7. RegistrationsOwned'
  <2> SUFFICES ASSUME NEW q \in Plugins, life[q] \in {"none", "closed"}
               PROVE  /\ q \notin subs' /\ timers'[q] # "running"
                      /\ \A n \in Names : \A i \in 1 .. Len(stacks'[n]) : stacks'[n][i] # q
    BY <1>1 DEF RegistrationsOwned
  <2>1. \A c \in Stoppers : closers[c] # "closed"
    BY <1>1 DEF ShutdownOrder
  <2>2. /\ q \notin subs /\ timers[q] # "running"
        /\ \A n \in Names : \A i \in 1 .. Len(stacks[n]) : stacks[n][i] # q
    BY <2>1 DEF RegistrationsOwned
  <2>3. q # p
    BY <1>3
  <2>4. q \notin subs' /\ timers'[q] # "running"
    BY <1>4, <2>2, <2>3
  <2>5. \A n \in Names : \A i \in 1 .. Len(stacks'[n]) : stacks'[n][i] # q
    BY <1>5, <2>2, <2>3
  <2>. QED BY <2>4, <2>5
<1>8. LoadPlaced' /\ CallsCommitted' /\ ExecLive'
  BY <1>1 DEF LoadPlaced, CallsCommitted, ExecLive
<1>9. ShutdownOrder' /\ LateCounted'
  BY <1>1 DEF ShutdownOrder, LateCounted, OneLateJob
<1>. QED BY <1>6, <1>7, <1>8, <1>9

\* A job ends; a load commits its state.
LEMMA LoadSucceedsIInv ==
  ASSUME PluginIInv, NEW p \in Plugins, LoadSucceeds(p)
  PROVE  PluginIInv'
<1> USE DEF PluginIInv
<1>1. /\ worker.pc = "run" /\ worker.job = Job("load", p)
      /\ life' = [life EXCEPT ![p] = "committed"]
      /\ main' = [main EXCEPT !.pc = "ready"]
      /\ worker' = [pc |-> "check", job |-> NoJob, exec |-> {}]
      /\ UNCHANGED <<jobs, quit, stacks, subs, timers, viewports, closers, late>>
  BY DEF LoadSucceeds, EndJob
<1>2. worker.job.kind = "load" /\ worker.job.p = p
  BY <1>1 DEF Job
<1>3. main = [pc |-> "waiting", p |-> p] /\ life[p] = "starting"
  BY <1>1, <1>2 DEF LoadPlaced
<1>4. \A i \in DOMAIN jobs : jobs[i].kind # "load"
  BY <1>3 DEF LoadPlaced
<1>5. \A q \in Plugins : life[q] = "starting" => q = p
  <2>1. \A q \in Plugins : life[q] = "starting" => worker.job = Job("load", q)
    BY DEF LoadPlaced
  <2>2. \A q \in Plugins : Job("load", q).p = q
    BY DEF Job
  <2>. QED BY <1>2, <2>1, <2>2
<1>6. life' \in [Plugins -> {"none", "starting", "committed", "closed"}]
      /\ life'[p] = "committed" /\ \A q \in Plugins \ {p} : life'[q] = life[q]
  BY <1>1 DEF TypeOK
<1>7. main' = [pc |-> "ready", p |-> p]
  BY <1>1, <1>3
<1>8. TypeOK'
  BY <1>1, <1>6, <1>7 DEF TypeOK
<1>9. RegistrationsOwned'
  BY <1>1, <1>6 DEF RegistrationsOwned
<1>10. LoadPlaced'
  BY <1>1, <1>4, <1>5, <1>6, <1>7 DEF LoadPlaced
<1>11. CallsCommitted'
  <2>1. \A i \in DOMAIN jobs : jobs[i].p \in Plugins
    <3>1. \A i \in DOMAIN jobs : jobs[i] \in Jobs
      BY DEF TypeOK
    <3>. QED BY <3>1 DEF Jobs
  <2>. QED BY <1>1, <1>6, <2>1 DEF CallsCommitted
<1>12. ExecLive'
  BY <1>1 DEF ExecLive
<1>13. ShutdownOrder' /\ LateCounted'
  BY <1>1, <1>3 DEF ShutdownOrder, LateCounted, OneLateJob
<1>. QED BY <1>8, <1>9, <1>10, <1>11, <1>12, <1>13

\* A failed startup closes a state nothing is registered for any more, and that no
\* queued call can reach: none of its handlers was ever found.
LEMMA LoadFailsIInv ==
  ASSUME PluginIInv, NEW p \in Plugins, LoadFails(p)
  PROVE  PluginIInv'
<1> USE DEF PluginIInv
<1>1. /\ worker.pc = "run" /\ worker.job = Job("load", p)
      /\ life' = [life EXCEPT ![p] = "closed"]
      /\ worker' = [pc |-> "check", job |-> NoJob, exec |-> {}]
      /\ stacks' = [n \in Names |-> handlersWithoutOwner(stacks[n], p)]
      /\ subs' = subs \ {p} /\ timers' = stopTimer(p)
      /\ UNCHANGED <<jobs, quit, viewports, closers, late>>
  BY DEF LoadFails, EndJob, rollbackRegistrations
<1>2. worker.job.kind = "load" /\ worker.job.p = p
  BY <1>1 DEF Job
<1>3. main = [pc |-> "waiting", p |-> p] /\ life[p] = "starting"
  BY <1>1, <1>2 DEF LoadPlaced
<1>4. \A i \in DOMAIN jobs : jobs[i].kind # "load"
  BY <1>3 DEF LoadPlaced
<1>5. \A q \in Plugins : life[q] = "starting" => q = p
  <2>1. \A q \in Plugins : life[q] = "starting" => worker.job = Job("load", q)
    BY DEF LoadPlaced
  <2>2. \A q \in Plugins : Job("load", q).p = q
    BY DEF Job
  <2>. QED BY <1>2, <2>1, <2>2
<1>6. life' \in [Plugins -> {"none", "starting", "committed", "closed"}]
      /\ life'[p] = "closed" /\ \A q \in Plugins \ {p} : life'[q] = life[q]
  BY <1>1 DEF TypeOK
<1>7. main' \in {[pc |-> "ready", p |-> p], [pc |-> "failed", p |-> p]}
  BY <1>3 DEF LoadFails
<1>8. /\ timers' \in [Plugins -> {"none", "running", "stopping", "ended"}]
      /\ timers'[p] # "running" /\ \A q \in Plugins \ {p} : timers'[q] = timers[q]
  BY <1>1 DEF stopTimer, TypeOK
<1>9. /\ stacks' \in [Names -> Seq(Plugins)]
      /\ \A n \in Names : \A k \in 1 .. Len(stacks'[n]) :
           stacks'[n][k] # p /\ \E i \in 1 .. Len(stacks[n]) : stacks'[n][k] = stacks[n][i]
  BY <1>1, WithoutOwner DEF TypeOK
<1>10. TypeOK'
  BY <1>1, <1>6, <1>7, <1>8, <1>9 DEF TypeOK
<1>11. RegistrationsOwned'
  <2> SUFFICES ASSUME NEW q \in Plugins, life'[q] \in {"none", "closed"}
               PROVE  /\ q \notin subs' /\ timers'[q] # "running"
                      /\ \A n \in Names : \A i \in 1 .. Len(stacks'[n]) : stacks'[n][i] # q
    BY DEF RegistrationsOwned
  <2>1. CASE q = p
    BY <1>1, <1>8, <1>9, <2>1
  <2>2. CASE q # p
    <3>1. \A c \in Stoppers : closers[c] # "closed"
      BY <1>1 DEF ShutdownOrder
    <3>2. /\ q \notin subs /\ timers[q] # "running"
          /\ \A n \in Names : \A i \in 1 .. Len(stacks[n]) : stacks[n][i] # q
      BY <1>6, <2>2, <3>1 DEF RegistrationsOwned
    <3>3. q \notin subs' /\ timers'[q] # "running"
      BY <1>1, <1>8, <2>2, <3>2
    <3>4. \A n \in Names : \A i \in 1 .. Len(stacks'[n]) : stacks'[n][i] # q
      BY <1>9, <3>2
    <3>. QED BY <3>3, <3>4
  <2>. QED BY <2>1, <2>2
<1>12. LoadPlaced'
  BY <1>1, <1>4, <1>5, <1>6, <1>7 DEF LoadPlaced
<1>13. CallsCommitted'
  <2>1. \A i \in DOMAIN jobs : jobs[i].p \in Plugins
    <3>1. \A i \in DOMAIN jobs : jobs[i] \in Jobs
      BY DEF TypeOK
    <3>. QED BY <3>1 DEF Jobs
  <2>. QED BY <1>1, <1>3, <1>6, <2>1 DEF CallsCommitted
<1>14. ExecLive'
  BY <1>1 DEF ExecLive
<1>15. ShutdownOrder' /\ LateCounted'
  BY <1>1, <1>3 DEF ShutdownOrder, LateCounted, OneLateJob
<1>. QED BY <1>10, <1>11, <1>12, <1>13, <1>14, <1>15

\* The steps of one goroutine that no Lua state and no queued job sees: loading is
\* over, a callback returns, a ticker exits.
LEMMA QuietIInv ==
  ASSUME PluginIInv,
         FinishLoading \/ CallbackEnds \/ \E p \in Plugins : TickerExits(p)
  PROVE  PluginIInv'
<1> USE DEF PluginIInv, Lua
<1>1. CASE FinishLoading
  <2>1. main.pc = "ready" /\ main' = [pc |-> "loaded", p |-> main.p] /\ main.p \in Plugins
        /\ UNCHANGED <<jobs, quit, worker, life, stacks, subs, timers, viewports, closers, late>>
    BY <1>1 DEF FinishLoading, TypeOK
  <2>2. TypeOK' /\ RegistrationsOwned' /\ CallsCommitted'
    BY <2>1 DEF TypeOK, RegistrationsOwned, CallsCommitted
  <2>3. LoadPlaced'
    BY <2>1 DEF LoadPlaced
  <2>4. ExecLive' /\ ShutdownOrder' /\ LateCounted'
    BY <2>1 DEF ExecLive, ShutdownOrder, LateCounted, OneLateJob
  <2>. QED BY <2>2, <2>3, <2>4
<1>2. CASE CallbackEnds
  <2>1. /\ worker.pc = "run" /\ worker.job.kind # "load"
        /\ worker' = [pc |-> "check", job |-> NoJob, exec |-> {}]
        /\ UNCHANGED <<jobs, quit, main, life, stacks, subs, timers, viewports, closers, late>>
    BY <1>2 DEF CallbackEnds, EndJob
  <2>2. TypeOK' /\ RegistrationsOwned' /\ CallsCommitted'
    BY <2>1 DEF TypeOK, RegistrationsOwned, CallsCommitted
  <2>3. LoadPlaced'
    <3>1. \A p \in Plugins : Job("load", p).kind = "load"
      BY DEF Job
    <3>2. \A p \in Plugins : life[p] # "starting"
      BY <2>1, <3>1 DEF LoadPlaced
    <3>. QED BY <2>1, <3>2 DEF LoadPlaced
  <2>4. ExecLive' /\ ShutdownOrder' /\ LateCounted'
    BY <2>1 DEF ExecLive, ShutdownOrder, LateCounted, OneLateJob
  <2>. QED BY <2>2, <2>3, <2>4
<1>3. ASSUME NEW p \in Plugins, TickerExits(p) PROVE PluginIInv'
  <2>1. /\ timers' = [timers EXCEPT ![p] = "ended"]
        /\ UNCHANGED <<jobs, quit, worker, main, life, stacks, subs, viewports, closers, late>>
    BY <1>3 DEF TickerExits
  <2>2. TypeOK' /\ RegistrationsOwned' /\ CallsCommitted'
    BY <2>1 DEF TypeOK, RegistrationsOwned, CallsCommitted
  <2>3. LoadPlaced'
    BY <2>1 DEF LoadPlaced
  <2>4. ExecLive' /\ ShutdownOrder' /\ LateCounted'
    BY <2>1 DEF ExecLive, ShutdownOrder, LateCounted, OneLateJob
  <2>. QED BY <2>2, <2>3, <2>4
<1>. QED BY <1>1, <1>2, <1>3

\* Close: quit first, and the states only after the worker has ended.
LEMMA CloseIInv ==
  ASSUME PluginIInv, NEW c \in Stoppers, Close(c)
  PROVE  PluginIInv'
<1> USE DEF PluginIInv, Lua
<1>1. /\ closers' = [closers EXCEPT ![c] = closers'[c]] /\ closers'[c] # "idle"
      /\ closers'[c] \in {"stopping", "stopped", "closing", "closed"}
      /\ UNCHANGED <<jobs, worker, main, stacks, subs, viewports, late>>
  BY DEF Close, Stop, Stopped, CloseTimers, CloseStates, TypeOK
<1>2. /\ quit' \in BOOLEAN /\ quit' /\ (quit' # quit => main.pc \in {"loaded", "failed"})
      /\ closers'[c] # "stopping" => worker.pc = "done"
  BY DEF Close, Stop, Stopped, CloseTimers, CloseStates, ShutdownOrder, TypeOK
<1>3. /\ timers' \in [Plugins -> {"none", "running", "stopping", "ended"}]
      /\ \A p \in Plugins : timers'[p] = "running" => timers[p] = "running"
  BY DEF Close, Stop, Stopped, CloseTimers, CloseStates, TypeOK
<1>4. /\ life' \in [Plugins -> {"none", "starting", "committed", "closed"}]
      /\ \A p \in Plugins : life'[p] \in {"none", "starting"} => life[p] = life'[p]
      /\ \A p \in Plugins : life[p] \in {"none", "starting"} => life[p] = life'[p]
      /\ life' = life \/ (worker.pc = "done" /\ closers'[c] = "closed")
  BY DEF Close, Stop, Stopped, CloseTimers, CloseStates, ShutdownOrder, TypeOK
<1> HIDE DEF Close
<1>5. TypeOK'
  <2>1. closers' \in [Stoppers -> {"idle", "stopping", "stopped", "closing", "closed"}]
    BY <1>1 DEF TypeOK
  <2>. QED BY <1>1, <1>2, <1>3, <1>4, <2>1 DEF TypeOK
<1>6. RegistrationsOwned'
  <2>1. CASE closers'[c] = "closed"
    BY <2>1 DEF RegistrationsOwned
  <2>2. CASE closers'[c] # "closed"
    <3>1. life' = life
      BY <1>4, <2>2
    <3>2. (\A k \in Stoppers : closers'[k] # "closed") => (\A k \in Stoppers : k # c => closers[k] # "closed")
      BY <1>1 DEF TypeOK
    <3>3. closers[c] # "closed"
      BY DEF Close, Stop, Stopped, CloseTimers, CloseStates
    <3>. QED BY <1>1, <1>3, <3>1, <3>2, <3>3 DEF RegistrationsOwned
  <2>. QED BY <2>1, <2>2
<1>7. LoadPlaced'
  <2>1. main.p \in Plugins
    BY DEF TypeOK
  <2>. QED BY <1>1, <1>4, <2>1 DEF LoadPlaced
<1>8. CallsCommitted' /\ ExecLive'
  BY <1>1, <1>4 DEF CallsCommitted, ExecLive, TypeOK
<1>9. ShutdownOrder'
  BY <1>1, <1>2 DEF ShutdownOrder, TypeOK
<1>10. LateCounted'
  BY <1>1, <1>2 DEF LateCounted, OneLateJob
<1>. QED BY <1>5, <1>6, <1>7, <1>8, <1>9, <1>10

\* Every step of the host keeps the invariant.
LEMMA NextPlugin == PluginIInv /\ [Next]_vars => PluginIInv'
<1> SUFFICES ASSUME PluginIInv, [Next]_vars PROVE PluginIInv'
  OBVIOUS
<1>1. CASE Work
  BY <1>1, CheckIInv, TakeJobIInv, LoadSucceedsIInv, LoadFailsIInv, QuietIInv DEF Work, Load
<1>2. CASE RunLua
  BY <1>2, RunLuaIInv
<1>3. CASE FinishLoading \/ Emit \/ \E n \in Names : RunCommand(n)
  BY <1>3, QuietIInv, QueueIInv, RunCommandIInv
<1>4. CASE \E p \in Plugins : DoLoad(p) \/ Press(p) \/ Tick(p) \/ TickerExits(p)
  BY <1>4, DoLoadIInv, QueueIInv, QuietIInv
<1>5. CASE \E c \in Stoppers : Close(c)
  BY <1>5, CloseIInv
<1>6. CASE UNCHANGED vars
  <2>1. UNCHANGED <<jobs, quit, worker, main, life, stacks, subs, timers, viewports, closers, late>>
    BY <1>6 DEF vars
  <2>. QED BY <2>1 DEF PluginIInv, TypeOK, RegistrationsOwned, LoadPlaced, CallsCommitted,
                     ExecLive, ShutdownOrder, LateCounted, OneLateJob
<1>. QED BY <1>1, <1>2, <1>3, <1>4, <1>5, <1>6 DEF Next

-----------------------------------------------------------------------------
(* The theorems                                                            *)

\* The host's state stays within its types, in every behaviour.
THEOREM PluginTypes == Spec => []TypeOK
<1>1. PluginIInv => TypeOK
  BY DEF PluginIInv
<1>. QED BY <1>1, InitPlugin, NextPlugin, PTL DEF Spec

\* However many plugins load, fail and register, and however many goroutines queue
\* jobs and call Close: no job executes Lua on a closed state, what is registered
\* belongs to a live one, and one job at most begins late.
THEOREM PluginSafety == Spec => []PluginsSafe
<1>1. PluginIInv => PluginsSafe
  BY DEF PluginIInv, PluginsSafe, NoUseAfterClose, ExecLive, LateCounted
<1>. QED BY <1>1, InitPlugin, NextPlugin, PTL DEF Spec
-----------------------------------------------------------------------------
(* The floating panel of a plugin, for any screens, heights and cells of   *)
(* the pointer.                                                            *)

\* The larger of two numbers, for a set maximum.
LEMMA MaxOfTwo ==
  ASSUME NEW a \in Int, NEW b \in Int
  PROVE  Max({a, b}) = IF a >= b THEN a ELSE b
<1> DEFINE m == IF a >= b THEN a ELSE b
<1>1. m \in {a, b} /\ \A y \in {a, b} : m >= y
  OBVIOUS
<1>2. Max({a, b}) \in {a, b} /\ \A y \in {a, b} : Max({a, b}) >= y
  BY <1>1 DEF Max
<1>. QED BY <1>2

\* The smaller of two numbers, likewise.
LEMMA MinOfTwo ==
  ASSUME NEW a \in Int, NEW b \in Int
  PROVE  Min({a, b}) = IF a <= b THEN a ELSE b
<1> DEFINE m == IF a <= b THEN a ELSE b
<1>1. m \in {a, b} /\ \A y \in {a, b} : m <= y
  OBVIOUS
<1>2. Min({a, b}) \in {a, b} /\ \A y \in {a, b} : Min({a, b}) <= y
  BY <1>1 DEF Min
<1>. QED BY <1>2

\* A clamped place fits, and one that fits is left alone.
LEMMA WithinBounds ==
  ASSUME NEW v \in Int, NEW hi \in Int, 0 <= hi
  PROVE  /\ Within(v, 0, hi) \in Nat /\ Fits(Within(v, 0, hi), hi)
         /\ v >= 0 /\ Fits(v, hi) => Within(v, 0, hi) = v
BY DEF Within, Fits

\* The same of a panel of length b on a screen of length a.
LEMMA WithinScreen ==
  ASSUME NEW v \in Int, NEW a \in Nat, NEW b \in Nat, b <= a
  PROVE  /\ Within(v, 0, a - b) \in Nat /\ Fits(Within(v, 0, a - b), a - b)
         /\ v >= 0 /\ Fits(v, a - b) => Within(v, 0, a - b) = v
<1>1. a - b \in Int /\ 0 <= a - b
  OBVIOUS
<1>. QED BY <1>1, WithinBounds

\* The width and the height of a panel as drawn.
Wide(p, s) == IF p.w <= s[1] THEN p.w ELSE s[1]
Full(p, s) == IF p.h <= s[2] THEN p.h ELSE s[2]
High(p, s) == IF p.collapsed THEN IF 1 <= s[2] THEN 1 ELSE s[2] ELSE Full(p, s)

\* A panel is no larger than the screen.
LEMMA OnTheScreen ==
  ASSUME NEW p \in PanelStates, NEW s \in Nat \X Nat
  PROVE  Wide(p, s) <= s[1] /\ High(p, s) <= s[2]
<1>1. p.w \in Nat /\ p.h \in Nat /\ s[1] \in Nat /\ s[2] \in Nat
  BY DEF PanelStates, Sizes
<1>. QED BY <1>1 DEF Wide, Full, High

\* A panel is drawn on the screen, at its place where that is possible.
LEMMA BoundsValue ==
  ASSUME NEW p \in PanelStates, NEW s \in Nat \X Nat
  PROVE  /\ Bounds(p, s) = [x |-> Bounds(p, s).x, y |-> Bounds(p, s).y, w |-> Wide(p, s), h |-> High(p, s)]
         /\ Bounds(p, s) \in Rects
         /\ Fits(Bounds(p, s).x, s[1] - Wide(p, s)) /\ Fits(Bounds(p, s).y, s[2] - High(p, s))
         /\ p.placed => /\ Bounds(p, s).x = Within(p.x, 0, s[1] - Wide(p, s))
                        /\ Bounds(p, s).y = Within(p.y, 0, s[2] - High(p, s))
<1> DEFINE cx == (s[1] - Wide(p, s)) \div 2
           cy == (s[2] - Full(p, s)) \div 2
           x == IF p.placed THEN p.x ELSE Max({cx, 0})
           y == IF p.placed THEN p.y ELSE Max({cy, 0})
<1>1. /\ p.w \in Nat /\ p.h \in Nat /\ p.x \in Nat /\ p.y \in Nat /\ s[1] \in Nat /\ s[2] \in Nat
      /\ p.placed \in BOOLEAN /\ p.collapsed \in BOOLEAN
  BY DEF PanelStates, Sizes
<1>2. /\ Wide(p, s) \in Nat /\ Full(p, s) \in Nat /\ High(p, s) \in Nat
      /\ Wide(p, s) <= s[1] /\ High(p, s) <= s[2]
  BY <1>1 DEF Wide, Full, High
<1>3. Min({p.w, s[1]}) = Wide(p, s) /\ Min({p.h, s[2]}) = Full(p, s)
  BY <1>1, MinOfTwo DEF Wide, Full
<1>4. (IF p.collapsed THEN Min({1, s[2]}) ELSE Full(p, s)) = High(p, s)
  BY <1>1, MinOfTwo DEF High
<1>5. cx \in Int /\ cy \in Int
  BY <1>1, <1>2
<1>6. x \in Nat /\ y \in Nat
  BY <1>1, <1>5, MaxOfTwo
<1>7. Bounds(p, s) = [x |-> Within(x, 0, s[1] - Wide(p, s)), y |-> Within(y, 0, s[2] - High(p, s)),
                      w |-> Wide(p, s), h |-> High(p, s)]
  BY <1>3, <1>4 DEF Bounds
<1> HIDE DEF x, y
<1>8. /\ Within(x, 0, s[1] - Wide(p, s)) \in Nat /\ Fits(Within(x, 0, s[1] - Wide(p, s)), s[1] - Wide(p, s))
      /\ Within(y, 0, s[2] - High(p, s)) \in Nat /\ Fits(Within(y, 0, s[2] - High(p, s)), s[2] - High(p, s))
  <2>1. x \in Int /\ y \in Int
    BY <1>6
  <2>. QED BY <1>1, <1>2, <2>1, WithinScreen
<1>9. p.placed => x = p.x /\ y = p.y
  BY DEF x, y
<1>. QED BY <1>2, <1>7, <1>8, <1>9 DEF Rects

\* A panel is drawn as wide and as high as its state says, on any screen.
LEMMA DrawnSize ==
  ASSUME NEW p \in PanelStates, NEW s \in Nat \X Nat
  PROVE  Bounds(p, s).w = Wide(p, s) /\ Bounds(p, s).h = High(p, s)
<1> DEFINE x == Bounds(p, s).x
           y == Bounds(p, s).y
<1>1. Bounds(p, s) = [x |-> x, y |-> y, w |-> Wide(p, s), h |-> High(p, s)]
  BY BoundsValue
<1> HIDE DEF x, y
<1>. QED BY <1>1

\* Drawing a panel only asks for its size, its place and whether it is collapsed.
LEMMA SameBounds ==
  ASSUME NEW p \in PanelStates, NEW q \in PanelStates, NEW s,
         p.w = q.w, p.h = q.h, p.collapsed = q.collapsed, p.placed = q.placed, p.x = q.x, p.y = q.y
  PROVE  Bounds(p, s) = Bounds(q, s)
BY DEF Bounds

\* The panel at another size.
Sized(p, w, h) == [p EXCEPT !.w = w, !.h = h]

\* Two panels in one place, made the same size, are drawn in the same cells.
LEMMA SizedBounds ==
  ASSUME NEW p \in PanelStates, NEW q \in PanelStates, NEW s, NEW w \in Sizes, NEW h \in Sizes,
         \A f \in {"x", "y", "placed", "collapsed"} : p[f] = q[f]
  PROVE  Bounds(Sized(p, w, h), s) = Bounds(Sized(q, w, h), s)
<1>1. /\ Sized(p, w, h) \in PanelStates /\ Sized(q, w, h) \in PanelStates
      /\ Sized(p, w, h).w = w /\ Sized(p, w, h).h = h /\ Sized(q, w, h).w = w /\ Sized(q, w, h).h = h
      /\ Sized(p, w, h).collapsed = Sized(q, w, h).collapsed
      /\ Sized(p, w, h).placed = Sized(q, w, h).placed
      /\ Sized(p, w, h).x = Sized(q, w, h).x /\ Sized(p, w, h).y = Sized(q, w, h).y
  BY DEF PanelStates, Sized
<1>. QED BY <1>1, SameBounds

\* What SetSize changes of a panel, and what it leaves.
LEMMA SetSizeValue ==
  ASSUME NEW p \in PanelStates, NEW w \in Int, NEW h \in Int
  PROVE  /\ SetSize(p, w, h) \in PanelStates
         /\ SetSize(p, w, h).w = (IF w >= 2 THEN w ELSE 2) /\ SetSize(p, w, h).h = (IF h >= 2 THEN h ELSE 2)
         /\ \A f \in {"x", "y", "placed", "collapsed", "kept"} : SetSize(p, w, h)[f] = p[f]
<1> DEFINE sw == Max({w, 2})
           sh == Max({h, 2})
<1>1. sw = (IF w >= 2 THEN w ELSE 2) /\ sh = (IF h >= 2 THEN h ELSE 2)
  BY MaxOfTwo
<1>2. SetSize(p, w, h) = [p EXCEPT !.w = sw, !.h = sh]
  BY DEF SetSize
<1> HIDE DEF sw, sh
<1>3. sw \in Sizes /\ sh \in Sizes
  BY <1>1 DEF Sizes
<1>. QED BY <1>1, <1>2, <1>3 DEF PanelStates

\* A panel moved on its screen is drawn as near to the place asked for as the
\* screen allows.
LEMMA SetPositionValue ==
  ASSUME NEW p \in PanelStates, NEW x \in Int, NEW y \in Int, NEW s \in Nat \X Nat
  PROVE  /\ SetPosition(p, x, y, s) \in PanelStates
         /\ \A f \in {"w", "h", "collapsed", "kept"} : SetPosition(p, x, y, s)[f] = p[f]
         /\ SetPosition(p, x, y, s).placed
         /\ Bounds(SetPosition(p, x, y, s), s).x = Within(x, 0, s[1] - Wide(p, s))
         /\ Bounds(SetPosition(p, x, y, s), s).w = Wide(p, s)
         /\ ~p.collapsed => /\ Bounds(SetPosition(p, x, y, s), s).y = Within(y, 0, s[2] - High(p, s))
                            /\ Bounds(SetPosition(p, x, y, s), s).h = High(p, s)
<1> DEFINE sx == Within(x, 0, Max({s[1] - p.w, 0}))
           sy == Within(y, 0, Max({s[2] - p.h, 0}))
           q == SetPosition(p, x, y, s)
<1>1. /\ p.w \in Nat /\ p.h \in Nat /\ s[1] \in Nat /\ s[2] \in Nat /\ p.collapsed \in BOOLEAN
  BY DEF PanelStates, Sizes
<1>2. q = [p EXCEPT !.placed = TRUE, !.x = sx, !.y = sy]
  BY PanelAssumption DEF SetPosition
<1>3. Max({s[1] - p.w, 0}) = s[1] - Wide(p, s) /\ Max({s[2] - p.h, 0}) = s[2] - Full(p, s)
  BY <1>1, MaxOfTwo DEF Wide, Full
<1>4. /\ Wide(p, s) \in Nat /\ Full(p, s) \in Nat /\ High(p, s) \in Nat
      /\ 0 <= s[1] - Wide(p, s) /\ 0 <= s[2] - Full(p, s) /\ 0 <= s[2] - High(p, s)
      /\ ~p.collapsed => High(p, s) = Full(p, s)
  BY <1>1 DEF Wide, Full, High
<1>5. sx = Within(x, 0, s[1] - Wide(p, s)) /\ sy = Within(y, 0, s[2] - Full(p, s))
  BY <1>3
<1> HIDE DEF sx, sy
<1>6. /\ sx \in Nat /\ Fits(sx, s[1] - Wide(p, s))
      /\ sy \in Nat /\ Fits(sy, s[2] - Full(p, s))
  BY <1>1, <1>4, <1>5, WithinBounds
<1>7. /\ q \in PanelStates /\ q.placed /\ q.x = sx /\ q.y = sy
      /\ q.w = p.w /\ q.h = p.h /\ q.collapsed = p.collapsed /\ q.kept = p.kept
  BY <1>2, <1>6 DEF PanelStates
<1> HIDE DEF q
<1>8. Wide(q, s) = Wide(p, s) /\ High(q, s) = High(p, s)
  BY <1>7 DEF Wide, Full, High
<1>9. /\ Bounds(q, s).x = Within(sx, 0, s[1] - Wide(p, s)) /\ Bounds(q, s).w = Wide(p, s)
      /\ Bounds(q, s).y = Within(sy, 0, s[2] - High(p, s)) /\ Bounds(q, s).h = High(p, s)
  BY <1>7, <1>8, BoundsValue
<1>10. Within(sx, 0, s[1] - Wide(p, s)) = Within(x, 0, s[1] - Wide(p, s))
  BY <1>1, <1>4, <1>5, <1>6, WithinBounds
<1>11. ~p.collapsed => Within(sy, 0, s[2] - High(p, s)) = Within(y, 0, s[2] - High(p, s))
  BY <1>1, <1>4, <1>5, <1>6, WithinBounds
<1>12. \A f \in {"w", "h", "collapsed", "kept"} : q[f] = p[f]
  BY <1>7
<1>. QED BY <1>7, <1>9, <1>10, <1>11, <1>12 DEF q

\* The panel a plugin opens takes the place of the one on the screen, and its size
\* when the user chose it.
LEMMA ReopenValue ==
  ASSUME PanelTypeOK, NEW h \in PanelHeights
  PROVE  /\ Reopen(panel, h) \in PanelStates
         /\ panel # Nil /\ lastDrawn.w > 0 /\ panel.kept =>
              /\ Reopen(panel, h).w = panel.w /\ Reopen(panel, h).h = panel.h
              /\ Reopen(panel, h).collapsed = panel.collapsed /\ Reopen(panel, h).placed
              /\ Reopen(panel, h).x = lastDrawn.x /\ Reopen(panel, h).y = lastDrawn.y
<1> DEFINE new == NewPanel(h)
           sized == [SetSize(new, panel.w, panel.h) EXCEPT !.kept = TRUE]
           size == IF panel.kept THEN sized ELSE new
           put(p) == [SetPosition(p, lastDrawn.x, lastDrawn.y, Nil) EXCEPT !.collapsed = panel.collapsed]
<1>1. /\ lastDrawn.x \in Nat /\ lastDrawn.y \in Nat /\ lastDrawn.w \in Nat
  BY DEF PanelTypeOK, Rects
<1>2. new \in PanelStates
  BY PanelAssumption DEF NewPanel, PanelStates
<1>3. Reopen(panel, h) = IF panel = Nil \/ lastDrawn.w = 0 THEN new ELSE put(size)
  BY DEF Reopen
<1> HIDE DEF new
<1>4. CASE panel = Nil \/ lastDrawn.w = 0
  BY <1>1, <1>2, <1>3, <1>4
<1>5. CASE ~(panel = Nil \/ lastDrawn.w = 0)
  <2>1. panel \in PanelStates
    BY <1>5 DEF PanelTypeOK
  <2>2. /\ panel.w \in Sizes /\ panel.h \in Sizes /\ panel.collapsed \in BOOLEAN /\ panel.kept \in BOOLEAN
    BY <2>1 DEF PanelStates
  <2>3. /\ SetSize(new, panel.w, panel.h) \in PanelStates
        /\ SetSize(new, panel.w, panel.h).w = panel.w /\ SetSize(new, panel.w, panel.h).h = panel.h
    BY <1>2, <2>2, SetSizeValue DEF Sizes
  <2>4. sized \in PanelStates /\ sized.w = panel.w /\ sized.h = panel.h
    BY <2>3 DEF PanelStates
  <2> HIDE DEF sized
  <2>5. size \in PanelStates /\ (panel.kept => size.w = panel.w /\ size.h = panel.h)
    BY <1>2, <2>2, <2>4
  <2> HIDE DEF size
  <2>6. Max({lastDrawn.x, 0}) = lastDrawn.x /\ Max({lastDrawn.y, 0}) = lastDrawn.y
    BY <1>1, MaxOfTwo
  <2>7. SetPosition(size, lastDrawn.x, lastDrawn.y, Nil)
          = [size EXCEPT !.placed = TRUE, !.x = lastDrawn.x, !.y = lastDrawn.y]
    BY <2>6 DEF SetPosition
  <2>8. /\ put(size) \in PanelStates
        /\ put(size).w = size.w /\ put(size).h = size.h /\ put(size).placed
        /\ put(size).x = lastDrawn.x /\ put(size).y = lastDrawn.y /\ put(size).collapsed = panel.collapsed
    BY <1>1, <2>2, <2>5, <2>7 DEF PanelStates
  <2> HIDE DEF put
  <2>. QED BY <1>3, <1>5, <2>5, <2>8
<1>. QED BY <1>4, <1>5

\* No panel and no drag at the start.
LEMMA PanelStart == PanelInit => PanelInv
BY PanelAssumption
   DEF PanelInit, PanelInv, PanelTypeOK, FrameFresh, GrabKept, Nowhere, Rects, PanelStates, Drags

\* A motion keeps the panel a panel, at the size or the place of the press.
LEMMA MotionKeeps ==
  ASSUME PanelInv, NEW pt \in Points, Motion(pt)
  PROVE  PanelInv'
<1> DEFINE d == <<pt[1] - dragged.at[1], pt[2] - dragged.at[2]>>
<1>1. /\ dragged \in Drags /\ dragged' = dragged /\ avail' = avail /\ lastDrawn' = lastDrawn
      /\ finished' = finished /\ due' = TRUE
      /\ panel' = IF OnItsPanel THEN Moved(panel, dragged, pt) ELSE panel
  BY DEF Motion, PanelInv, PanelTypeOK
<1>2. /\ avail \in Nat \X Nat /\ pt \in Int \X Int
      /\ dragged.at \in Int \X Int /\ dragged.from \in Int \X Int /\ dragged.on \in Nat \X Nat
      /\ dragged.was \in Rects /\ dragged.kind \in {"move", "resize", "under"}
  BY <1>1, PanelAssumption DEF PanelInv, PanelTypeOK, Drags
<1>3. d[1] \in Int /\ d[2] \in Int
  BY <1>2
<1>4. CASE ~OnItsPanel
  <2>1. panel' = panel
    BY <1>1, <1>4
  <2>. QED BY <1>1, <1>4, <2>1 DEF PanelInv, PanelTypeOK, FrameFresh, GrabKept, OnItsPanel
<1>5. CASE OnItsPanel /\ dragged.kind = "move"
  <2>1. panel \in PanelStates
    BY <1>1, <1>5, PanelAssumption DEF PanelInv, PanelTypeOK, GrabKept
  <2>2. panel' = SetPosition(panel, dragged.from[1] + d[1], dragged.from[2] + d[2], avail)
    BY <1>1, <1>5 DEF Moved
  <2>3. dragged.from[1] + d[1] \in Int /\ dragged.from[2] + d[2] \in Int
    BY <1>2, <1>3
  <2> HIDE DEF d
  <2>4. /\ panel' \in PanelStates /\ panel'.w = panel.w /\ panel'.h = panel.h
        /\ panel'.collapsed = panel.collapsed
    BY <1>2, <2>1, <2>2, <2>3, SetPositionValue
  <2>5. Wide(panel', dragged.on) = Wide(panel, dragged.on) /\ High(panel', dragged.on) = High(panel, dragged.on)
    BY <2>4 DEF Wide, High, Full
  <2>6. panel' # Nil
    BY <2>4, PanelAssumption
  <2>7. GrabKept'
    <3>1. /\ dragged.from = <<dragged.was.x, dragged.was.y>>
          /\ Bounds(panel, dragged.on).w = dragged.was.w /\ Bounds(panel, dragged.on).h = dragged.was.h
          /\ Fits(dragged.was.x, dragged.on[1] - dragged.was.w) /\ Fits(dragged.was.y, dragged.on[2] - dragged.was.h)
      BY <1>1, <1>5, PanelAssumption DEF PanelInv, GrabKept
    <3>2. Bounds(panel', dragged.on).w = dragged.was.w /\ Bounds(panel', dragged.on).h = dragged.was.h
      BY <1>2, <2>1, <2>4, <2>5, <3>1, DrawnSize
    <3>. QED BY <1>1, <1>5, <2>6, <3>1, <3>2 DEF GrabKept
  <2>. QED BY <1>1, <2>4, <2>7 DEF PanelInv, PanelTypeOK, FrameFresh
<1>6. CASE OnItsPanel /\ dragged.kind = "resize"
  <2>1. panel \in PanelStates
    BY <1>1, <1>6, PanelAssumption DEF PanelInv, PanelTypeOK, GrabKept
  <2>2. panel' = SetSize(panel, dragged.from[1] + d[1], dragged.from[2] + d[2])
    BY <1>1, <1>6 DEF Moved
  <2>3. dragged.from[1] + d[1] \in Int /\ dragged.from[2] + d[2] \in Int
    BY <1>2, <1>3
  <2> HIDE DEF d
  <2>4. /\ panel' \in PanelStates
        /\ \A f \in {"x", "y", "placed", "collapsed", "kept"} : panel'[f] = panel[f]
    BY <2>1, <2>2, <2>3, SetSizeValue
  <2>5. panel' # Nil
    BY <2>4, PanelAssumption
  <2>6. ASSUME dragged.from \in Sizes \X Sizes
        PROVE  Bounds([panel' EXCEPT !.w = dragged.from[1], !.h = dragged.from[2]], dragged.on)
                 = Bounds([panel EXCEPT !.w = dragged.from[1], !.h = dragged.from[2]], dragged.on)
    <3> DEFINE w == dragged.from[1]
               h == dragged.from[2]
    <3>1. w \in Sizes /\ h \in Sizes
      BY <2>6
    <3> HIDE DEF w, h
    <3>2. Bounds(Sized(panel', w, h), dragged.on) = Bounds(Sized(panel, w, h), dragged.on)
      BY <2>1, <2>4, <3>1, SizedBounds
    <3>. QED BY <3>2 DEF w, h, Sized
  <2>7. GrabKept'
    <3>1. /\ dragged.from \in Sizes \X Sizes
          /\ Bounds([panel EXCEPT !.w = dragged.from[1], !.h = dragged.from[2]], dragged.on) = dragged.was
      BY <1>1, <1>6, PanelAssumption DEF PanelInv, GrabKept
    <3>2. Bounds([panel' EXCEPT !.w = dragged.from[1], !.h = dragged.from[2]], dragged.on) = dragged.was
      BY <2>6, <3>1
    <3>. QED BY <1>1, <1>6, <2>5, <3>1, <3>2 DEF GrabKept
  <2>. QED BY <1>1, <2>4, <2>7 DEF PanelInv, PanelTypeOK, FrameFresh
<1>. QED BY <1>2, <1>4, <1>5, <1>6 DEF OnItsPanel

\* A press starts a drag with the rectangle it was drawn in.
LEMMA GrabKeeps ==
  ASSUME PanelInv, NEW pt \in Points, Grab(pt)
  PROVE  PanelInv'
<1>1. /\ ~due /\ dragged = Nil /\ due' = TRUE /\ avail' = avail /\ lastDrawn' = lastDrawn /\ finished' = finished
  BY DEF Grab
<1>2. /\ avail \in Screens /\ avail \in Nat \X Nat /\ pt \in Int \X Int /\ lastDrawn \in Rects
      /\ panel \in PanelStates \cup {Nil} /\ finished \in BOOLEAN
  BY PanelAssumption DEF PanelInv, PanelTypeOK
<1>3. lastDrawn.x \in Int /\ lastDrawn.y \in Int
  BY <1>2 DEF Rects
<1>4. CASE OnPanel(pt) /\ (\E op \in Handles(pt) : dragged' = op) /\ panel' = panel
  <2>1. panel \in PanelStates /\ lastDrawn = Bounds(panel, avail)
    BY <1>1, <1>2, <1>4 DEF OnPanel, PanelInv, FrameFresh
  <2>2. panel.w \in Sizes /\ panel.h \in Sizes
    BY <2>1 DEF PanelStates
  <2>3. /\ lastDrawn.w = Wide(panel, avail) /\ lastDrawn.h = High(panel, avail)
        /\ Fits(lastDrawn.x, avail[1] - lastDrawn.w) /\ Fits(lastDrawn.y, avail[2] - lastDrawn.h)
    <3>1. Bounds(panel, avail).w = Wide(panel, avail) /\ Bounds(panel, avail).h = High(panel, avail)
      BY <1>2, <2>1, DrawnSize
    <3>. QED BY <1>2, <2>1, <3>1, BoundsValue
  <2>4. CASE dragged' = [kind |-> "move", at |-> pt, from |-> <<lastDrawn.x, lastDrawn.y>>, live |-> TRUE,
                         was |-> lastDrawn, on |-> avail]
    <3>1. dragged' \in Drags
      BY <1>2, <1>3, <2>4 DEF Drags
    <3>2. GrabKept'
      BY <1>1, <1>4, <2>1, <2>3, <2>4, PanelAssumption DEF GrabKept
    <3>. QED BY <1>1, <1>2, <1>4, <3>1, <3>2 DEF PanelInv, PanelTypeOK, FrameFresh
  <2>5. CASE dragged' = [kind |-> "resize", at |-> pt, from |-> <<panel.w, panel.h>>, live |-> TRUE,
                         was |-> lastDrawn, on |-> avail]
    <3>1. dragged' \in Drags
      BY <1>2, <2>2, <2>5 DEF Drags, Sizes
    <3>2. [panel EXCEPT !.w = panel.w, !.h = panel.h] = panel
      BY <2>1 DEF PanelStates
    <3>3. GrabKept'
      BY <1>1, <1>4, <2>1, <2>2, <2>5, <3>2, PanelAssumption DEF GrabKept
    <3>. QED BY <1>1, <1>2, <1>4, <3>1, <3>3 DEF PanelInv, PanelTypeOK, FrameFresh
  <2>. QED BY <1>4, <2>4, <2>5 DEF Handles
<1>5. CASE /\ panel' = IF OnPanelToggle(pt) THEN [panel EXCEPT !.collapsed = ~@] ELSE panel
           /\ OnPanel(pt) /\ dragged' = dragged
  <2>1. panel \in PanelStates
    BY <1>2, <1>5 DEF OnPanel
  <2>2. [panel EXCEPT !.collapsed = ~panel.collapsed] \in PanelStates
    BY <2>1 DEF PanelStates
  <2>3. panel' \in PanelStates
    BY <1>5, <2>1, <2>2
  <2>. QED BY <1>1, <1>2, <1>5, <2>3 DEF PanelInv, PanelTypeOK, FrameFresh, GrabKept
<1>6. CASE /\ dragged' = [kind |-> "under", at |-> pt, from |-> pt, live |-> TRUE, was |-> lastDrawn, on |-> avail]
           /\ panel' = panel
  <2>1. dragged' \in Drags
    BY <1>2, <1>6 DEF Drags
  <2>2. GrabKept'
    BY <1>6 DEF GrabKept, OnItsPanel
  <2>. QED BY <1>1, <1>2, <1>6, <2>1, <2>2 DEF PanelInv, PanelTypeOK, FrameFresh
<1>. QED BY <1>4, <1>5, <1>6 DEF Grab

\* The end of a drag leaves a panel, wherever it is put.
LEMMA EndKeeps ==
  ASSUME PanelInv, NEW commit \in BOOLEAN, End(commit)
  PROVE  PanelInv'
<1>1. /\ dragged \in Drags /\ dragged' = Nil /\ avail' = avail /\ lastDrawn' = lastDrawn
      /\ finished' = commit /\ due' = TRUE
      /\ panel' = IF ~OnItsPanel THEN panel
                  ELSE IF commit THEN Committed(panel, dragged) ELSE PutBack(panel, dragged)
  BY DEF End, PanelInv, PanelTypeOK
<1>2. avail \in Nat \X Nat /\ dragged.from \in Int \X Int /\ panel \in PanelStates \cup {Nil}
  BY <1>1, PanelAssumption DEF PanelInv, PanelTypeOK, Drags
<1>3. panel' \in PanelStates \cup {Nil}
  <2>1. CASE ~OnItsPanel
    BY <1>1, <1>2, <2>1
  <2>2. CASE OnItsPanel
    <3>1. panel \in PanelStates
      BY <1>1, <1>2, <2>2, PanelAssumption DEF PanelInv, GrabKept
    <3>2. Committed(panel, dragged) \in PanelStates
      BY <3>1 DEF Committed, PanelStates
    <3>3. PutBack(panel, dragged) \in PanelStates
      BY <1>2, <3>1, SetSizeValue, SetPositionValue DEF PutBack
    <3>. QED BY <1>1, <2>2, <3>2, <3>3
  <2>. QED BY <2>1, <2>2
<1>. QED BY <1>1, <1>3 DEF PanelInv, PanelTypeOK, FrameFresh, GrabKept

\* A plugin's call cuts the drag in progress off its panel.
LEMMA OpenKeeps ==
  ASSUME PanelInv, NEW h \in PanelHeights, OpenPluginViewport(h)
  PROVE  PanelInv'
<1>1. /\ panel' = Reopen(panel, h) /\ lastDrawn' = Nowhere /\ due' = TRUE /\ avail' = avail /\ finished' = finished
      /\ dragged' = IF dragged = Nil THEN Nil ELSE [dragged EXCEPT !.live = FALSE]
  BY DEF OpenPluginViewport
<1>2. panel' \in PanelStates
  BY <1>1, ReopenValue DEF PanelInv
<1>3. Nowhere \in Rects
  BY DEF Nowhere, Rects
<1>4. dragged' = Nil \/ (dragged' \in Drags /\ ~dragged'.live)
  <2> DEFINE cut == [dragged EXCEPT !.live = FALSE]
  <2>1. dragged \in Drags => cut \in Drags /\ ~cut.live
    BY DEF Drags
  <2>2. dragged' = IF dragged = Nil THEN Nil ELSE cut
    BY <1>1
  <2> HIDE DEF cut
  <2>. QED BY <2>1, <2>2 DEF PanelInv, PanelTypeOK
<1>5. GrabKept'
  BY <1>4 DEF GrabKept, OnItsPanel
<1>. QED BY <1>1, <1>2, <1>3, <1>4, <1>5 DEF PanelInv, PanelTypeOK, FrameFresh

\* The frame draws the panel where its state says.
LEMMA DrawKeeps ==
  ASSUME PanelInv, DrawPanel
  PROVE  PanelInv'
<1>1. /\ due' = FALSE /\ finished' = TRUE /\ avail' = avail /\ panel' = panel /\ dragged' = dragged
      /\ lastDrawn' = IF panel = Nil THEN Nowhere ELSE Bounds(panel, avail)
  BY DEF DrawPanel
<1>2. lastDrawn' \in Rects
  BY <1>1, BoundsValue, PanelAssumption DEF PanelInv, PanelTypeOK, Nowhere, Rects
<1>. QED BY <1>1, <1>2 DEF PanelInv, PanelTypeOK, FrameFresh, GrabKept, OnItsPanel

\* Every step of the pointer keeps the invariant.
LEMMA PanelStep == PanelInv /\ [PanelNext]_panelVars => PanelInv'
<1> SUFFICES ASSUME PanelInv, [PanelNext]_panelVars PROVE PanelInv'
  OBVIOUS
<1>1. CASE ResizeScreen
  BY <1>1 DEF ResizeScreen, PanelInv, PanelTypeOK, FrameFresh, GrabKept, OnItsPanel
<1>2. CASE UNCHANGED panelVars
  BY <1>2 DEF panelVars, PanelInv, PanelTypeOK, FrameFresh, GrabKept, OnItsPanel
<1>. QED BY <1>1, <1>2, DrawKeeps, OpenKeeps, GrabKeeps, MotionKeeps, EndKeeps DEF PanelNext

\* The frame is fresh when the pointer acts on it, and a drag of the panel of the
\* screen knows its size or its place at the press.
THEOREM PanelInvariance == PanelSpec => []PanelInv
BY PanelStart, PanelStep, PTL DEF PanelSpec

\* Escape puts a panel back where the press found it.
LEMMA PutBackStep ==
  ASSUME PanelInv, [PanelNext]_panelVars,
         dragged # Nil, dragged' = Nil, ~finished', OnItsPanel, dragged.on = avail, ~panel.collapsed
  PROVE  Bounds(panel', avail) = dragged.was
<1>1. End(FALSE)
  <2>1. \E commit \in BOOLEAN : End(commit)
    <3>1. [dragged EXCEPT !.live = FALSE] \in Drags
      BY DEF PanelInv, PanelTypeOK, Drags
    <3>2. [dragged EXCEPT !.live = FALSE] # Nil
      BY <3>1, PanelAssumption
    <3>. QED BY <3>2 DEF PanelNext, panelVars, DrawPanel, ResizeScreen, OpenPluginViewport, Grab, Motion
  <2>2. PICK commit \in BOOLEAN : End(commit)
    BY <2>1
  <2>3. commit = FALSE
    BY <2>2 DEF End
  <2>. QED BY <2>2, <2>3
<1>2. /\ dragged \in Drags /\ avail \in Nat \X Nat /\ panel \in PanelStates
      /\ dragged.from \in Int \X Int /\ dragged.was \in Rects /\ dragged.kind \in {"move", "resize"}
  BY PanelAssumption DEF PanelInv, PanelTypeOK, GrabKept, OnItsPanel, Drags
<1>3. panel' = PutBack(panel, dragged)
  BY <1>1 DEF End
<1>4. CASE dragged.kind = "move"
  <2> DEFINE r == dragged.was
  <2>1. /\ dragged.from = <<r.x, r.y>> /\ r.w = Wide(panel, avail) /\ r.h = High(panel, avail)
        /\ Fits(r.x, avail[1] - r.w) /\ Fits(r.y, avail[2] - r.h)
    BY <1>2, <1>4, DrawnSize, PanelAssumption DEF PanelInv, GrabKept
  <2>2. /\ r = [x |-> r.x, y |-> r.y, w |-> r.w, h |-> r.h]
        /\ r.x \in Nat /\ r.y \in Nat /\ r.w \in Nat /\ r.h \in Nat /\ avail[1] \in Nat /\ avail[2] \in Nat
    BY <1>2 DEF Rects
  <2> HIDE DEF r
  <2>. r.x \in Int /\ r.y \in Int
    BY <2>2
  <2>3. panel' = SetPosition(panel, r.x, r.y, avail)
    BY <1>3, <1>4, <2>1 DEF PutBack
  <2>4. Within(r.x, 0, avail[1] - r.w) = r.x /\ Within(r.y, 0, avail[2] - r.h) = r.y
    <3>1. r.w <= avail[1] /\ r.h <= avail[2]
      BY <1>2, <2>1, OnTheScreen
    <3>2. r.x >= 0 /\ r.y >= 0
      BY <2>2
    <3>. QED BY <2>1, <2>2, <3>1, <3>2, WithinScreen
  <2>5. /\ panel' \in PanelStates /\ Bounds(panel', avail).x = r.x /\ Bounds(panel', avail).y = r.y
        /\ Bounds(panel', avail).w = r.w /\ Bounds(panel', avail).h = r.h
    <3>1. /\ panel' \in PanelStates
          /\ Bounds(panel', avail).x = Within(r.x, 0, avail[1] - Wide(panel, avail))
          /\ Bounds(panel', avail).w = Wide(panel, avail)
          /\ Bounds(panel', avail).y = Within(r.y, 0, avail[2] - High(panel, avail))
          /\ Bounds(panel', avail).h = High(panel, avail)
      BY <1>2, <2>3, SetPositionValue
    <3>. QED BY <2>1, <2>4, <3>1
  <2>6. Bounds(panel', avail) \in Rects
    BY <1>2, <2>5, BoundsValue
  <2>. QED BY <2>2, <2>5, <2>6 DEF Rects, r
<1>5. CASE dragged.kind = "resize"
  <2> DEFINE w == dragged.from[1]
             h == dragged.from[2]
  <2>1. w \in Sizes /\ h \in Sizes /\ Bounds([panel EXCEPT !.w = w, !.h = h], avail) = dragged.was
    BY <1>5 DEF PanelInv, GrabKept
  <2>2. panel' = SetSize(panel, w, h)
    BY <1>3, <1>5 DEF PutBack
  <2> HIDE DEF w, h
  <2>. w \in Int /\ h \in Int /\ w >= 2 /\ h >= 2
    BY <2>1 DEF Sizes
  <2>3. Max({w, 2}) = w /\ Max({h, 2}) = h
    <3>1. Max({w, 2}) = IF w >= 2 THEN w ELSE 2
      BY MaxOfTwo
    <3>2. Max({h, 2}) = IF h >= 2 THEN h ELSE 2
      BY MaxOfTwo
    <3>. QED BY <3>1, <3>2
  <2>4. panel' = [panel EXCEPT !.w = w, !.h = h]
    BY <2>2, <2>3 DEF SetSize
  <2>. QED BY <2>1, <2>4
<1>. QED BY <1>2, <1>4, <1>5

\* The title bar follows the pointer as far as the screen allows.
LEMMA FollowStep ==
  ASSUME PanelInv, dragged # Nil, dragged.kind = "move", OnItsPanel, ~panel.collapsed,
         NEW pt \in Points, Motion(pt)
  PROVE  LET b == Bounds(panel', avail)
         IN /\ b.x = Within(dragged.from[1] + pt[1] - dragged.at[1], 0, avail[1] - b.w)
            /\ b.y = Within(dragged.from[2] + pt[2] - dragged.at[2], 0, avail[2] - b.h)
<1> DEFINE x == dragged.from[1] + pt[1] - dragged.at[1]
           y == dragged.from[2] + pt[2] - dragged.at[2]
<1>1. /\ dragged \in Drags /\ avail \in Nat \X Nat /\ panel \in PanelStates
      /\ dragged.from \in Int \X Int /\ dragged.at \in Int \X Int /\ pt \in Int \X Int
  BY PanelAssumption DEF PanelInv, PanelTypeOK, GrabKept, Drags
<1>2. /\ x \in Int /\ x = dragged.from[1] + (pt[1] - dragged.at[1])
      /\ y \in Int /\ y = dragged.from[2] + (pt[2] - dragged.at[2])
  BY <1>1
<1>3. panel' = SetPosition(panel, x, y, avail)
  BY <1>2 DEF Motion, Moved
<1> HIDE DEF x, y
<1>4. /\ Bounds(panel', avail).x = Within(x, 0, avail[1] - Wide(panel, avail))
      /\ Bounds(panel', avail).w = Wide(panel, avail)
      /\ Bounds(panel', avail).y = Within(y, 0, avail[2] - High(panel, avail))
      /\ Bounds(panel', avail).h = High(panel, avail)
  BY <1>1, <1>2, <1>3, SetPositionValue
<1>. QED BY <1>4 DEF x, y

\* A panel that is opened again is drawn as the one before.
LEMMA RefreshStep ==
  ASSUME PanelInv, [PanelNext]_panelVars, panel # Nil, lastDrawn.w > 0, lastDrawn' = Nowhere,
         panel.kept, dragged = Nil, ~due
  PROVE  Bounds(panel', avail) = lastDrawn
<1>1. panel \in PanelStates /\ avail \in Nat \X Nat /\ lastDrawn \in Rects /\ lastDrawn = Bounds(panel, avail)
  BY PanelAssumption DEF PanelInv, PanelTypeOK, FrameFresh
<1>2. lastDrawn' # lastDrawn
  BY <1>1 DEF Nowhere
<1>3. PICK h \in PanelHeights : OpenPluginViewport(h)
  BY <1>2 DEF PanelNext, panelVars, DrawPanel, ResizeScreen, Grab, Motion, End
<1> DEFINE q == Reopen(panel, h)
<1>4. panel' = q
  BY <1>3 DEF OpenPluginViewport
<1>5. /\ q \in PanelStates /\ q.w = panel.w /\ q.h = panel.h /\ q.collapsed = panel.collapsed
      /\ q.placed /\ q.x = lastDrawn.x /\ q.y = lastDrawn.y
  BY ReopenValue DEF PanelInv
<1> HIDE DEF q
<1>6. Wide(q, avail) = Wide(panel, avail) /\ High(q, avail) = High(panel, avail)
  BY <1>5 DEF Wide, High, Full
<1>7. lastDrawn.w = Wide(panel, avail) /\ lastDrawn.h = High(panel, avail)
  BY <1>1, DrawnSize
<1>8. Fits(lastDrawn.x, avail[1] - Wide(panel, avail)) /\ Fits(lastDrawn.y, avail[2] - High(panel, avail))
  BY <1>1, BoundsValue
<1>9. /\ lastDrawn.x \in Nat /\ lastDrawn.y \in Nat /\ lastDrawn.w \in Nat /\ lastDrawn.h \in Nat
      /\ avail[1] \in Nat /\ avail[2] \in Nat
  BY <1>1 DEF Rects
<1>10. /\ Within(q.x, 0, avail[1] - Wide(panel, avail)) = lastDrawn.x
       /\ Within(q.y, 0, avail[2] - High(panel, avail)) = lastDrawn.y
  <2>1. Wide(panel, avail) <= avail[1] /\ High(panel, avail) <= avail[2]
    BY <1>1, OnTheScreen
  <2>2. lastDrawn.x \in Int /\ lastDrawn.x >= 0 /\ lastDrawn.y \in Int /\ lastDrawn.y >= 0
        /\ Wide(panel, avail) \in Nat /\ High(panel, avail) \in Nat
    BY <1>7, <1>9
  <2>3. /\ Within(lastDrawn.x, 0, avail[1] - Wide(panel, avail)) = lastDrawn.x
        /\ Within(lastDrawn.y, 0, avail[2] - High(panel, avail)) = lastDrawn.y
    BY <1>8, <1>9, <2>1, <2>2, WithinScreen
  <2>. QED BY <1>5, <2>3
<1>11. /\ Bounds(q, avail).x = lastDrawn.x /\ Bounds(q, avail).y = lastDrawn.y
       /\ Bounds(q, avail) \in Rects
  BY <1>1, <1>5, <1>6, <1>10, BoundsValue
<1>12. Bounds(q, avail).w = lastDrawn.w /\ Bounds(q, avail).h = lastDrawn.h
  BY <1>1, <1>5, <1>6, <1>7, DrawnSize
<1>. QED BY <1>1, <1>4, <1>11, <1>12 DEF Rects

\* A drag moves and resizes a plugin's panel by what the pointer moved, its
\* cancellation puts the panel back, and a refresh leaves it where the user put it.
THEOREM PanelsFollow == PanelSpec => Panels
<1>1. PanelInv /\ [PanelNext]_panelVars =>
        [dragged # Nil /\ dragged' = Nil /\ ~finished' /\ OnItsPanel /\ dragged.on = avail /\ ~panel.collapsed =>
           Bounds(panel', avail) = dragged.was]_panelVars
  BY PutBackStep
<1>2. PanelInv /\ [PanelNext]_panelVars =>
        [dragged # Nil /\ dragged.kind = "move" /\ OnItsPanel /\ ~panel.collapsed =>
           \A pt \in Points : Motion(pt) =>
           LET b == Bounds(panel', avail)
           IN /\ b.x = Within(dragged.from[1] + pt[1] - dragged.at[1], 0, avail[1] - b.w)
              /\ b.y = Within(dragged.from[2] + pt[2] - dragged.at[2], 0, avail[2] - b.h)]_panelVars
  BY FollowStep
<1>3. PanelInv /\ [PanelNext]_panelVars =>
        [panel # Nil /\ panel' # Nil /\ lastDrawn.w > 0 /\ lastDrawn' = Nowhere /\ panel.kept /\ dragged = Nil /\ ~due =>
           Bounds(panel', avail) = lastDrawn]_panelVars
  BY RefreshStep
<1>. QED BY PanelInvariance, <1>1, <1>2, <1>3, PTL DEF PanelSpec, Panels, CancelPutsBack, DragFollows, RefreshKeepsPlace

-----------------------------------------------------------------------------
(* The toasts, for any pings, errors and slots of the notifier.            *)

\* Membership in the range of a sequence.
LEMMA ToSetIs == ASSUME NEW s PROVE \A x : x \in ToSet(s) <=> \E i \in DOMAIN s : s[i] = x
BY DEF ToSet

\* The elements of two sequences put together.
LEMMA Concat ==
  ASSUME NEW S, NEW a \in Seq(S), NEW b \in Seq(S)
  PROVE  /\ a \o b \in Seq(S) /\ Len(a \o b) = Len(a) + Len(b)
         /\ \A k \in 1 .. Len(a) : (a \o b)[k] = a[k]
         /\ \A k \in 1 .. Len(b) : (a \o b)[Len(a) + k] = b[k]
OBVIOUS

\* An element put before a sequence: newest first.
LEMMA PutFirst ==
  ASSUME NEW S, NEW s \in Seq(S), NEW t \in S
  PROVE  <<t>> \o s \in Seq(S) /\ ToSet(<<t>> \o s) = {t} \cup ToSet(s)
<1>1. /\ <<t>> \o s \in Seq(S) /\ Len(<<t>> \o s) = Len(s) + 1 /\ (<<t>> \o s)[1] = t
      /\ \A i \in 1 .. Len(s) : (<<t>> \o s)[i + 1] = s[i]
      /\ \A i \in 2 .. Len(s) + 1 : i - 1 \in 1 .. Len(s) /\ (<<t>> \o s)[i] = s[i - 1]
  OBVIOUS
<1> DEFINE u == <<t>> \o s
<1>2. u \in Seq(S) /\ Len(u) = Len(s) + 1 /\ DOMAIN u = 1 .. Len(s) + 1 /\ DOMAIN s = 1 .. Len(s) /\ Len(s) \in Nat
  BY <1>1
<1> HIDE DEF u
<1>3. \A i \in 1 .. Len(s) : i + 1 \in DOMAIN u /\ u[i + 1] = s[i]
  BY <1>1, <1>2 DEF u
<1>4. \A i \in DOMAIN u : i = 1 \/ (i - 1 \in DOMAIN s /\ u[i] = s[i - 1])
  BY <1>1, <1>2 DEF u
<1>5. 1 \in DOMAIN u /\ u[1] = t
  BY <1>1, <1>2 DEF u
<1>6. \A x : x \in ToSet(u) <=> x \in {t} \cup ToSet(s)
  <2>1. \A x \in ToSet(u) : x = t \/ x \in ToSet(s)
    BY <1>4, <1>5, ToSetIs
  <2>2. t \in ToSet(u) /\ \A x \in ToSet(s) : x \in ToSet(u)
    BY <1>2, <1>3, <1>5, ToSetIs
  <2>. QED BY <2>1, <2>2
<1>. QED BY <1>2, <1>6 DEF u

\* A sequence without its i-th element has all the others.
LEMMA WithoutRange ==
  ASSUME NEW S, NEW s \in Seq(S), NEW i \in DOMAIN s
  PROVE  /\ Without(s, i) \in Seq(S) /\ ToSet(Without(s, i)) \subseteq ToSet(s)
         /\ \A x \in ToSet(s) : x # s[i] => x \in ToSet(Without(s, i))
<1> DEFINE w == Without(s, i)
<1>1. i \in 1 .. Len(s) /\ Len(s) \in Nat /\ DOMAIN s = 1 .. Len(s)
  OBVIOUS
<1>2. /\ SubSeq(s, 1, i - 1) \in Seq(S) /\ Len(SubSeq(s, 1, i - 1)) = i - 1
      /\ \A k \in 1 .. i - 1 : SubSeq(s, 1, i - 1)[k] = s[k]
      /\ SubSeq(s, i + 1, Len(s)) \in Seq(S) /\ Len(SubSeq(s, i + 1, Len(s))) = Len(s) - i
      /\ \A k \in 1 .. Len(s) - i : SubSeq(s, i + 1, Len(s))[k] = s[k + i]
  <2>1. SubSeq(s, 1, i - 1) \in Seq(S) /\ Len(SubSeq(s, 1, i - 1)) = i - 1
    BY <1>1
  <2>2. \A k \in 1 .. i - 1 : SubSeq(s, 1, i - 1)[k] = s[k]
    BY <1>1
  <2>3. SubSeq(s, i + 1, Len(s)) \in Seq(S) /\ Len(SubSeq(s, i + 1, Len(s))) = Len(s) - i
    BY <1>1
  <2>4. \A k \in 1 .. Len(s) - i : SubSeq(s, i + 1, Len(s))[k] = s[k + i]
    BY <1>1
  <2>. QED BY <2>1, <2>2, <2>3, <2>4
<1> DEFINE a == SubSeq(s, 1, i - 1)
           b == SubSeq(s, i + 1, Len(s))
<1> HIDE DEF a, b
<1>3. /\ a \o b \in Seq(S) /\ Len(a \o b) = Len(s) - 1
      /\ \A k \in 1 .. i - 1 : (a \o b)[k] = s[k]
      /\ \A k \in i .. Len(s) - 1 : (a \o b)[k] = s[k + 1]
  <2>1. /\ a \in Seq(S) /\ Len(a) = i - 1 /\ b \in Seq(S) /\ Len(b) = Len(s) - i
        /\ \A k \in 1 .. i - 1 : a[k] = s[k]
        /\ \A k \in 1 .. Len(s) - i : b[k] = s[k + i]
    BY <1>2 DEF a, b
  <2>2. \A k \in i .. Len(s) - 1 :
          k - (i - 1) \in 1 .. Len(s) - i /\ (k - (i - 1)) + i = k + 1 /\ (i - 1) + (k - (i - 1)) = k
    BY <1>1
  <2>3. \A k \in i .. Len(s) - 1 : b[k - (i - 1)] = s[k + 1]
    BY <2>1, <2>2
  <2>. a \in Seq(S) /\ b \in Seq(S)
    BY <2>1
  <2> DEFINE c == a \o b
  <2>4. /\ c \in Seq(S) /\ Len(c) = (i - 1) + (Len(s) - i)
        /\ \A k \in 1 .. i - 1 : c[k] = a[k]
        /\ \A k \in 1 .. Len(s) - i : c[(i - 1) + k] = b[k]
    <3>1. /\ c \in Seq(S) /\ Len(c) = Len(a) + Len(b)
          /\ \A k \in 1 .. Len(a) : c[k] = a[k]
          /\ \A k \in 1 .. Len(b) : c[Len(a) + k] = b[k]
      BY Concat
    <3> HIDE DEF c
    <3>2. Len(a) = i - 1 /\ Len(b) = Len(s) - i
      BY <2>1
    <3>. QED BY <3>1, <3>2
  <2> HIDE DEF c
  <2>5. \A k \in i .. Len(s) - 1 : c[k] = b[k - (i - 1)]
    BY <2>2, <2>4
  <2>6. Len(c) = Len(s) - 1
    BY <1>1, <2>4
  <2>7. /\ c \in Seq(S) /\ Len(c) = Len(s) - 1
        /\ \A k \in 1 .. i - 1 : c[k] = s[k]
        /\ \A k \in i .. Len(s) - 1 : c[k] = s[k + 1]
    BY <2>1, <2>3, <2>4, <2>5, <2>6
  <2>. QED BY <2>7 DEF c
<1>4. /\ w \in Seq(S) /\ Len(w) = Len(s) - 1
      /\ \A k \in 1 .. i - 1 : w[k] = s[k]
      /\ \A k \in i .. Len(s) - 1 : w[k] = s[k + 1]
  BY <1>3 DEF Without, a, b
<1> HIDE DEF w
<1>5. w \in Seq(S) /\ DOMAIN w = 1 .. Len(s) - 1
  BY <1>4
<1>6. \A k \in DOMAIN w : \E h \in DOMAIN s : w[k] = s[h]
  <2> SUFFICES ASSUME NEW k \in DOMAIN w PROVE \E h \in DOMAIN s : w[k] = s[h]
    OBVIOUS
  <2>1. CASE k <= i - 1
    BY <1>1, <1>4, <1>5, <2>1
  <2>2. CASE k >= i
    <3>1. w[k] = s[k + 1] /\ k + 1 \in DOMAIN s
      BY <1>1, <1>4, <1>5, <2>2
    <3>. QED BY <3>1
  <2>. QED BY <1>1, <1>5, <2>1, <2>2
<1>7. \A h \in DOMAIN s : h # i => \E k \in DOMAIN w : w[k] = s[h]
  <2> SUFFICES ASSUME NEW h \in DOMAIN s, h # i PROVE \E k \in DOMAIN w : w[k] = s[h]
    OBVIOUS
  <2>1. CASE h < i
    BY <1>1, <1>4, <1>5, <2>1
  <2>2. CASE h > i
    <3>1. h - 1 \in i .. Len(s) - 1 /\ h - 1 \in DOMAIN w /\ (h - 1) + 1 = h
      BY <1>1, <1>5, <2>2
    <3>2. w[h - 1] = s[h]
      BY <1>4, <3>1
    <3>. QED BY <3>1, <3>2
  <2>. QED BY <1>1, <2>1, <2>2
<1>8. ToSet(w) \subseteq ToSet(s) /\ \A x \in ToSet(s) : x # s[i] => x \in ToSet(w)
  BY <1>6, <1>7, ToSetIs
<1>. QED BY <1>5, <1>8 DEF w

\* What stays of the toasts is all that does not go.
LEMMA StayingRange ==
  ASSUME toasts \in Seq(Toasts), NEW gone
  PROVE  Staying(gone) \in Seq(Toasts) /\ ToSet(Staying(gone)) = ToSet(toasts) \ gone
<1> DEFINE kept == {i \in DOMAIN toasts : toasts[i] \notin gone}
           rank(i) == Rank(kept, i)
           at(k) == CHOOSE i \in kept : rank(i) = k
           left == Staying(gone)
<1>1. left = [k \in 1 .. Cardinality(kept) |-> toasts[at(k)]]
  BY DEF Staying, Rank
<1>2. kept \in SUBSET (1 .. Len(toasts)) /\ Len(toasts) \in Nat /\ DOMAIN toasts = 1 .. Len(toasts)
  OBVIOUS
<1>3. IsFiniteSet(kept)
  <2>1. IsFiniteSet(1 .. Len(toasts))
    BY <1>2, FS_Interval
  <2>. QED BY <1>2, <2>1, FS_Subset
<1>4. kept \in SUBSET Nat
  BY <1>2
<1>5. Cardinality(kept) \in Nat
  BY <1>3, FS_CardinalityType
<1>6. \A k \in 1 .. Cardinality(kept) : at(k) \in kept /\ rank(at(k)) = k
  BY <1>3, <1>4, KthExists
<1>7. \A i \in kept : rank(i) \in 1 .. Cardinality(kept)
  BY <1>3, <1>4, Ranks
<1>8. \A i, h \in kept : rank(i) = rank(h) => i = h
  BY <1>3, <1>4, Ranks
<1>9. \A i \in kept : i \in DOMAIN toasts /\ toasts[i] \in Toasts /\ toasts[i] \notin gone
  BY <1>2
<1>10. \A i \in DOMAIN toasts : toasts[i] \notin gone => i \in kept
  OBVIOUS
<1> HIDE DEF at, left, rank, kept
<1>11. \A i \in kept : at(rank(i)) = i
  BY <1>6, <1>7, <1>8
<1>12. left \in Seq(Toasts) /\ DOMAIN left = 1 .. Cardinality(kept)
  BY <1>1, <1>5, <1>6, <1>9
<1>13. \A k \in DOMAIN left : \E i \in DOMAIN toasts : left[k] = toasts[i] /\ toasts[i] \notin gone
  BY <1>1, <1>6, <1>9, <1>12
<1>14. \A i \in DOMAIN toasts : toasts[i] \notin gone => \E k \in DOMAIN left : left[k] = toasts[i]
  BY <1>1, <1>7, <1>10, <1>11, <1>12
<1>15. \A x : x \in ToSet(left) <=> x \in ToSet(toasts) \ gone
  BY <1>13, <1>14, ToSetIs
<1>. QED BY <1>12, <1>15 DEF left

\* A row shows the same toast as long as the toasts and what they show of themselves
\* are the same.
LEMMA SameRows ==
  ASSUME NEW s \in Seq(Toasts), NEW u \in Seq(Toasts), Len(s) = Len(u),
         \A i \in 1 .. Len(s) : s[i].what = u[i].what /\ (s[i].expanded <=> u[i].expanded)
  PROVE  DrawnToasts(s) = DrawnToasts(u)
<1> DEFINE high(v, i) == {k \in 1 .. i : v[k].expanded}
           at(v, r) == {i \in DOMAIN v : Bottom(v, i) < r /\ r <= Bottom(v, i - 1)}
<1>1. DOMAIN s = 1 .. Len(s) /\ DOMAIN u = 1 .. Len(s) /\ Len(s) \in Nat
  OBVIOUS
<1>2. \A i \in 0 .. Len(s) : high(s, i) = high(u, i)
  <2> SUFFICES ASSUME NEW i \in 0 .. Len(s) PROVE high(s, i) = high(u, i)
    OBVIOUS
  <2>1. \A k \in 1 .. i : k \in 1 .. Len(s)
    BY <1>1
  <2>. QED BY <2>1
<1>3. \A i \in 0 .. Len(s) : Bottom(s, i) = Bottom(u, i)
  BY <1>2 DEF Bottom
<1>4. \A i \in 1 .. Len(s) : i \in 0 .. Len(s) /\ i - 1 \in 0 .. Len(s)
  BY <1>1
<1>5. \A r : at(s, r) = at(u, r)
  BY <1>1, <1>3, <1>4
<1> DEFINE pick(S) == CHOOSE i \in S : TRUE
           row(v, r) == IF at(v, r) = {} THEN Absent ELSE v[pick(at(v, r))].what
<1>6. \A r : at(s, r) # {} => pick(at(s, r)) \in 1 .. Len(s)
  BY <1>1
<1>7. DrawnToasts(s) = [r \in 0 .. ScreenRows - 1 |-> row(s, r)] /\ DrawnToasts(u) = [r \in 0 .. ScreenRows - 1 |-> row(u, r)]
  BY DEF DrawnToasts
<1>8. \A r : row(s, r) = row(u, r)
  <2> HIDE DEF at, pick
  <2>. QED BY <1>5, <1>6
<1> HIDE DEF row
<1>. QED BY <1>7, <1>8

\* Every toast is still there, as itself or as one that says the same.
WhatsKept == \A t \in ToSet(toasts) : \E s \in ToSet(toasts') : s.what = t.what

\* No toast at the start, and the rows show none.
LEMMA NoticesStart == NoticesInit => NoticesInv
<1> SUFFICES ASSUME NoticesInit PROVE NoticesInv
  OBVIOUS
<1>1. toasts = <<>> /\ posts = <<>> /\ arrived = {} /\ slots = {} /\ undrawn = FALSE
      /\ bounds = [r \in 0 .. ScreenRows - 1 |-> Absent]
  BY DEF NoticesInit
<1>2. \A t : t \notin ToSet(toasts)
  BY <1>1, ToSetIs
<1>3. DrawnToasts(<<>>) = [r \in 0 .. ScreenRows - 1 |-> Absent]
  <2>1. \A r : {i \in DOMAIN <<>> : Bottom(<<>>, i) < r /\ r <= Bottom(<<>>, i - 1)} = {}
    OBVIOUS
  <2>. QED BY <2>1 DEF DrawnToasts
<1>4. toasts \in Seq(Toasts) /\ posts \in Seq(Pings)
  <2>. QED BY <1>1
<1>. QED BY <1>1, <1>2, <1>3, <1>4 DEF NoticesInv, NoticesTypeOK, PingNotLost, ErrorsAgeless, RowsFresh

\* A new toast says what it is about, and its deadline has not passed.
LEMMA ToastOf ==
  ASSUME NEW x \in Pings \cup Errors
  PROVE  Toast(x) \in Toasts /\ Toast(x).what = x /\ ~Toast(x).old
BY DEF Toast, Toasts

\* A change of the stack that loses nothing it says, and makes no error old, until the next
\* frame.
LEMMA ChangeKeeps ==
  ASSUME NoticesInv, toasts' \in Seq(Toasts), posts' \in Seq(Pings),
         \A t \in ToSet(toasts') : IsError(t) => ~t.old, WhatsKept,
         undrawn' = TRUE, arrived' \subseteq Pings, slots' \subseteq Pings,
         slots \cup told \subseteq slots' \cup told', ended \subseteq ended',
         \A p \in ToSet(posts) : p \in ToSet(posts') \/ \E t \in ToSet(toasts') : t.what = p,
         \A p \in arrived' \ arrived : p \in slots' \/ p \in ToSet(posts') \/ \E t \in ToSet(toasts') : t.what = p
  PROVE  NoticesInv'
<1>1. PingNotLost'
  <2> SUFFICES ASSUME NEW p \in arrived'
               PROVE  p \in slots' \cup told' \cup ended' \/ p \in ToSet(posts') \/ \E t \in ToSet(toasts') : t.what = p
    BY DEF PingNotLost, Toasted
  <2>1. CASE p \in arrived
    BY <2>1 DEF NoticesInv, PingNotLost, Toasted, WhatsKept
  <2>2. CASE p \notin arrived
    BY <2>2
  <2>. QED BY <2>1, <2>2
<1>. QED BY <1>1 DEF NoticesInv, NoticesTypeOK, ErrorsAgeless, RowsFresh, IsError

\* A new toast in front of the others.
LEMMA FrontKeeps ==
  ASSUME NoticesInv, NEW x \in Pings \cup Errors
  PROVE  /\ <<Toast(x)>> \o toasts \in Seq(Toasts)
         /\ ToSet(<<Toast(x)>> \o toasts) = {Toast(x)} \cup ToSet(toasts)
         /\ \A t \in ToSet(<<Toast(x)>> \o toasts) : IsError(t) => ~t.old
<1>1. toasts \in Seq(Toasts) /\ Toast(x) \in Toasts
  BY ToastOf DEF NoticesInv, NoticesTypeOK
<1>2. /\ <<Toast(x)>> \o toasts \in Seq(Toasts)
      /\ ToSet(<<Toast(x)>> \o toasts) = {Toast(x)} \cup ToSet(toasts)
  BY <1>1, PutFirst
<1>3. \A t \in ToSet(<<Toast(x)>> \o toasts) : t = Toast(x) \/ t \in ToSet(toasts)
  BY <1>2
<1>4. \A t \in ToSet(<<Toast(x)>> \o toasts) : IsError(t) => ~t.old
  BY <1>3, ToastOf DEF NoticesInv, ErrorsAgeless
<1>. QED BY <1>2, <1>4

\* What is queued last is queued.
LEMMA Queued ==
  ASSUME NEW S, NEW s \in Seq(S), NEW x \in S
  PROVE  Append(s, x) \in Seq(S) /\ \A y : y \in ToSet(Append(s, x)) <=> y = x \/ y \in ToSet(s)
<1> DEFINE u == Append(s, x)
<1>1. /\ u \in Seq(S) /\ DOMAIN u = 1 .. Len(s) + 1 /\ u[Len(s) + 1] = x /\ \A i \in 1 .. Len(s) : u[i] = s[i]
      /\ DOMAIN s = 1 .. Len(s) /\ Len(s) \in Nat
  OBVIOUS
<1> HIDE DEF u
<1>2. \A i \in DOMAIN u : i = Len(s) + 1 \/ i \in DOMAIN s
  BY <1>1
<1>3. \A i \in DOMAIN s : i \in DOMAIN u
  BY <1>1
<1>4. \A y \in ToSet(u) : y = x \/ y \in ToSet(s)
  BY <1>1, <1>2, ToSetIs
<1>5. x \in ToSet(u) /\ \A y \in ToSet(s) : y \in ToSet(u)
  BY <1>1, <1>3, ToSetIs
<1>. QED BY <1>1, <1>4, <1>5 DEF u

\* A ping is shown, posted or given to the notifier.
LEMMA PingKeeps == ASSUME NoticesInv, NEW p \in Pings, Ping(p) PROVE NoticesInv' /\ WhatsKept
<1>1. /\ arrived' = arrived \cup {p} /\ undrawn' = TRUE /\ told' = told /\ ended' = ended
      /\ ShowPing(p) \/ Saturated(p) \/ Dispatched(p)
  BY DEF Ping
<1>2. /\ toasts \in Seq(Toasts) /\ posts \in Seq(Pings) /\ arrived \subseteq Pings /\ slots \subseteq Pings
      /\ \A t \in ToSet(toasts) : IsError(t) => ~t.old
  BY DEF NoticesInv, NoticesTypeOK, ErrorsAgeless
<1>3. CASE ShowPing(p)
  <2>1. toasts' = <<Toast(p)>> \o toasts /\ slots' = slots /\ posts' = posts
    BY <1>3 DEF ShowPing
  <2>2. /\ toasts' \in Seq(Toasts) /\ ToSet(toasts') = {Toast(p)} \cup ToSet(toasts)
        /\ \A t \in ToSet(toasts') : IsError(t) => ~t.old
    BY <2>1, FrontKeeps
  <2>3. WhatsKept /\ Toast(p) \in ToSet(toasts') /\ Toast(p).what = p
    BY <2>2, ToastOf DEF WhatsKept
  <2>. QED BY <1>1, <1>2, <2>1, <2>2, <2>3, ChangeKeeps
<1>4. CASE Saturated(p)
  <2>1. posts' = Append(posts, p) /\ slots' = slots /\ toasts' = toasts
    BY <1>4 DEF Saturated
  <2>2. posts' \in Seq(Pings) /\ \A y : y \in ToSet(posts') <=> y = p \/ y \in ToSet(posts)
    BY <1>2, <2>1, Queued
  <2>3. WhatsKept
    BY <2>1 DEF WhatsKept
  <2>. QED BY <1>1, <1>2, <2>1, <2>2, <2>3, ChangeKeeps
<1>5. CASE Dispatched(p)
  <2>1. slots' = slots \cup {p} /\ posts' = posts /\ toasts' = toasts
    BY <1>5 DEF Dispatched
  <2>2. WhatsKept
    BY <2>1 DEF WhatsKept
  <2>. QED BY <1>1, <1>2, <2>1, <2>2, ChangeKeeps
<1>. QED BY <1>1, <1>3, <1>4, <1>5

\* The notifier ends: the ping was shown, or is posted for a toast.
LEMMA NotifierKeeps ==
  ASSUME NoticesInv, NEW p \in Pings, Notified(p) \/ NotifyFails(p)
  PROVE  NoticesInv' /\ WhatsKept
<1>1. toasts' = toasts /\ arrived' = arrived /\ bounds' = bounds /\ undrawn' = undrawn /\ ended' = ended
      /\ slots' = slots \ {p} /\ p \in slots
  BY DEF Notified, NotifyFails
<1>2. (posts' = posts /\ told' = told \cup {p}) \/ (posts' = Append(posts, p) /\ told' = told)
  BY DEF Notified, NotifyFails
<1>3. posts \in Seq(Pings)
  BY DEF NoticesInv, NoticesTypeOK
<1>4. posts' \in Seq(Pings) /\ (\A y \in ToSet(posts) : y \in ToSet(posts')) /\ (p \in told' \/ p \in ToSet(posts'))
  BY <1>2, <1>3, Queued
<1>5. PingNotLost'
  <2> SUFFICES ASSUME NEW q \in arrived
               PROVE  q \in slots' \cup told' \cup ended \/ q \in ToSet(posts') \/ Toasted(q)
    BY <1>1 DEF PingNotLost, Toasted
  <2>1. told \subseteq told'
    BY <1>2
  <2>2. q \in slots \cup told \cup ended \/ q \in ToSet(posts) \/ Toasted(q)
    BY DEF NoticesInv, PingNotLost
  <2>. QED BY <1>1, <1>4, <2>1, <2>2
<1>. QED BY <1>1, <1>4, <1>5 DEF NoticesInv, NoticesTypeOK, ErrorsAgeless, RowsFresh, WhatsKept

\* An error is put first, or comes to the front with one more repeat.
LEMMA ErrorKeeps == ASSUME NoticesInv, NEW e \in Errors, ShowError(e) PROVE NoticesInv' /\ WhatsKept
<1> DEFINE at == {i \in DOMAIN toasts : toasts[i].what = e}
           i == CHOOSE k \in at : TRUE
<1>1. /\ undrawn' = TRUE /\ arrived' = arrived /\ slots' = slots /\ posts' = posts /\ told' = told /\ ended' = ended
      /\ toasts' = IF at = {} THEN <<Toast(e)>> \o toasts
                   ELSE <<[toasts[i] EXCEPT !.repeats = @ + 1]>> \o Without(toasts, i)
  BY DEF ShowError
<1>2. /\ toasts \in Seq(Toasts) /\ posts \in Seq(Pings) /\ arrived \subseteq Pings /\ slots \subseteq Pings
      /\ \A t \in ToSet(toasts) : IsError(t) => ~t.old
  BY DEF NoticesInv, NoticesTypeOK, ErrorsAgeless
<1>3. CASE at = {}
  <2>1. toasts' = <<Toast(e)>> \o toasts
    BY <1>1, <1>3
  <2>2. /\ toasts' \in Seq(Toasts) /\ ToSet(toasts') = {Toast(e)} \cup ToSet(toasts)
        /\ \A t \in ToSet(toasts') : IsError(t) => ~t.old
    BY <2>1, FrontKeeps
  <2>3. WhatsKept
    BY <2>2 DEF WhatsKept
  <2>. QED BY <1>1, <1>2, <2>2, <2>3, ChangeKeeps
<1>4. CASE at # {}
  <2>1. i \in DOMAIN toasts /\ toasts[i].what = e
    BY <1>4
  <2> HIDE DEF i, at
  <2> DEFINE t0 == toasts[i]
             t1 == [t0 EXCEPT !.repeats = t0.repeats + 1]
             rest == Without(toasts, i)
  <2>2. t0 \in Toasts /\ t0 \in ToSet(toasts) /\ t0.what = e
    BY <1>2, <2>1, ToSetIs
  <2>3. t1 \in Toasts /\ t1.what = e /\ (t1.old <=> t0.old)
    <3> HIDE DEF t0
    <3>. QED BY <2>2 DEF Toasts
  <2>4. toasts' = <<t1>> \o rest
    BY <1>1, <1>4
  <2>5. rest \in Seq(Toasts) /\ ToSet(rest) \subseteq ToSet(toasts) /\ \A x \in ToSet(toasts) : x # t0 => x \in ToSet(rest)
    BY <1>2, <2>1, WithoutRange
  <2> HIDE DEF t0, t1, rest
  <2>6. toasts' \in Seq(Toasts) /\ ToSet(toasts') = {t1} \cup ToSet(rest)
    BY <2>3, <2>4, <2>5, PutFirst
  <2>7. ~t0.old
    BY <1>2, <2>2 DEF IsError
  <2>8. \A t \in ToSet(toasts') : IsError(t) => ~t.old
    <3>1. \A t \in ToSet(toasts') : t = t1 \/ t \in ToSet(toasts)
      BY <2>5, <2>6
    <3>. QED BY <1>2, <2>3, <2>7, <3>1
  <2>9. WhatsKept
    <3>1. \A x \in ToSet(toasts) : x = t0 \/ x \in ToSet(toasts')
      BY <2>5, <2>6
    <3>2. t1 \in ToSet(toasts') /\ t1.what = t0.what
      BY <2>2, <2>3, <2>6
    <3>. QED BY <3>1, <3>2 DEF WhatsKept
  <2>. QED BY <1>1, <1>2, <2>6, <2>8, <2>9, ChangeKeeps
<1>. QED BY <1>3, <1>4

\* A posted ping becomes a toast.
LEMMA PostedKeeps == ASSUME NoticesInv, ShowPosted PROVE NoticesInv' /\ WhatsKept
<1>1. /\ posts # <<>> /\ posts' = Tail(posts) /\ toasts' = <<Toast(Head(posts))>> \o toasts /\ undrawn' = TRUE
      /\ arrived' = arrived /\ slots' = slots /\ told' = told /\ ended' = ended
  BY DEF ShowPosted
<1>2. /\ toasts \in Seq(Toasts) /\ posts \in Seq(Pings) /\ arrived \subseteq Pings /\ slots \subseteq Pings
  BY DEF NoticesInv, NoticesTypeOK
<1> DEFINE p == Head(posts)
<1>3. /\ p \in Pings /\ posts' \in Seq(Pings)
      /\ \A i \in DOMAIN posts : i = 1 \/ (i - 1 \in DOMAIN posts' /\ posts'[i - 1] = posts[i])
      /\ p = posts[1]
  BY <1>1, <1>2
<1>4. \A y \in ToSet(posts) : y = p \/ y \in ToSet(posts')
  BY <1>3, ToSetIs
<1> HIDE DEF p
<1>5. toasts' = <<Toast(p)>> \o toasts
  BY <1>1 DEF p
<1>6. /\ toasts' \in Seq(Toasts) /\ ToSet(toasts') = {Toast(p)} \cup ToSet(toasts)
      /\ \A t \in ToSet(toasts') : IsError(t) => ~t.old
  BY <1>3, <1>5, FrontKeeps
<1>7. WhatsKept /\ Toast(p) \in ToSet(toasts') /\ Toast(p).what = p
  BY <1>3, <1>6, ToastOf DEF WhatsKept
<1>. QED BY <1>1, <1>2, <1>3, <1>4, <1>6, <1>7, ChangeKeeps

\* One toast retouched: it says what it said, and so do the others.
LEMMA Retouched ==
  ASSUME toasts \in Seq(Toasts), NEW i \in DOMAIN toasts, NEW t1 \in Toasts, t1.what = toasts[i].what,
         toasts' = [toasts EXCEPT ![i] = t1]
  PROVE  /\ toasts' \in Seq(Toasts) /\ Len(toasts') = Len(toasts) /\ WhatsKept
         /\ \A t \in ToSet(toasts') : t = t1 \/ t \in ToSet(toasts)
         /\ \A k \in DOMAIN toasts : toasts'[k] = IF k = i THEN t1 ELSE toasts[k]
<1>1. /\ toasts' \in Seq(Toasts) /\ Len(toasts') = Len(toasts) /\ DOMAIN toasts' = DOMAIN toasts
      /\ \A k \in DOMAIN toasts : toasts'[k] = IF k = i THEN t1 ELSE toasts[k]
  OBVIOUS
<1>2. \A t \in ToSet(toasts') : t = t1 \/ t \in ToSet(toasts)
  BY <1>1, ToSetIs
<1>3. \A k \in DOMAIN toasts : toasts'[k].what = toasts[k].what /\ toasts'[k] \in ToSet(toasts')
  BY <1>1, ToSetIs
<1>4. WhatsKept
  <2> SUFFICES ASSUME NEW t \in ToSet(toasts) PROVE \E s \in ToSet(toasts') : s.what = t.what
    BY DEF WhatsKept
  <2>1. PICK k \in DOMAIN toasts : toasts[k] = t
    BY ToSetIs
  <2>. QED BY <1>3, <2>1
<1>. QED BY <1>1, <1>2, <1>4

\* The newest toast is expanded or folded.
LEMMA ToggleKeeps ==
  ASSUME NoticesInv, toasts # <<>>, ToastEvent, UNCHANGED ended,
         toasts' = [toasts EXCEPT ![1].expanded = ~@]
  PROVE  NoticesInv' /\ WhatsKept
<1>1. /\ undrawn' = TRUE /\ arrived' = arrived /\ slots' = slots /\ posts' = posts /\ told' = told /\ ended' = ended
  BY DEF ToastEvent
<1>2. /\ toasts \in Seq(Toasts) /\ posts \in Seq(Pings) /\ arrived \subseteq Pings /\ slots \subseteq Pings
      /\ \A t \in ToSet(toasts) : IsError(t) => ~t.old
  BY DEF NoticesInv, NoticesTypeOK, ErrorsAgeless
<1>3. 1 \in DOMAIN toasts
  BY <1>2
<1> DEFINE t0 == toasts[1]
           t1 == [t0 EXCEPT !.expanded = ~t0.expanded]
<1>4. t0 \in Toasts /\ t0 \in ToSet(toasts)
  BY <1>2, <1>3, ToSetIs
<1>5. toasts' = [toasts EXCEPT ![1] = t1]
  OBVIOUS
<1>6. t1 \in Toasts /\ t1.what = t0.what /\ (t1.old <=> t0.old)
  <2> HIDE DEF t0
  <2>. QED BY <1>4 DEF Toasts
<1> HIDE DEF t1
<1>7. toasts' \in Seq(Toasts) /\ WhatsKept /\ \A t \in ToSet(toasts') : t = t1 \/ t \in ToSet(toasts)
  BY <1>2, <1>3, <1>5, <1>6, Retouched
<1>8. \A t \in ToSet(toasts') : IsError(t) => ~t.old
  BY <1>2, <1>4, <1>6, <1>7 DEF IsError
<1>. QED BY <1>1, <1>2, <1>7, <1>8, ChangeKeeps

\* A deadline passes: nothing on the screen changes.
LEMMA AgeKeeps ==
  ASSUME NoticesInv, NEW i \in DOMAIN toasts, Age(i)
  PROVE  NoticesInv' /\ WhatsKept
<1>1. /\ ~IsError(toasts[i]) /\ toasts' = [toasts EXCEPT ![i].old = TRUE]
      /\ UNCHANGED <<arrived, slots, posts, bounds, undrawn, told, ended>>
  BY DEF Age
<1>2. toasts \in Seq(Toasts) /\ \A t \in ToSet(toasts) : IsError(t) => ~t.old
  BY DEF NoticesInv, NoticesTypeOK, ErrorsAgeless
<1> DEFINE t0 == toasts[i]
           t1 == [t0 EXCEPT !.old = TRUE]
<1>3. t0 \in Toasts
  BY <1>2
<1>4. toasts' = [toasts EXCEPT ![i] = t1]
  BY <1>1
<1>5. t1 \in Toasts /\ t1.what = t0.what /\ (t1.expanded <=> t0.expanded)
  <2> HIDE DEF t0
  <2>. QED BY <1>3 DEF Toasts
<1> HIDE DEF t1
<1>6. /\ toasts' \in Seq(Toasts) /\ Len(toasts') = Len(toasts) /\ WhatsKept
      /\ \A t \in ToSet(toasts') : t = t1 \/ t \in ToSet(toasts)
      /\ \A k \in DOMAIN toasts : toasts'[k] = IF k = i THEN t1 ELSE toasts[k]
  BY <1>2, <1>4, <1>5, Retouched
<1>7. \A t \in ToSet(toasts') : IsError(t) => ~t.old
  BY <1>1, <1>2, <1>5, <1>6 DEF IsError
<1>8. DrawnToasts(toasts) = DrawnToasts(toasts')
  <2>1. \A k \in 1 .. Len(toasts) :
          toasts[k].what = toasts'[k].what /\ (toasts[k].expanded <=> toasts'[k].expanded)
    BY <1>2, <1>5, <1>6
  <2>. QED BY <1>2, <1>6, <2>1, SameRows
<1>9. PingNotLost'
  <2> SUFFICES ASSUME NEW p \in arrived
               PROVE  p \in slots \cup told \cup ended \/ p \in ToSet(posts) \/ \E t \in ToSet(toasts') : t.what = p
    BY <1>1 DEF PingNotLost, Toasted
  <2>1. Toasted(p) => \E t \in ToSet(toasts') : t.what = p
    BY <1>6 DEF Toasted, WhatsKept
  <2>. QED BY <2>1 DEF NoticesInv, PingNotLost
<1>. QED BY <1>1, <1>6, <1>7, <1>8, <1>9 DEF NoticesInv, NoticesTypeOK, ErrorsAgeless, RowsFresh, IsError

\* The toasts that go have had their end, the others stay.
LEMMA DownKeeps ==
  ASSUME NoticesInv, NEW gone, ToastEvent, TakeDown(gone)
  PROVE  NoticesInv' /\ ToSet(toasts') = ToSet(toasts) \ gone
<1>1. /\ undrawn' = TRUE /\ arrived' = arrived /\ slots' = slots /\ posts' = posts /\ told' = told
      /\ toasts' = Staying(gone) /\ ended' = ended \cup {t.what : t \in {g \in gone : IsPing(g)}}
  BY DEF ToastEvent, TakeDown
<1>2. /\ toasts \in Seq(Toasts) /\ posts \in Seq(Pings) /\ arrived \subseteq Pings /\ slots \subseteq Pings
      /\ \A t \in ToSet(toasts) : IsError(t) => ~t.old
  BY DEF NoticesInv, NoticesTypeOK, ErrorsAgeless
<1>3. toasts' \in Seq(Toasts) /\ ToSet(toasts') = ToSet(toasts) \ gone
  BY <1>1, <1>2, StayingRange
<1>4. PingNotLost'
  <2> SUFFICES ASSUME NEW p \in arrived
               PROVE  p \in slots \cup told \cup ended' \/ p \in ToSet(posts) \/ \E t \in ToSet(toasts') : t.what = p
    BY <1>1 DEF PingNotLost, Toasted
  <2>1. CASE Toasted(p)
    <3>1. PICK t \in ToSet(toasts) : t.what = p
      BY <2>1 DEF Toasted
    <3>2. IsPing(t)
      BY <1>2, <3>1 DEF IsPing
    <3>. QED BY <1>1, <1>3, <3>1, <3>2
  <2>2. CASE ~Toasted(p)
    BY <1>1, <2>2 DEF NoticesInv, PingNotLost
  <2>. QED BY <2>1, <2>2
<1>5. \A t \in ToSet(toasts') : IsError(t) => ~t.old
  BY <1>2, <1>3
<1>. QED BY <1>1, <1>2, <1>3, <1>4, <1>5 DEF NoticesInv, NoticesTypeOK, ErrorsAgeless, RowsFresh, IsError

\* An event that leaves the toasts alone.
LEMMA EventKeeps ==
  ASSUME NoticesInv, ToastEvent, UNCHANGED <<toasts, ended>>
  PROVE  NoticesInv' /\ WhatsKept
BY DEF ToastEvent, NoticesInv, NoticesTypeOK, PingNotLost, Toasted, ErrorsAgeless, RowsFresh, WhatsKept, IsError

\* A frame brings the rows up to date.
LEMMA DrawKeepsToasts == ASSUME NoticesInv, DrawToasts PROVE NoticesInv' /\ WhatsKept
BY DEF DrawToasts, NoticesInv, NoticesTypeOK, PingNotLost, Toasted, ErrorsAgeless, RowsFresh, WhatsKept, IsError

\* No step loses an error, but the dismissal of the newest toast.
LEMMA NoticesStep ==
  ASSUME NoticesInv, NoticesNext
  PROVE  /\ NoticesInv'
         /\ \A t \in ToSet(toasts) : IsError(t) /\ t # toasts[1] => \E s \in ToSet(toasts') : s.what = t.what
<1> DEFINE ErrorsLeft ==
      \A t \in ToSet(toasts) : IsError(t) /\ t # toasts[1] => \E s \in ToSet(toasts') : s.what = t.what
<1>1. WhatsKept => ErrorsLeft
  BY DEF WhatsKept
<1>2. ASSUME NEW gone, ToSet(toasts') = ToSet(toasts) \ gone,
             \A t \in gone : ~IsError(t) \/ t = toasts[1]
      PROVE  ErrorsLeft
  BY <1>2
<1> SUFFICES NoticesInv' /\ ErrorsLeft
  OBVIOUS
<1> HIDE DEF ErrorsLeft
<1>3. ASSUME NEW p \in Pings, Ping(p) \/ Notified(p) \/ NotifyFails(p) PROVE NoticesInv' /\ ErrorsLeft
  BY <1>1, <1>3, PingKeeps, NotifierKeeps
<1>4. ASSUME NEW e \in Errors, ShowError(e) PROVE NoticesInv' /\ ErrorsLeft
  BY <1>1, <1>4, ErrorKeeps
<1>5. CASE ShowPosted
  BY <1>1, <1>5, PostedKeeps
<1>6. CASE DrawToasts
  BY <1>1, <1>6, DrawKeepsToasts
<1>7. CASE ExpireToasts
  <2> DEFINE gone == {t \in ToSet(toasts) : Expired(t)}
  <2>1. ToastEvent /\ TakeDown(gone)
    BY <1>7 DEF ExpireToasts
  <2>2. NoticesInv' /\ ToSet(toasts') = ToSet(toasts) \ gone
    BY <2>1, DownKeeps
  <2>3. \A t \in gone : ~IsError(t)
    BY DEF NoticesInv, ErrorsAgeless, Expired
  <2> HIDE DEF gone
  <2>. QED BY <1>2, <2>2, <2>3
<1>8. ASSUME ToastEvent, TakeDown({toasts[1]}) PROVE NoticesInv' /\ ErrorsLeft
  <2>1. NoticesInv' /\ ToSet(toasts') = ToSet(toasts) \ {toasts[1]}
    BY <1>8, DownKeeps
  <2>. QED BY <1>2, <2>1
<1>9. CASE KeyDismiss
  BY <1>8, <1>9 DEF KeyDismiss
<1>10. CASE KeyToggle
  BY <1>1, <1>10, ToggleKeeps DEF KeyToggle
<1>11. CASE KeyEnter
  <2>1. CASE IsPing(toasts[1])
    BY <1>8, <1>11, <2>1 DEF KeyEnter
  <2>2. CASE ~IsPing(toasts[1])
    BY <1>1, <1>11, <2>2, ToggleKeeps DEF KeyEnter
  <2>. QED BY <2>1, <2>2
<1>12. ASSUME NEW f \in BOOLEAN, WindowFocus(f) PROVE NoticesInv' /\ ErrorsLeft
  BY <1>1, <1>12, EventKeeps DEF WindowFocus
<1>13. ASSUME NEW i \in DOMAIN toasts, Age(i) PROVE NoticesInv' /\ ErrorsLeft
  BY <1>1, <1>13, AgeKeeps
<1>14. ASSUME NEW r \in 0 .. ScreenRows - 1, Click(r) PROVE NoticesInv' /\ ErrorsLeft
  <2> DEFINE hit == {t \in ToSet(toasts) : t.what = bounds[r]}
  <2>1. CASE hit # {} /\ \A t \in hit : IsPing(t)
    <3>1. ToastEvent /\ TakeDown(hit)
      BY <1>14, <2>1 DEF Click
    <3>2. NoticesInv' /\ ToSet(toasts') = ToSet(toasts) \ hit
      BY <3>1, DownKeeps
    <3>3. \A t \in hit : ~IsError(t)
      BY <2>1, NoticesAssumption DEF IsPing, IsError
    <3> HIDE DEF hit
    <3>. QED BY <1>2, <3>2, <3>3
  <2>2. CASE ~(hit # {} /\ \A t \in hit : IsPing(t))
    <3>1. ToastEvent /\ UNCHANGED <<toasts, ended>>
      BY <1>14, <2>2 DEF Click
    <3>. QED BY <1>1, <3>1, EventKeeps
  <2>. QED BY <2>1, <2>2
<1>. QED
  BY <1>3, <1>4, <1>5, <1>6, <1>7, <1>9, <1>10, <1>11, <1>12, <1>13, <1>14 DEF NoticesNext

\* A click takes the ping drawn on its row.
LEMMA ClickStep ==
  ASSUME NoticesInv, NEW r \in 0 .. ScreenRows - 1, Click(r)
  PROVE  {t.what : t \in ToSet(toasts) \ ToSet(toasts')} \subseteq {DrawnToasts(toasts)[r]}
<1> DEFINE hit == {t \in ToSet(toasts) : t.what = bounds[r]}
<1>1. bounds = DrawnToasts(toasts)
  BY DEF Click, ToastEvent, NoticesInv, RowsFresh
<1>2. CASE hit # {} /\ \A t \in hit : IsPing(t)
  <2>1. ToastEvent /\ TakeDown(hit)
    BY <1>2 DEF Click
  <2>2. ToSet(toasts') = ToSet(toasts) \ hit
    BY <2>1, DownKeeps
  <2>3. \A t \in ToSet(toasts) \ ToSet(toasts') : t.what = bounds[r]
    BY <2>2
  <2>. QED BY <1>1, <2>3
<1>3. CASE ~(hit # {} /\ \A t \in hit : IsPing(t))
  <2>1. toasts' = toasts
    BY <1>3 DEF Click
  <2>. QED BY <2>1
<1>. QED BY <1>2, <1>3

\* A step of another component keeps the invariant.
LEMMA NoticesStutter == NoticesInv /\ UNCHANGED noticesVars => NoticesInv'
BY DEF noticesVars, NoticesInv, NoticesTypeOK, PingNotLost, Toasted, ErrorsAgeless, RowsFresh, IsError

\* No ping is lost, no error's deadline passes, and what the rows show is up to date
\* when a click is handled.
THEOREM NoticesInvariance == NoticesSpec => []NoticesInv
BY NoticesStart, NoticesStep, NoticesStutter, PTL DEF NoticesSpec

-----------------------------------------------------------------------------
(* Menus and profile cards, for any users, details and heights.            *)

\* A card of number id.
CardsUpTo(n) ==
  [kind : {"card"}, id : 1 .. n, user : Users, details : Known, of : Users, picture : Users \cup {Absent},
   y : Int \cup {Absent}, dragging : BOOLEAN, selected : Int]

\* A menu shows the items it is given.
LEMMA MenuOfItems ==
  ASSUME NEW items
  PROVE  Menu(items).kind = "menu" /\ Menu(items).items = items /\ {"kind", "items"} \subseteq DOMAIN Menu(items)
BY DEF Menu

\* The rows of a menu are numbered from one.
LEMMA MenuRows ==
  ASSUME NEW items \in Menus \cup {ConfirmItems}
  PROVE  Len(items) \in Nat /\ DOMAIN items = 1 .. Len(items)
<1>1. CASE items = ConfirmItems
  BY <1>1 DEF ConfirmItems
<1>2. CASE items \in Menus
  <2>1. PICK a \in BOOLEAN, b \in BOOLEAN :
          items \in {MessageItems(a, b), ChannelSettings(a, b), RoleItems(a), GuildItems(a), ThreadItems(a)}
    BY <1>2 DEF Menus
  <2>2. CASE items = MessageItems(a, b)
    BY <2>2 DEF MessageItems
  <2>3. CASE items = ChannelSettings(a, b)
    BY <2>3 DEF ChannelSettings
  <2>4. CASE items = RoleItems(a)
    BY <2>4 DEF RoleItems
  <2>5. CASE items = GuildItems(a)
    BY <2>5 DEF GuildItems
  <2>6. CASE items = ThreadItems(a)
    BY <2>6 DEF ThreadItems
  <2>. QED BY <2>1, <2>2, <2>3, <2>4, <2>5, <2>6
<1>. QED BY <1>1, <1>2

\* No popup, and nothing done that a frame has not shown.
LEMMA ClosedInv ==
  ASSUME PopupsInv, popup' = Absent, height' = height, cards' = cards, fetches' = fetches, dirty' = TRUE
  PROVE  PopupsInv'
BY DEF PopupsInv, PopupsTypeOK, AnswersPlaced, OwnAnswers, DMsFresh, DoneClosed, OnMenu, OnCard

\* A menu, changed or not.
LEMMA MenuInv ==
  ASSUME PopupsInv, popup'.kind = "menu", {"kind", "items"} \subseteq DOMAIN popup',
         popup'.items \in Menus \cup {ConfirmItems},
         height' = height, cards' = cards, fetches' = fetches, dirty' = TRUE, did' = Absent
  PROVE  PopupsInv'
BY DEF PopupsInv, PopupsTypeOK, AnswersPlaced, OwnAnswers, DMsFresh, DoneClosed, OnMenu, OnCard

\* The card that is open, changed in what is nobody's answer.
LEMMA CardInv ==
  ASSUME PopupsInv, OnCard, popup' \in CardsUpTo(cards),
         popup'.id = popup.id, popup'.user = popup.user, popup'.of = popup.of, popup'.picture = popup.picture,
         height' = height, cards' = cards, fetches' = fetches, dirty' = TRUE, did' = Absent
  PROVE  PopupsInv'
BY DEF PopupsInv, PopupsTypeOK, AnswersPlaced, OwnAnswers, DMsFresh, DoneClosed, OnMenu, OnCard, CardsUpTo

\* A card that opens has a number of its own, which only its own fetches have.
LEMMA OpenCardKeeps ==
  ASSUME PopupsInv, NEW u \in Users, NEW d \in Known, OpenCard(u, d)
  PROVE  PopupsInv'
<1>1. /\ cards' = cards + 1 /\ dirty' = TRUE /\ did' = Absent /\ height' = height
      /\ popup' = [kind |-> "card", id |-> cards', user |-> u, details |-> d, of |-> u, picture |-> Absent,
                   y |-> Absent, dragging |-> FALSE, selected |-> 1]
      /\ fetches' = fetches \cup {[what |-> w, id |-> cards', user |-> u] : w \in {"details", "picture"}}
  BY DEF OpenCard
<1>2. height \in Heights /\ cards \in Nat /\ \A f \in fetches : f.id \in 1 .. cards /\ f.user \in Users
  BY DEF PopupsInv, PopupsTypeOK
<1>3. \A f \in fetches' : (f \in fetches \/ (f.id = cards' /\ f.user = u))
  BY <1>1
<1>4. cards' \in Nat /\ cards' \in 1 .. cards' /\ \A i \in 1 .. cards : i \in 1 .. cards' /\ i # cards'
  BY <1>1, <1>2
<1>5. popup' \in CardsUpTo(cards')
  BY <1>1, <1>4 DEF CardsUpTo
<1>6. \A f \in fetches' : f.id \in 1 .. cards' /\ f.user \in Users /\ (f.id = cards' => f.user = u)
  BY <1>2, <1>3, <1>4
<1>7. popup'.kind = "card" /\ popup'.id = cards' /\ popup'.user = u /\ popup'.of = u /\ popup'.picture = Absent
  BY <1>1
<1>. QED
  BY <1>1, <1>2, <1>4, <1>5, <1>6, <1>7
     DEF PopupsInv, PopupsTypeOK, AnswersPlaced, OwnAnswers, DMsFresh, DoneClosed, OnMenu, OnCard, CardsUpTo

\* An answer changes the card it belongs to and no other popup.
LEMMA ArriveKeeps ==
  ASSUME PopupsInv, NEW f \in fetches, NEW d \in Known, Arrive(f, d)
  PROVE  PopupsInv'
<1>1. /\ fetches' = fetches \ {f} /\ dirty' = TRUE /\ UNCHANGED <<height, dmRow, cards, did>>
      /\ popup' = IF ~IsOpen(f) THEN popup
                  ELSE IF f.what = "picture" THEN [popup EXCEPT !.picture = f.user]
                  ELSE [popup EXCEPT !.details = d, !.of = f.user]
  BY DEF Arrive
<1>2. CASE ~IsOpen(f)
  BY <1>1, <1>2 DEF PopupsInv, PopupsTypeOK, AnswersPlaced, OwnAnswers, DMsFresh, DoneClosed, OnMenu, OnCard
<1>3. CASE IsOpen(f)
  <2>1. OnCard /\ popup \in CardsUpTo(cards) /\ popup.id = f.id
    BY <1>3 DEF IsOpen, OnCard, PopupsInv, PopupsTypeOK, CardsUpTo
  <2>2. f.user = popup.user /\ f.user \in Users
    BY <2>1 DEF PopupsInv, PopupsTypeOK, AnswersPlaced
  <2> DEFINE x == [popup EXCEPT !.picture = f.user]
             y == [popup EXCEPT !.details = d, !.of = f.user]
  <2>3. x \in CardsUpTo(cards) /\ x.id = popup.id /\ x.user = popup.user /\ x.of = popup.of /\ x.picture = f.user
    BY <2>1, <2>2 DEF CardsUpTo
  <2>4. y \in CardsUpTo(cards) /\ y.id = popup.id /\ y.user = popup.user /\ y.of = f.user /\ y.picture = popup.picture
    BY <2>1, <2>2 DEF CardsUpTo
  <2>5. popup' = IF f.what = "picture" THEN x ELSE y
    BY <1>1, <1>3
  <2> HIDE DEF x, y
  <2>6. popup.of = popup.user /\ popup.picture \in {Absent, popup.user}
    BY <2>1 DEF PopupsInv, OwnAnswers
  <2>7. /\ popup' \in CardsUpTo(cards) /\ popup'.id = popup.id /\ popup'.user = popup.user
        /\ popup'.of = popup.user /\ popup'.picture \in {Absent, popup.user}
    BY <2>2, <2>3, <2>4, <2>5, <2>6
  <2>8. popup'.kind = "card" /\ did = Absent
    BY <2>1, <2>7 DEF CardsUpTo, PopupsInv, DoneClosed, OnCard
  <2>. QED
    BY <1>1, <2>1, <2>7, <2>8
       DEF PopupsInv, PopupsTypeOK, AnswersPlaced, OwnAnswers, DMsFresh, DoneClosed, OnMenu, OnCard, CardsUpTo
<1>. QED BY <1>2, <1>3

\* What an event leaves of what it does not touch.
LEMMA EventLeaves ==
  ASSUME NEW done, Event(done)
  PROVE  /\ ~dirty /\ dirty' = TRUE /\ did' = done /\ height' = height /\ dmRow' = dmRow
         /\ fetches' = fetches /\ cards' = cards
BY DEF Event

\* Moving the selection does nothing that was chosen.
LEMMA MenuSelectKeeps == ASSUME PopupsInv, NEW i, MenuSelect(i) PROVE PopupsInv' /\ did' = Absent
<1> DEFINE x == [popup EXCEPT !.selected = i]
<1>1. OnMenu /\ Event(Absent) /\ popup' = x
  BY DEF MenuSelect
<1>2. /\ popup.kind = "menu" /\ {"kind", "items"} \subseteq DOMAIN popup
      /\ popup.items \in Menus \cup {ConfirmItems}
  BY <1>1 DEF PopupsInv, PopupsTypeOK, OnMenu
<1>3. x.kind = popup.kind /\ x.items = popup.items /\ DOMAIN x = DOMAIN popup
  BY <1>2
<1> HIDE DEF x
<1>. QED BY <1>1, <1>2, <1>3, EventLeaves, MenuInv

\* An item that is chosen is within the box.
LEMMA SelectableDrawn ==
  ASSUME PopupsInv, OnMenu, NEW i \in Selectable(popup)
  PROVE  popup.items[i].name \in Drawable
<1>1. popup.items \in Menus \cup {ConfirmItems} /\ height \in Nat
  BY PopupsAssumption DEF PopupsInv, PopupsTypeOK
<1> DEFINE n == Len(popup.items)
<1>2. n \in Nat /\ DOMAIN popup.items = 1 .. n
  BY <1>1, MenuRows
<1>3. i \in 1 .. DrawnLen(popup) /\ popup.items[i].enabled
  BY DEF Selectable
<1>4. DrawnLen(popup) = Smaller(n, Larger(Smaller(n + 2, height) - 2, 0))
  BY DEF DrawnLen
<1> HIDE DEF n
<1>5. i \in 1 .. n /\ i <= height - 2
  BY <1>1, <1>2, <1>3, <1>4 DEF Smaller, Larger
<1>. QED BY <1>2, <1>3, <1>5 DEF Drawable

\* The card that is open, and the number of its DMs.
LEMMA CardTyped == ASSUME PopupsInv, OnCard PROVE popup \in CardsUpTo(cards) /\ Len(popup.details.dms) \in Nat
<1>1. popup \in CardsUpTo(cards)
  BY DEF PopupsInv, PopupsTypeOK, CardsUpTo
<1>2. popup.details \in Known
  BY <1>1 DEF CardsUpTo
<1>. QED BY <1>1, <1>2, PopupsAssumption

\* The keys that move a card's selection, and the pointer that drags it.
LEMMA CardChanges ==
  ASSUME PopupsInv, NEW row \in Int, CardUp \/ CardDown \/ CardRelease \/ CardMotion(row)
  PROVE  PopupsInv' /\ did' = Absent
<1>1. OnCard /\ Event(Absent)
  BY DEF CardUp, CardDown, CardRelease, CardMotion
<1>2. popup \in CardsUpTo(cards) /\ Len(popup.details.dms) \in Nat
  BY <1>1, CardTyped
<1>3. popup.selected \in Int
  BY <1>2 DEF CardsUpTo
<1> DEFINE up == Larger(popup.selected - 1, 1)
           down == Smaller(popup.selected + 1, Larger(Len(popup.details.dms), 1))
<1>4. up \in Int /\ down \in Int
  BY <1>2, <1>3 DEF Larger, Smaller
<1>5. \/ popup' = [popup EXCEPT !.selected = up] \/ popup' = [popup EXCEPT !.selected = down]
      \/ popup' = [popup EXCEPT !.dragging = FALSE] \/ popup' = [popup EXCEPT !.y = row]
  BY DEF CardUp, CardDown, CardRelease, CardMotion
<1> HIDE DEF up, down
<1>6. /\ popup' \in CardsUpTo(cards) /\ popup'.id = popup.id /\ popup'.user = popup.user
      /\ popup'.of = popup.of /\ popup'.picture = popup.picture
  <2>1. ASSUME NEW k \in Int PROVE LET x == [popup EXCEPT !.selected = k]
                                    IN x \in CardsUpTo(cards) /\ x.id = popup.id /\ x.user = popup.user
                                       /\ x.of = popup.of /\ x.picture = popup.picture
    BY <1>2 DEF CardsUpTo
  <2>2. LET x == [popup EXCEPT !.dragging = FALSE]
        IN x \in CardsUpTo(cards) /\ x.id = popup.id /\ x.user = popup.user /\ x.of = popup.of /\ x.picture = popup.picture
    BY <1>2 DEF CardsUpTo
  <2>3. LET x == [popup EXCEPT !.y = row]
        IN x \in CardsUpTo(cards) /\ x.id = popup.id /\ x.user = popup.user /\ x.of = popup.of /\ x.picture = popup.picture
    BY <1>2 DEF CardsUpTo
  <2>. QED BY <1>4, <1>5, <2>1, <2>2, <2>3
<1>. QED BY <1>1, <1>6, EventLeaves, CardInv

\* A press on a card starts a drag, or opens the DM drawn on its row.
LEMMA CardPressKeeps ==
  ASSUME PopupsInv, NEW row, CardPress(row)
  PROVE  PopupsInv' /\ (did' # Absent => did' = ShownDM(row))
<1> DEFINE i == row - BoxY(popup) - dmRow + 1
<1>1. /\ OnCard
      /\ IF row = BoxY(popup) THEN Event(Absent) /\ popup' = [popup EXCEPT !.dragging = TRUE]
         ELSE IF i \in DOMAIN popup.details.dms THEN Event(popup.details.dms[i]) /\ popup' = Absent
         ELSE Event(Absent) /\ UNCHANGED popup
  BY DEF CardPress
<1>2. popup \in CardsUpTo(cards)
  BY <1>1, CardTyped
<1>3. CASE row = BoxY(popup)
  <2> DEFINE x == [popup EXCEPT !.dragging = TRUE]
  <2>1. Event(Absent) /\ popup' = x
    BY <1>1, <1>3
  <2>2. x \in CardsUpTo(cards) /\ x.id = popup.id /\ x.user = popup.user /\ x.of = popup.of /\ x.picture = popup.picture
    BY <1>2 DEF CardsUpTo
  <2> HIDE DEF x
  <2>. QED BY <1>1, <2>1, <2>2, EventLeaves, CardInv
<1>4. CASE row # BoxY(popup) /\ i \in DOMAIN popup.details.dms
  <2>1. Event(popup.details.dms[i]) /\ popup' = Absent
    BY <1>1, <1>4
  <2>2. PopupsInv' /\ did' = popup.details.dms[i] /\ ~dirty
    BY <2>1, EventLeaves, ClosedInv
  <2>3. dmRow = Drawn(popup)
    BY <1>1, <2>2 DEF PopupsInv, DMsFresh
  <2>. QED BY <1>4, <2>2, <2>3 DEF ShownDM
<1>5. CASE row # BoxY(popup) /\ i \notin DOMAIN popup.details.dms
  <2>1. Event(Absent) /\ popup' = popup
    BY <1>1, <1>5
  <2>. QED BY <1>1, <1>2, <2>1, EventLeaves, CardInv
<1>. QED BY <1>3, <1>4, <1>5

\* No popup at the start, and a frame that is current.
LEMMA PopupsStart == PopupsInit => PopupsInv
<1> SUFFICES ASSUME PopupsInit PROVE PopupsInv
  OBVIOUS
<1>1. height \in Heights /\ popup = Absent /\ dirty = FALSE /\ fetches = {} /\ cards = 0 /\ did = Absent
  BY DEF PopupsInit
<1>. QED BY <1>1 DEF PopupsInv, PopupsTypeOK, AnswersPlaced, OwnAnswers, DMsFresh, DoneClosed, OnMenu, OnCard

\* A frame, and another size of the terminal, leave the popup as it is.
LEMMA FrameKeeps ==
  ASSUME PopupsInv, Frame \/ \E h \in Heights : ResizeRows(h)
  PROVE  PopupsInv' /\ did' = Absent
<1>1. popup' = popup /\ fetches' = fetches /\ cards' = cards /\ did' = Absent /\ height' \in Heights /\ dirty' \in BOOLEAN
  BY DEF Frame, ResizeRows, PopupsInv, PopupsTypeOK
<1>2. ~dirty' /\ OnCard => dmRow' = Drawn(popup)
  BY DEF Frame, ResizeRows, OnCard
<1>3. OnMenu' = OnMenu /\ OnCard' = OnCard /\ Drawn(popup') = Drawn(popup)
  BY <1>1 DEF OnMenu, OnCard, Drawn
<1>. QED
  BY <1>1, <1>2, <1>3 DEF PopupsInv, PopupsTypeOK, AnswersPlaced, OwnAnswers, DMsFresh, DoneClosed, OnCard

\* A fetch that fails takes nothing from the popup.
LEMMA FailKeeps ==
  ASSUME PopupsInv, NEW f \in fetches, Fail(f)
  PROVE  PopupsInv'
<1>1. fetches' \subseteq fetches /\ UNCHANGED <<height, popup, dirty, dmRow, cards, did>>
  BY DEF Fail
<1>. QED
  BY <1>1 DEF PopupsInv, PopupsTypeOK, AnswersPlaced, OwnAnswers, DMsFresh, DoneClosed, OnMenu, OnCard, Drawn

\* A menu that opens shows items of the program.
LEMMA OpenMenuKeeps ==
  ASSUME PopupsInv, NEW items \in Menus, OpenMenu(items)
  PROVE  PopupsInv' /\ did' = Absent
<1>1. Event(Absent) /\ popup' = Menu(items)
  BY DEF OpenMenu
<1> DEFINE m == Menu(items)
<1>2. m.kind = "menu" /\ m.items = items /\ {"kind", "items"} \subseteq DOMAIN m
  BY MenuOfItems
<1> HIDE DEF m
<1>3. popup' = m
  BY <1>1 DEF m
<1>. QED BY <1>1, <1>2, <1>3, EventLeaves, MenuInv

\* What a menu does closes it, and is an item that is drawn.
LEMMA ActivateKeeps ==
  ASSUME PopupsInv, OnMenu, NEW i, Activate(i) \/ MenuClick(i)
  PROVE  PopupsInv' /\ (did' # Absent => did' \in Drawable)
<1>1. CASE i \in Selectable(popup)
  <2>1. Event(popup.items[i].name) /\ popup' = Absent
    <3>1. CASE Activate(i)
      BY <1>1, <3>1, Zenon DEF Activate, Dismissed
    <3>2. CASE MenuClick(i)
      BY <3>2, Zenon DEF MenuClick, Dismissed
    <3>. QED BY <3>1, <3>2
  <2> DEFINE name == popup.items[i].name
  <2>2. name \in Drawable
    BY <1>1, SelectableDrawn
  <2>3. Event(name) /\ popup' = Absent
    BY <2>1
  <2> HIDE DEF name
  <2>4. PopupsInv' /\ did' = name
    BY <2>3, EventLeaves, ClosedInv
  <2>. QED BY <2>2, <2>4
<1>2. CASE i \notin Selectable(popup)
  <2>1. Event(Absent) /\ popup' = popup
    BY <1>2 DEF Activate, MenuClick
  <2>2. /\ popup.kind = "menu" /\ {"kind", "items"} \subseteq DOMAIN popup
        /\ popup.items \in Menus \cup {ConfirmItems}
    BY DEF PopupsInv, PopupsTypeOK, OnMenu
  <2>. QED BY <2>1, <2>2, EventLeaves, MenuInv
<1>. QED BY <1>1, <1>2

\* Every step on a menu.
LEMMA MenuKeeps ==
  ASSUME PopupsInv,
         \/ \E dir \in {-1, 1} : MenuStep(dir)
         \/ MenuHome \/ MenuEnd \/ MenuEnter \/ MenuEsc \/ MenuClickOutside
         \/ OnMenu /\ \E i \in DOMAIN popup.items : MenuHover(i) \/ MenuClick(i)
  PROVE  PopupsInv' /\ OnMenu /\ (did' # Absent => did' \in Drawable)
<1>1. CASE \E i : OnMenu /\ MenuSelect(i)
  BY <1>1, MenuSelectKeeps
<1>2. CASE \E i : OnMenu /\ (Activate(i) \/ MenuClick(i))
  BY <1>2, ActivateKeeps
<1>3. CASE OnMenu /\ Event(Absent) /\ popup' = Absent
  BY <1>3, EventLeaves, ClosedInv
<1>4. (MenuEsc \/ MenuClickOutside) => (OnMenu /\ Event(Absent) /\ popup' = Absent)
  BY DEF MenuEsc, MenuClickOutside, Dismissed
<1>5. MenuEnter => \E i : OnMenu /\ (Activate(i) \/ MenuClick(i))
  BY DEF MenuEnter
<1>6. (MenuHome \/ MenuEnd \/ \E dir \in {-1, 1} : MenuStep(dir)) => \E i : OnMenu /\ MenuSelect(i)
  BY DEF MenuHome, MenuEnd, MenuStep
<1>7. (OnMenu /\ \E i \in DOMAIN popup.items : MenuHover(i) \/ MenuClick(i)) =>
        (\E i : OnMenu /\ MenuSelect(i)) \/ (\E i : OnMenu /\ (Activate(i) \/ MenuClick(i)))
  BY DEF MenuHover
<1>. QED BY <1>1, <1>2, <1>3, <1>4, <1>5, <1>6, <1>7, Zenon

\* Every step on a card but a press.
LEMMA CardKeeps ==
  ASSUME PopupsInv,
         CardUp \/ CardDown \/ CardRelease \/ CardEnter \/ CardEsc \/ \E row \in 0 .. height - 1 : CardMotion(row)
  PROVE  PopupsInv' /\ OnCard
<1>1. CASE CardEnter \/ CardEsc
  <2>1. OnCard /\ popup' = Absent /\ \E done : Event(done)
    BY <1>1 DEF CardEnter, CardEsc
  <2>. QED BY <2>1, EventLeaves, ClosedInv
<1>2. CASE CardUp \/ CardDown \/ CardRelease
  <2>1. OnCard
    BY <1>2 DEF CardUp, CardDown, CardRelease
  <2>2. \E row \in Int : CardUp \/ CardDown \/ CardRelease \/ CardMotion(row)
    BY <1>2
  <2>. QED BY <2>1, <2>2, CardChanges
<1>3. CASE \E row \in 0 .. height - 1 : CardMotion(row)
  <2>1. OnCard
    BY <1>3 DEF CardMotion
  <2>2. \E row \in Int : CardUp \/ CardDown \/ CardRelease \/ CardMotion(row)
    BY <1>3
  <2>. QED BY <2>1, <2>2, CardChanges
<1>. QED BY <1>1, <1>2, <1>3

\* A frame, the popup's opening and its answers do nothing that was chosen.
LEMMA OthersKeep ==
  ASSUME PopupsInv,
         \/ Frame \/ \E h \in Heights : ResizeRows(h)
         \/ popup = Absent /\ \E items \in Menus : OpenMenu(items)
         \/ \E u \in Users, d \in Known : OpenCard(u, d)
         \/ \E f \in fetches : Fail(f) \/ \E d \in Known : Arrive(f, d)
         \/ UNCHANGED popupsVars
  PROVE  PopupsInv' /\ (OnMenu \/ OnCard => did' = Absent)
<1>0. OnMenu \/ OnCard => did = Absent /\ popup # Absent
  BY DEF PopupsInv, DoneClosed, OnMenu, OnCard
<1>1. CASE Frame \/ \E h \in Heights : ResizeRows(h)
  BY <1>1, FrameKeeps
<1>2. CASE popup = Absent /\ \E items \in Menus : OpenMenu(items)
  BY <1>2, OpenMenuKeeps
<1>3. CASE \E u \in Users, d \in Known : OpenCard(u, d)
  <2>1. popup = Absent
    BY <1>3 DEF OpenCard
  <2>. QED BY <1>0, <1>3, <2>1, OpenCardKeeps
<1>4. CASE \E f \in fetches : Fail(f) \/ \E d \in Known : Arrive(f, d)
  <2>1. did' = did
    BY <1>4 DEF Fail, Arrive
  <2>. QED BY <1>0, <1>4, <2>1, FailKeeps, ArriveKeeps
<1>5. CASE UNCHANGED popupsVars
  <2>1. UNCHANGED <<height, popup, dirty, dmRow, fetches, cards, did>>
    BY <1>5 DEF popupsVars
  <2>2. PopupsInv'
    BY <2>1 DEF PopupsInv, PopupsTypeOK, AnswersPlaced, OwnAnswers, DMsFresh, DoneClosed, OnMenu, OnCard, Drawn
  <2>. QED BY <1>0, <2>1, <2>2
<1>. QED BY <1>1, <1>2, <1>3, <1>4, <1>5

\* A step of the popup keeps the invariant; what it chooses was drawn.
LEMMA PopupsStep ==
  ASSUME PopupsInv, PopupsNext \/ UNCHANGED popupsVars
  PROVE  /\ PopupsInv' /\ (OnMenu /\ did' # Absent => did' \in Drawable)
<1>0. ~(OnMenu /\ OnCard)
  BY DEF OnMenu, OnCard
<1>1. CASE \/ Frame \/ \E h \in Heights : ResizeRows(h)
           \/ popup = Absent /\ \E items \in Menus : OpenMenu(items)
           \/ \E u \in Users, d \in Known : OpenCard(u, d)
           \/ \E f \in fetches : Fail(f) \/ \E d \in Known : Arrive(f, d)
           \/ UNCHANGED popupsVars
  BY <1>1, OthersKeep
<1>2. CASE \/ \E dir \in {-1, 1} : MenuStep(dir)
           \/ MenuHome \/ MenuEnd \/ MenuEnter \/ MenuEsc \/ MenuClickOutside
           \/ OnMenu /\ \E i \in DOMAIN popup.items : MenuHover(i) \/ MenuClick(i)
  BY <1>2, MenuKeeps
<1>3. CASE \/ CardUp \/ CardDown \/ CardRelease \/ CardEnter \/ CardEsc
           \/ \E row \in 0 .. height - 1 : CardMotion(row)
  BY <1>0, <1>3, CardKeeps
<1>4. CASE Clicked
  <2>1. PICK row \in 0 .. height - 1 : CardPress(row)
    BY <1>4 DEF Clicked
  <2>2. OnCard
    BY <2>1 DEF CardPress
  <2>. QED BY <1>0, <2>1, <2>2, CardPressKeeps
<1>. QED BY <1>1, <1>2, <1>3, <1>4 DEF PopupsNext

\* A press on a card opens the DM that is drawn there.
LEMMA PressOpensShown ==
  ASSUME PopupsInv
  PROVE  OnCard /\ did' # Absent => \A row \in 0 .. height - 1 : CardPress(row) => did' = ShownDM(row)
BY CardPressKeeps

\* The popup's invariant: types; an answer being fetched for the card that is open is of
\* its user, and what it shows is; between the frames the DMs are where they were drawn;
\* and what was chosen has closed the popup.
THEOREM PopupsInvariance == PopupsSpec => []PopupsInv
<1>1. PopupsInv /\ [PopupsNext]_popupsVars => PopupsInv'
  BY PopupsStep
<1>. QED BY PopupsStart, <1>1, PTL DEF PopupsSpec

\* ActsOnDrawn, for any users, details, heights, pings and errors: only what is drawn is
\* chosen, an answer is its own card's, a click opens the DM and takes the toast drawn on
\* its row, and no ping and no error is lost.
THEOREM ShownActedOn == PopupsSpec /\ NoticesSpec => ActsOnDrawn
<1>1. PopupsInv /\ [PopupsNext]_popupsVars => [OnMenu /\ did' # Absent => did' \in Drawable]_popupsVars
  BY PopupsStep
<1>2. PopupsInv /\ [PopupsNext]_popupsVars =>
        [OnCard /\ did' # Absent => \A row \in 0 .. height - 1 : CardPress(row) => did' = ShownDM(row)]_popupsVars
  BY PressOpensShown
<1>3. NoticesInv /\ [NoticesNext]_noticesVars =>
        [\A t \in ToSet(toasts) : IsError(t) /\ t # toasts[1] => \E s \in ToSet(toasts') : s.what = t.what]_noticesVars
  BY NoticesStep
<1>4. NoticesInv /\ [NoticesNext]_noticesVars =>
        [toasts' # toasts => \A r \in 0 .. ScreenRows - 1 : Click(r) =>
           {t.what : t \in ToSet(toasts) \ ToSet(toasts')} \subseteq {DrawnToasts(toasts)[r]}]_noticesVars
  BY ClickStep
<1>5. PopupsInv => OwnAnswers
  BY DEF PopupsInv
<1>6. NoticesInv => PingNotLost
  BY DEF NoticesInv
<1>7. PopupsSpec => []OwnAnswers /\ OnlyDrawnChosen /\ ClickOpensShown
  BY <1>1, <1>2, <1>5, PopupsInvariance, PTL DEF PopupsSpec, OnlyDrawnChosen, ClickOpensShown
<1>8. NoticesSpec => []PingNotLost /\ ErrorsStay /\ ClickTakesShown
  BY <1>3, <1>4, <1>6, NoticesInvariance, PTL DEF NoticesSpec, ErrorsStay, ClickTakesShown
<1>. QED BY <1>7, <1>8, PTL DEF ActsOnDrawn
=============================================================================
