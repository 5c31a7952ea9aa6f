---------------------------- MODULE PluginRuntime ----------------------------
(***************************************************************************)
(* The Lua plugin host (plugin/runtime.go, manager.go, timers.go,          *)
(* registry.go, events.go).  One worker goroutine executes all Lua.  The   *)
(* main goroutine loads config.lua and the plugins one after the other     *)
(* through `do' and waits for each; afterwards the gateway, the UI and the *)
(* timers' goroutines submit jobs without blocking, until Close stops the  *)
(* worker and closes the Lua states.  Calling into a closed state panics.  *)
(*                                                                         *)
(* A plugin stands for its Lua state.  A startup that fails is rolled      *)
(* back: its registrations vanish, shadowed ones come back, and its state  *)
(* is closed, while ticks it caused may still be queued and the UI may     *)
(* still hold a viewport it opened.                                        *)
(***************************************************************************)
EXTENDS Naturals, Sequences, FiniteSets

CONSTANTS
  Plugins,    \* config.lua and the plugin files
  Config,     \* config.lua; the program ends when it fails to load
  Names,      \* commands, keys and themes: three registries of one shape
  Stoppers,    \* goroutines that call Close, concurrently or not
  QueueSize,  \* capacity of the job queue
  MaxStack    \* bound: registrations of one name

ASSUME PluginAssumption == Config \in Plugins

VARIABLES
  jobs,       \* the buffered channel
  quit,       \* the channel stop closes
  worker,     \* the goroutine: its place in the loop, its job, the states it executes
  main,       \* the goroutine that loads: where it is, and the plugin it loads
  life,       \* each plugin's Lua state
  stacks,     \* ownership stacks of the registries
  subs,       \* plugins subscribed to events
  timers,     \* each plugin's timer: entry and goroutine
  viewports,  \* viewports the UI holds, with their on_press closures
  closers,    \* where each call of Close is
  late        \* history: jobs begun after quit was closed

vars == <<jobs, quit, worker, main, life, stacks, subs, timers, viewports, closers, late>>

Lua == <<life, stacks, subs, timers, viewports>>

Job(kind, p) == [kind |-> kind, p |-> p]

NoJob == Job("none", Config)

Jobs == [kind : {"load", "call", "tick", "press", "event"}, p : Plugins]

TypeOK ==
  /\ jobs \in Seq(Jobs)
  /\ quit \in BOOLEAN
  /\ worker \in [pc : {"check", "wait", "run", "done"}, job : Jobs \cup {NoJob}, exec : SUBSET Plugins]
  /\ main \in [pc : {"ready", "sending", "waiting", "loaded", "failed"}, p : Plugins]
  /\ life \in [Plugins -> {"none", "starting", "committed", "closed"}]
  /\ stacks \in [Names -> Seq(Plugins)]
  /\ subs \in SUBSET Plugins
  /\ timers \in [Plugins -> {"none", "running", "stopping", "ended"}]
  /\ viewports \in SUBSET Plugins
  /\ closers \in [Stoppers -> {"idle", "stopping", "stopped", "closing", "closed"}]
  /\ late \in Nat

Init ==
  /\ jobs = <<>>
  /\ quit = FALSE
  /\ worker = [pc |-> "check", job |-> NoJob, exec |-> {}]
  /\ main = [pc |-> "ready", p |-> Config]
  /\ life = [p \in Plugins |-> "none"]
  /\ stacks = [n \in Names |-> <<>>]
  /\ subs = {}
  /\ timers = [p \in Plugins |-> "none"]
  /\ viewports = {}
  /\ closers = [c \in Stoppers |-> "idle"]
  /\ late = 0

-----------------------------------------------------------------------------
(* Queueing.                                                               *)

\* submit: refused once quit is closed, dropped when the queue is full.  The
\* read lock makes the test and the send one step with respect to stop.
submit(job) ==
  /\ jobs' = IF ~quit /\ Len(jobs) < QueueSize THEN Append(jobs, job) ELSE jobs
  /\ UNCHANGED <<quit, worker, main, Lua, closers, late>>

\* loadOne through do: main sends the job, or blocks while the queue is full,
\* and then waits for it.  Which plugin is next, and which are disabled, is left
\* open.
DoLoad(p) ==
  /\ main.pc = "ready"
  /\ life[p] = "none"
  /\ p = Config => \A q \in Plugins : life[q] = "none"
  /\ IF Len(jobs) < QueueSize
     THEN jobs' = Append(jobs, Job("load", p)) /\ main' = [pc |-> "waiting", p |-> p]
     ELSE jobs' = jobs /\ main' = [pc |-> "sending", p |-> p]
  /\ UNCHANGED <<quit, worker, Lua, closers, late>>

FinishLoading ==
  /\ main.pc = "ready"
  /\ main' = [main EXCEPT !.pc = "loaded"]
  /\ UNCHANGED <<jobs, quit, worker, Lua, closers, late>>

\* Emit, from any goroutine.
Emit == main.pc = "loaded" /\ submit(Job("event", Config))

\* The handler that a command or a key finds.
lookup(n) == stacks[n][Len(stacks[n])]

\* RunCommand and RunKey: the handler is looked up now and called later.
RunCommand(n) ==
  /\ main.pc = "loaded"
  /\ stacks[n] # <<>>
  /\ submit(Job("call", lookup(n)))

\* The user presses an action of a viewport.
Press(p) ==
  /\ main.pc = "loaded"
  /\ p \in viewports
  /\ submit(Job("press", p))

\* A ticker fires.  Its goroutine may choose the tick over a closed stop channel.
Tick(p) ==
  /\ timers[p] \in {"running", "stopping"}
  /\ submit(Job("tick", p))

TickerExits(p) ==
  /\ timers[p] = "stopping"
  /\ timers' = [timers EXCEPT ![p] = "ended"]
  /\ UNCHANGED <<jobs, quit, worker, main, life, stacks, subs, viewports, closers, late>>

-----------------------------------------------------------------------------
(* The worker.                                                             *)

\* Shutdown is preferred over queued work.
Check ==
  /\ worker.pc = "check"
  /\ worker' = [worker EXCEPT !.pc = IF quit THEN "done" ELSE "wait"]
  /\ UNCHANGED <<jobs, quit, main, Lua, closers, late>>

\* While it waits for a job the worker also sees quit; when both are ready the
\* choice is arbitrary.
Quit ==
  /\ worker.pc = "wait"
  /\ quit
  /\ worker' = [worker EXCEPT !.pc = "done"]
  /\ UNCHANGED <<jobs, quit, main, Lua, closers, late>>

isLive(p) == life[p] = "committed"

\* Mutant: a queued tick or press does not ask whether its state was committed.
ExecutedUnchecked(job) ==
  IF job.kind = "event" THEN subs ELSE {job.p}

\* The states a job calls into: events go to the subscribers at that moment,
\* ticks and presses only to a committed state, commands to the handler found.
Executed(job) ==
  CASE job.kind = "event" -> subs
    [] job.kind \in {"tick", "press"} -> {p \in {job.p} : isLive(p)}
    [] OTHER -> {job.p}

\* A receive from a full channel hands the free slot to the sender that waits.
TakeJob ==
  /\ worker.pc = "wait"
  /\ jobs # <<>>
  /\ LET job == Head(jobs) IN
       /\ worker' = [pc |-> "run", job |-> job, exec |-> Executed(job)]
       /\ life' = IF job.kind = "load" THEN [life EXCEPT ![job.p] = "starting"] ELSE life
  /\ IF main.pc = "sending"
     THEN jobs' = Append(Tail(jobs), Job("load", main.p)) /\ main' = [main EXCEPT !.pc = "waiting"]
     ELSE jobs' = Tail(jobs) /\ main' = main
  /\ late' = IF quit THEN late + 1 ELSE late
  /\ UNCHANGED <<quit, stacks, subs, timers, viewports, closers>>

\* What running Lua may do, in any order and number: register a command, key or
\* theme, subscribe, start a timer, or open a viewport.
register(p) ==
  /\ \E n \in Names : /\ Len(stacks[n]) < MaxStack
                     /\ stacks' = [stacks EXCEPT ![n] = Append(@, p)]
  /\ UNCHANGED <<subs, timers, viewports>>

on(p) ==
  /\ subs' = subs \cup {p}
  /\ UNCHANGED <<stacks, timers, viewports>>

every(p) ==
  /\ timers[p] = "none"
  /\ timers' = [timers EXCEPT ![p] = "running"]
  /\ UNCHANGED <<stacks, subs, viewports>>

viewport(p) ==
  /\ viewports' = viewports \cup {p}
  /\ UNCHANGED <<stacks, subs, timers>>

RunLua ==
  /\ worker.pc = "run"
  /\ \E p \in worker.exec : register(p) \/ on(p) \/ every(p) \/ viewport(p)
  /\ UNCHANGED <<jobs, quit, worker, main, life, closers, late>>

\* The entries of the other owners, in their order.
handlersWithoutOwner(stack, p) ==
  LET kept    == {i \in DOMAIN stack : stack[i] # p}
      rank(i) == Cardinality({j \in kept : j <= i})
  IN  [k \in 1 .. Cardinality(kept) |-> stack[CHOOSE i \in kept : rank(i) = k]]

stopTimer(p) == [timers EXCEPT ![p] = IF @ = "running" THEN "stopping" ELSE @]

rollbackRegistrations(p) ==
  /\ stacks' = [n \in Names |-> handlersWithoutOwner(stacks[n], p)]
  /\ subs' = subs \ {p}
  /\ timers' = stopTimer(p)

EndJob == worker' = [pc |-> "check", job |-> NoJob, exec |-> {}]

\* The startup succeeds: the state is committed and do returns.
LoadSucceeds(p) ==
  /\ worker.pc = "run" /\ worker.job = Job("load", p)
  /\ life' = [life EXCEPT ![p] = "committed"]
  /\ main' = [main EXCEPT !.pc = "ready"]
  /\ EndJob
  /\ UNCHANGED <<jobs, quit, stacks, subs, timers, viewports, closers, late>>

\* The startup fails: an error, a missing grant, or the deadline.
LoadFails(p) ==
  /\ worker.pc = "run" /\ worker.job = Job("load", p)
  /\ rollbackRegistrations(p)
  /\ life' = [life EXCEPT ![p] = "closed"]
  /\ main' = [main EXCEPT !.pc = IF p = Config THEN "failed" ELSE "ready"]
  /\ EndJob
  /\ UNCHANGED <<jobs, quit, viewports, closers, late>>

\* A callback returns, fails, or is cut short by its deadline or by stop.
CallbackEnds ==
  /\ worker.pc = "run" /\ worker.job.kind # "load"
  /\ EndJob
  /\ UNCHANGED <<jobs, quit, main, Lua, closers, late>>

-----------------------------------------------------------------------------
(* Close.                                                                  *)

\* stop closes quit once; concurrent calls all wait for the worker.
Stop(c) ==
  /\ main.pc \in {"loaded", "failed"}
  /\ closers[c] = "idle"
  /\ quit' = TRUE
  /\ closers' = [closers EXCEPT ![c] = "stopping"]
  /\ UNCHANGED <<jobs, worker, main, Lua, late>>

Stopped(c) ==
  /\ closers[c] = "stopping"
  /\ worker.pc = "done"
  /\ closers' = [closers EXCEPT ![c] = "stopped"]
  /\ UNCHANGED <<jobs, quit, worker, main, Lua, late>>

\* Mutant: the registry is emptied and its goroutines are not told.
CloseTimersSilently(c) ==
  /\ closers[c] = "stopped"
  /\ closers' = [closers EXCEPT ![c] = "closing"]
  /\ UNCHANGED <<jobs, quit, worker, main, Lua, late>>

CloseTimers(c) ==
  /\ closers[c] = "stopped"
  /\ timers' = [p \in Plugins |-> IF timers[p] = "running" THEN "stopping" ELSE timers[p]]
  /\ closers' = [closers EXCEPT ![c] = "closing"]
  /\ UNCHANGED <<jobs, quit, worker, main, life, stacks, subs, viewports, late>>

CloseStates(c) ==
  /\ closers[c] = "closing"
  /\ life' = [p \in Plugins |-> IF life[p] = "committed" THEN "closed" ELSE life[p]]
  /\ closers' = [closers EXCEPT ![c] = "closed"]
  /\ UNCHANGED <<jobs, quit, worker, main, stacks, subs, timers, viewports, late>>

-----------------------------------------------------------------------------

Load == \E p \in Plugins : LoadSucceeds(p) \/ LoadFails(p)

Work == Check \/ Quit \/ TakeJob \/ Load \/ CallbackEnds

Close(c) == Stop(c) \/ Stopped(c) \/ CloseTimers(c) \/ CloseStates(c)

Next ==
  \/ FinishLoading
  \/ Emit
  \/ Work
  \/ RunLua
  \/ \E n \in Names : RunCommand(n)
  \/ \E p \in Plugins : DoLoad(p) \/ Press(p) \/ Tick(p) \/ TickerExits(p)
  \/ \E c \in Stoppers : Close(c)

\* The worker runs, and every job ends: Lua executes under a deadline
\* (withDeadline), the host's functions only post.  A ticker whose stop channel is
\* closed sees it.  A call of Close goes on, but nobody has to begin one.
Fairness ==
  /\ WF_vars(Work)
  /\ \A p \in Plugins : WF_vars(TickerExits(p))
  /\ \A c \in Stoppers : WF_vars(Stopped(c) \/ CloseTimers(c) \/ CloseStates(c))

Spec == Init /\ [][Next]_vars /\ Fairness

-----------------------------------------------------------------------------
(* Properties.                                                             *)

\* No job executes Lua on a closed state, which would panic the process: not a
\* tick or a press queued before its plugin's startup was rolled back, not a
\* command whose handler was looked up earlier, not a job still running when
\* Close closes the states.
NoUseAfterClose == \A p \in worker.exec : life[p] # "closed"

\* What a lookup finds, events reach and timers call is owned by a state that is
\* committed or is starting: a failed startup leaves nothing behind, wherever in
\* the stacks its registrations lie.
RegistrationsOwned ==
  (\A c \in Stoppers : closers[c] # "closed") =>
    \A p \in Plugins : life[p] \in {"none", "closed"} =>
      /\ p \notin subs
      /\ timers[p] # "running"
      /\ \A n \in Names : \A i \in 1..Len(stacks[n]) : stacks[n][i] # p

\* Once stop has closed quit at most one more job begins, whatever is queued.
OneLateJob == late <= 1

\* The one load under way is in one place: main holds it while the queue is full,
\* or it is queued, or the worker runs it.
LoadPlaced ==
  /\ \A i \in DOMAIN jobs : jobs[i].kind = "load" =>
       /\ main = [pc |-> "waiting", p |-> jobs[i].p] /\ life[main.p] = "none"
       /\ \A j \in DOMAIN jobs : jobs[j].kind = "load" => j = i
  /\ main.pc = "sending" => life[main.p] = "none"
  /\ worker.pc = "run" /\ worker.job.kind = "load" =>
       main = [pc |-> "waiting", p |-> worker.job.p] /\ life[main.p] = "starting"
  /\ \A p \in Plugins : life[p] = "starting" => worker.pc = "run" /\ worker.job = Job("load", p)

\* A handler that a command found belongs to a state no rollback will close.
CallsCommitted ==
  worker.pc # "done" =>
    \A i \in DOMAIN jobs : jobs[i].kind = "call" => life[jobs[i].p] = "committed"

ExecLive ==
  /\ worker.pc # "run" => worker.exec = {}
  /\ \A p \in worker.exec : life[p] \in {"starting", "committed"}

\* Loading, then quit, then the worker's end, then the states.
ShutdownOrder ==
  /\ quit => main.pc \in {"loaded", "failed"}
  /\ worker.pc = "done" => quit
  /\ \A c \in Stoppers : /\ closers[c] # "idle" => quit
                         /\ closers[c] \notin {"idle", "stopping"} => worker.pc = "done"

\* A worker that has begun a late job looks at quit before it takes another.
LateCounted == OneLateJob /\ (~quit \/ worker.pc = "wait" => late = 0)

\* The inductive invariant behind PluginsSafe.
PluginIInv ==
  TypeOK /\ RegistrationsOwned /\ LoadPlaced /\ CallsCommitted /\ ExecLive /\ ShutdownOrder /\ LateCounted

\* The host is safe: no job executes Lua on a closed state, what is registered
\* belongs to a loaded plugin, and at most one job begins after quit was closed
\* (plugin/runtime.go, plugin/manager.go).
PluginsSafe == NoUseAfterClose /\ RegistrationsOwned /\ OneLateJob

\* A call of Close returns, and every ticker goroutine ends.
CloseReleases ==
  \A c \in Stoppers :
    closers[c] = "stopping" ~>
      /\ closers[c] = "closed"
      /\ \A p \in Plugins : timers[p] \in {"none", "ended"}

\* Loading never hangs: each do returns, though timers fill the queue meanwhile.
LoadReturns == main.pc \in {"sending", "waiting"} ~> main.pc \in {"ready", "failed"}
=============================================================================
