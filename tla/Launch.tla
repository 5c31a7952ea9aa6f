-------------------------------- MODULE Launch --------------------------------
(***************************************************************************)
(* Starting the program, once or twice at a time, and what it leaves on    *)
(* disk: LoadStartup and the migration of config.toml (config/config.go),  *)
(* the instance lock (cmd/tuicord/lock.go), run (cmd/tuicord/main.go),     *)
(* the saved state (uistate/uistate.go), the token of the active account   *)
(* (auth/auth.go), the accounts of the session (accounts/manager.go), and  *)
(* the atomic writes under all of them (atomicfile/atomicfile.go).         *)
(*                                                                         *)
(* A process may be killed between any two steps; the machine may crash,   *)
(* which ends every process and leaves of each file what its directory was *)
(* last synced with, or anything installed since; a file whose data was    *)
(* not synced before it was installed may come back torn.                  *)
(***************************************************************************)
EXTENDS Naturals, Sequences, FiniteSets

CONSTANTS
  Procs,      \* launches that may overlap
  Keys,       \* keyring keys of accounts
  LegacyKey,  \* the key used when no account was ever saved
  MaxCrashes, \* bound: kills and machine crashes
  MaxSwitches,\* bound: switches and READYs of one session
  None        \* no file, no registry; the data of a torn file

\* A registry: keys in order, the active index, and the keys whose label and ID
\* READY has taught.
Registry(list, active, learned) == [list |-> list, active |-> active, learned |-> learned]

Registries == {r \in [list : Seq(Keys), active : Nat, learned : SUBSET Keys] : r.active \in 1..Len(r.list)}

Scripts == {"user", "template", "migrated"}

\* What a directory holds under a name, and a write on its way there.
File == [data : Scripts \cup Registries, whole : BOOLEAN]
Pending == [file : {"config", "ui"}, data : Scripts \cup Registries,
            step : {"temp", "synced", "installed"}, whole : BOOLEAN]

ASSUME LaunchAssumption ==
  /\ LegacyKey \in Keys
  /\ MaxCrashes \in Nat
  /\ None \notin Procs \cup Registries \cup Scripts
  /\ None \notin File /\ None \notin Pending

VARIABLES
  toml,       \* the registry in a config.toml the user kept, or None
  files,      \* config.lua and ui.toml as processes see them
  synced,     \* as a crash of the machine would leave them, had nothing been installed since
  tokens,     \* keys with a token in the keyring
  lock,       \* the process that holds the instance lock
  pc,         \* where each process is
  mem,        \* what each process knows
  write,      \* the atomic write a process is in, or None
  crashes     \* kills and crashes so far

launchVars == <<toml, files, synced, tokens, lock, pc, mem, write, crashes>>

Disk == <<toml, files, synced, tokens>>

Fresh == [exec |-> FALSE, accounts |-> None, state |-> None, list |-> <<>>, active |-> 1,
          learned |-> {}, built |-> {}, connects |-> [k \in Keys |-> 0], sink |-> {},
          saved |-> FALSE, steps |-> 0]

Running == {p \in Procs : pc[p] \in {"lua", "state", "token", "start", "run"}}

LaunchInit ==
  /\ toml \in {None} \cup {Registry(list, 1, {}) : list \in UNION {[1..n -> Keys] : n \in 1..2}}
  /\ files = [config |-> None, ui |-> None]
  /\ synced = files
  /\ tokens \in SUBSET Keys
  /\ lock = None
  /\ pc = [p \in Procs |-> "off"]
  /\ mem = [p \in Procs |-> Fresh]
  /\ write = [p \in Procs |-> None]
  /\ crashes = 0

Go(p, place) == pc' = [pc EXCEPT ![p] = place]

\* The process returns from run: the lock is released.
Exit(p) ==
  /\ Go(p, "off")
  /\ lock' = IF lock = p THEN None ELSE lock
  /\ mem' = [mem EXCEPT ![p] = Fresh]
  /\ write' = [write EXCEPT ![p] = None]

-----------------------------------------------------------------------------
(* Atomic writes.                                                          *)

Writing(file, data, step, whole) == [file |-> file, data |-> data, step |-> step, whole |-> whole]

\* The temporary sibling is created and the content encoded into it.
Begin(p, file, data) == write' = [write EXCEPT ![p] = Writing(file, data, "temp", FALSE)]

SyncFile(p) ==
  /\ write[p] # None /\ write[p].step = "temp"
  /\ write' = [write EXCEPT ![p] = Writing(@.file, @.data, "synced", TRUE)]
  /\ UNCHANGED <<Disk, lock, pc, mem, crashes>>

\* Mutant: config.lua is renamed over whatever another creator put there.
Replaces(p) ==
  /\ write[p] # None /\ write[p].step = "synced"
  /\ files' = [files EXCEPT ![write[p].file] = [data |-> write[p].data, whole |-> write[p].whole]]
  /\ write' = [write EXCEPT ![p] = Writing(@.file, @.data, "installed", @.whole)]
  /\ UNCHANGED <<toml, synced, tokens, lock, pc, mem, crashes>>

\* ui.toml is replaced by renaming; config.lua is linked, and whoever created it
\* first wins: the loser goes on as if it had written it.
InstallFile(p) ==
  /\ write[p] # None /\ write[p].step = "synced"
  /\ IF write[p].file = "config" /\ files.config # None
     THEN /\ write' = [write EXCEPT ![p] = None]
          /\ UNCHANGED files
     ELSE /\ files' = [files EXCEPT ![write[p].file] = [data |-> write[p].data, whole |-> write[p].whole]]
          /\ write' = [write EXCEPT ![p] = Writing(@.file, @.data, "installed", @.whole)]
  /\ UNCHANGED <<toml, synced, tokens, lock, pc, mem, crashes>>

SyncDir(p) ==
  /\ write[p] # None /\ write[p].step = "installed"
  /\ synced' = [synced EXCEPT ![write[p].file] = files[write[p].file]]
  /\ mem' = [mem EXCEPT ![p].saved = write[p].file = "ui"]
  /\ write' = [write EXCEPT ![p] = None]
  /\ UNCHANGED <<toml, files, tokens, lock, pc, crashes>>

\* A step of a write fails.  While the program starts this is fatal; a session
\* only warns, and its registry is then newer than the file.
WriteFails(p) ==
  /\ write[p] # None
  /\ IF pc[p] = "run"
     THEN /\ write' = [write EXCEPT ![p] = None]
          /\ mem' = [mem EXCEPT ![p].saved = FALSE]
          /\ UNCHANGED <<pc, lock>>
     ELSE Exit(p)
  /\ UNCHANGED <<Disk, crashes>>

-----------------------------------------------------------------------------
(* Starting.                                                               *)

Ready(p, place) == pc[p] = place /\ write[p] = None

LaunchOf(p) ==
  /\ pc[p] = "off"
  /\ Go(p, "config")
  /\ UNCHANGED <<Disk, lock, mem, write, crashes>>

\* LoadStartup: an existing config.lua is to be executed; a config.toml alone is
\* decoded and migrated, without its accounts; otherwise the template is written.
LoadStartup(p) ==
  /\ Ready(p, "config")
  /\ Go(p, "lock")
  /\ \/ /\ files.config # None
        /\ mem' = [mem EXCEPT ![p].exec = TRUE]
        /\ UNCHANGED write
     \/ /\ files.config = None /\ toml # None
        /\ mem' = [mem EXCEPT ![p].accounts = toml]
        /\ Begin(p, "config", "migrated")
     \/ /\ files.config = None /\ toml = None
        /\ mem' = [mem EXCEPT ![p].exec = TRUE]
        /\ Begin(p, "config", "template")
  /\ UNCHANGED <<Disk, lock, crashes>>

\* acquireInstanceLock: the second instance gives up.
acquireInstanceLock(p) ==
  /\ Ready(p, "lock")
  /\ IF lock = None THEN lock' = p /\ Go(p, "lua") /\ UNCHANGED <<mem, write>> ELSE Exit(p)
  /\ UNCHANGED <<Disk, crashes>>

\* config.lua runs, and may fail.
LoadConfig(p) ==
  /\ Ready(p, "lua")
  /\ \/ Go(p, "state") /\ UNCHANGED <<lock, mem, write>>
     \/ mem[p].exec /\ Exit(p)
  /\ UNCHANGED <<Disk, crashes>>

\* The saved state is read, and seeded from the legacy registry when it has none.
LoadState(p) ==
  /\ Ready(p, "state")
  /\ LET saved == IF files.ui = None THEN None ELSE files.ui.data
         seeds == saved = None /\ mem[p].accounts # None IN
       /\ mem' = [mem EXCEPT ![p].state = IF seeds THEN mem[p].accounts ELSE saved]
       /\ IF seeds THEN Begin(p, "ui", mem[p].accounts) ELSE UNCHANGED write
  /\ Go(p, "token")
  /\ UNCHANGED <<Disk, lock, crashes>>

\* dedupAccountRegistry: the first row of each key; the active row by its key.
Firsts(list) == {i \in 1..Len(list) : \A j \in 1..(i - 1) : list[j] # list[i]}

Nth(S, n) == CHOOSE i \in S : Cardinality({j \in S : j <= i}) = n

Deduplicated(list) == [n \in 1..Cardinality(Firsts(list)) |-> list[Nth(Firsts(list), n)]]

\* ResolveToken for the active account: stored, or prompted for and stored; the
\* user may cancel.
ResolveToken(p) ==
  /\ Ready(p, "token")
  /\ LET saved == IF mem[p].state = None THEN Registry(<<LegacyKey>>, 1, {}) ELSE mem[p].state
         key == saved.list[saved.active]
         list == Deduplicated(saved.list) IN
       \/ /\ tokens' = tokens \cup {key}
          /\ mem' = [mem EXCEPT ![p].list = list, ![p].active = CHOOSE i \in 1..Len(list) : list[i] = key,
                                ![p].learned = saved.learned, ![p].built = {key}]
          /\ Go(p, "start")
          /\ UNCHANGED <<lock, write>>
       \/ /\ key \notin tokens
          /\ Exit(p)
          /\ UNCHANGED tokens
  /\ UNCHANGED <<toml, files, synced, crashes>>

-----------------------------------------------------------------------------
(* The session: accounts/manager.go on the UI goroutine, which also waits  *)
(* for each write.                                                         *)

Active(p) == mem[p].list[mem[p].active]

bindEventSink(p, k) == {k}

\* An account connects once.
Connected(connects, k) == [connects EXCEPT ![k] = IF @ = 0 THEN 1 ELSE @]

\* Switch: the account is built when it was not, which needs its token; a failure
\* leaves the active account as it was.  Selecting persists and connects, once.
Switch(p, i) ==
  LET k == mem[p].list[i] IN
    IF k \in mem[p].built \cup tokens
    THEN /\ mem' = [mem EXCEPT ![p].active = i,
                               ![p].built = @ \cup {k},
                               ![p].sink = bindEventSink(p, k),
                               ![p].connects = Connected(@, k),
                               ![p].steps = @ + 1]
         /\ Begin(p, "ui", Registry(mem[p].list, i, mem[p].learned))
    ELSE mem' = [mem EXCEPT ![p].steps = @ + 1] /\ UNCHANGED write

Start(p) ==
  /\ Ready(p, "start")
  /\ Switch(p, mem[p].active)
  /\ Go(p, "run")
  /\ UNCHANGED <<Disk, lock, crashes>>

Select(p) ==
  /\ Ready(p, "run") /\ mem[p].steps < MaxSwitches
  /\ \E i \in 1..Len(mem[p].list) : Switch(p, i)
  /\ UNCHANGED <<Disk, lock, pc, crashes>>

\* READY of a connected account: what it teaches is persisted.
hydrate(p, k) ==
  /\ Ready(p, "run") /\ mem[p].steps < MaxSwitches
  /\ mem[p].connects[k] > 0 /\ k \notin mem[p].learned
  /\ mem' = [mem EXCEPT ![p].learned = @ \cup {k}, ![p].steps = @ + 1]
  /\ Begin(p, "ui", Registry(mem[p].list, mem[p].active, mem[p].learned \cup {k}))
  /\ UNCHANGED <<Disk, lock, pc, crashes>>

\* Discord closes the gateway with 4004: the token is dead and is removed.
ShowError(p, k) ==
  /\ Ready(p, "run")
  /\ mem[p].connects[k] > 0
  /\ tokens' = tokens \ {k}
  /\ UNCHANGED <<toml, files, synced, lock, pc, mem, write, crashes>>

Quit(p) ==
  /\ Ready(p, "run")
  /\ Exit(p)
  /\ UNCHANGED <<Disk, crashes>>

-----------------------------------------------------------------------------
(* Faults, and the user's editor.                                          *)

UserCreatesConfig ==
  /\ files.config = None
  /\ files' = [files EXCEPT !.config = [data |-> "user", whole |-> TRUE]]
  /\ synced' = [synced EXCEPT !.config = [data |-> "user", whole |-> TRUE]]
  /\ UNCHANGED <<toml, tokens, lock, pc, mem, write, crashes>>

Kill(p) ==
  /\ crashes < MaxCrashes /\ pc[p] # "off"
  /\ crashes' = crashes + 1
  /\ Exit(p)
  /\ UNCHANGED Disk

\* What a crash leaves of a file.
AfterCrash(f) ==
  {synced[f], files[f]} \cup {[data |-> None, whole |-> FALSE] : v \in {v \in {files[f]} : v # None /\ ~v.whole}}

Crash ==
  /\ crashes < MaxCrashes
  /\ crashes' = crashes + 1
  /\ \E c \in AfterCrash("config"), u \in AfterCrash("ui") : files' = [config |-> c, ui |-> u]
  /\ synced' = files'
  /\ lock' = None
  /\ pc' = [p \in Procs |-> "off"]
  /\ mem' = [p \in Procs |-> Fresh]
  /\ write' = [p \in Procs |-> None]
  /\ UNCHANGED <<toml, tokens>>

Write(p) == SyncFile(p) \/ InstallFile(p) \/ SyncDir(p) \/ WriteFails(p)

Boot(p) ==
  \/ LaunchOf(p) \/ LoadStartup(p) \/ acquireInstanceLock(p) \/ LoadConfig(p)
  \/ LoadState(p) \/ ResolveToken(p) \/ Start(p)

Session(p) == Select(p) \/ Quit(p) \/ \E k \in Keys : hydrate(p, k) \/ ShowError(p, k)

LaunchNext ==
  \/ \E p \in Procs : Boot(p) \/ Session(p) \/ Write(p) \/ Kill(p)
  \/ UserCreatesConfig
  \/ Crash

LaunchSpec == LaunchInit /\ [][LaunchNext]_launchVars

-----------------------------------------------------------------------------
(* The inductive invariant.                                                *)

Places == {"off", "config", "lock", "lua", "state", "token", "start", "run"}

\* A file that is there was synced before it was installed.
Stored == [config : {None} \cup [data : Scripts, whole : {TRUE}],
           ui : {None} \cup [data : Registries, whole : {TRUE}]]

Memory == [exec : BOOLEAN, accounts : {None} \cup Registries, state : {None} \cup Registries,
           list : Seq(Keys), active : Nat, learned : SUBSET Keys, built : SUBSET Keys,
           connects : [Keys -> {0, 1}], sink : SUBSET Keys, saved : BOOLEAN, steps : Nat]

WritesOf(file, content) ==
  [file : {file}, data : content, step : {"temp"}, whole : {FALSE}]
    \cup [file : {file}, data : content, step : {"synced", "installed"}, whole : {TRUE}]

Writes(file) == IF file = "config" THEN WritesOf("config", Scripts) ELSE WritesOf("ui", Registries)

LaunchTypes ==
  /\ toml \in {None} \cup Registries
  /\ files \in Stored /\ synced \in Stored
  /\ tokens \in SUBSET Keys
  /\ lock \in {None} \cup Procs
  /\ pc \in [Procs -> Places]
  /\ mem \in [Procs -> Memory]
  /\ write = [p \in Procs |-> write[p]]
  /\ \A p \in Procs : write[p] # None => write[p] \in Writes(write[p].file)
  /\ crashes \in Nat

\* Who runs holds the lock, and ui.toml is written by who runs.
Locked ==
  /\ \A p \in Running : lock = p
  /\ \A p \in Procs : write[p] # None /\ write[p].file = "ui" => p \in Running

\* The active account is one of the list, and the token was there when it was chosen.
Chosen ==
  \A p \in Procs :
    /\ pc[p] \in {"start", "run"} => mem[p].active \in 1..Len(mem[p].list)
    /\ pc[p] = "start" => Active(p) \in mem[p].built

Current(p) == Registry(mem[p].list, mem[p].active, mem[p].learned)

\* A session writes its registry; a save that returned left it where a crash keeps it.
Saved ==
  \A p \in Procs : pc[p] = "run" =>
    /\ write[p] # None => /\ write[p].file = "ui" /\ write[p].data = Current(p)
                          /\ write[p].step = "installed" => files.ui = [data |-> Current(p), whole |-> TRUE]
    /\ write[p] = None /\ mem[p].saved => synced.ui = [data |-> Current(p), whole |-> TRUE]

EventsFollow == \A p \in Procs : pc[p] = "run" => mem[p].sink \subseteq {Active(p)}

LaunchIInv == LaunchTypes /\ Locked /\ Chosen /\ Saved /\ EventsFollow

-----------------------------------------------------------------------------
(* Properties.                                                             *)

\* One process at a time executes config.lua, and one holds a session.
OneOwner == Cardinality(Running) <= 1

\* No launch ever reads half a file, whenever a process was killed or the machine
\* crashed while another wrote it.
NeverTorn == \A f \in {"config", "ui"} : files[f] # None => files[f].data # None

\* A config.lua that exists is never replaced, whoever created it while the
\* program was about to.
NoClobber == [][files.config # None /\ crashes' = crashes => files'.config = files.config]_launchVars

\* Once a save returned without an error the selected account, and what was
\* learned about the accounts, survive even a crash of the machine.
SelectionDurable ==
  \A p \in Procs : Ready(p, "run") /\ mem[p].saved =>
    /\ synced.ui # None
    /\ synced.ui.data = Registry(mem[p].list, mem[p].active, mem[p].learned)

\* Plugins observe the active account and no other, after switches that succeeded
\* and switches that failed.
EventsFollowActive ==
  \A p \in Procs : pc[p] = "run" => mem[p].sink \subseteq {Active(p)} /\ \A k \in Keys : mem[p].connects[k] <= 1

\* What is on disk stays whole: one process runs with a session, no launch reads a torn
\* file, the selected account survives a crash once its save has returned, the events are
\* those of the active account and a config is never overwritten (atomicfile, accounts,
\* config, cmd/tuicord).
FilesKept ==
  /\ [](OneOwner /\ NeverTorn /\ SelectionDurable /\ EventsFollowActive)
  /\ NoClobber
=============================================================================
