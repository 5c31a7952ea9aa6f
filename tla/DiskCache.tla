----------------------------- MODULE DiskCache ------------------------------
(***************************************************************************)
(* The raw bytes of media on disk (media/cache.go), in one directory that  *)
(* every running program uses: the lock of one cache does not keep the     *)
(* other out, so the checks of a file and its use are separate steps, and  *)
(* so are the renaming of a file and the pruning that follows.             *)
(***************************************************************************)
EXTENDS Integers, FiniteSetsExt

CONSTANTS
  Procs,    \* programs
  Keys,     \* URLs
  Sizes,    \* of the files
  LimitOf,  \* MaxResponseBytes of each program
  MaxBytes, \* diskMaxBytes
  Ttl,      \* diskTTL
  MaxTime,  \* bound: of the clock
  None      \* no file, no answer

VARIABLES
  disk,   \* the file of each URL: its size and modification time, or None
  at,     \* where each program is
  answer, \* what GetDiskLimit returned last: the size, and the age when it was checked
  now
vars == <<disk, at, answer, now>>

Idle == [step |-> "idle"]
Files(d) == {k \in Keys : d[k] # None}
Total(d, ks) == FoldSet(LAMBDA k, n : n + d[k].size, 0, ks)
Expired(f) == now - f.mod > Ttl
Go(p, a) == at' = [at EXCEPT ![p] = a]

\* The byte cap of a read: the program's, and the cache's.
Cap(p) == IF LimitOf[p] < MaxBytes THEN LimitOf[p] ELSE MaxBytes

(* --------------------------------- reads ------------------------------- *)

\* GetDiskLimit, up to the checks on what Stat says.
Stat(p, k) ==
  /\ at[p] = Idle /\ disk[k] # None
  /\ Go(p, [step |-> IF Expired(disk[k]) \/ disk[k].size > Cap(p) THEN "drop" ELSE "open",
            key |-> k, age |-> now - disk[k].mod])
  /\ UNCHANGED <<disk, answer, now>>

\* Open and read, one byte more than may be: the file may have been replaced, or removed.
Open(p) ==
  LET f == disk[at[p].key] IN
  /\ at[p].step = "open" /\ UNCHANGED <<disk, now>>
  /\ IF f = None THEN Go(p, Idle) /\ answer' = [answer EXCEPT ![p] = None]
     ELSE IF f.size > Cap(p) THEN Go(p, [at[p] EXCEPT !.step = "drop"]) /\ UNCHANGED answer
     ELSE Go(p, Idle) /\ answer' = [answer EXCEPT ![p] = [size |-> f.size, age |-> at[p].age]]

\* The file of that name is removed, whatever it is by now.
Drop(p) ==
  /\ at[p].step = "drop" /\ disk' = [disk EXCEPT ![at[p].key] = None] /\ Go(p, Idle)
  /\ answer' = [answer EXCEPT ![p] = None] /\ UNCHANGED now

(* -------------------------------- writes ------------------------------- *)

\* PutDisk: the rename.  A response over the program's own limit never gets here.
Put(p, k, size) ==
  /\ at[p] = Idle /\ size <= LimitOf[p] /\ size <= MaxBytes
  /\ disk' = [disk EXCEPT ![k] = [size |-> size, mod |-> now]]
  /\ Go(p, [step |-> "list"]) /\ UNCHANGED <<answer, now>>

\* pruneDiskLocked: the directory as it is, without what has expired.
List(p) ==
  LET kept == {k \in Files(disk) : ~Expired(disk[k])} IN
  /\ at[p].step = "list" /\ UNCHANGED <<answer, now>>
  /\ disk' = [k \in Keys |-> IF k \in kept THEN disk[k] ELSE None]
  /\ Go(p, [step |-> "prune", files |-> [k \in kept |-> disk[k]], total |-> Total(disk, kept)])

\* The oldest go until the rest fits; one that is gone already makes no room.
Prune(p) ==
  LET files == at[p].files IN
  /\ at[p].step = "prune" /\ UNCHANGED <<answer, now>>
  /\ IF at[p].total <= MaxBytes \/ DOMAIN files = {} THEN Go(p, Idle) /\ UNCHANGED disk
     ELSE \E k \in {f \in DOMAIN files : \A g \in DOMAIN files : files[f].mod <= files[g].mod} :
            /\ disk' = [disk EXCEPT ![k] = None]
            /\ Go(p, [step |-> "prune", files |-> [g \in DOMAIN files \ {k} |-> files[g]],
                      total |-> IF disk[k] = None THEN at[p].total ELSE at[p].total - files[k].size])

\* The program ends, wherever it is; NewCache prunes when it is started again.
Restart(p) == at[p].step # "list" /\ Go(p, [step |-> "list"]) /\ answer' = [answer EXCEPT ![p] = None]
              /\ UNCHANGED <<disk, now>>

Clock == now < MaxTime /\ now' = now + 1 /\ UNCHANGED <<disk, at, answer>>

Init ==
  /\ disk = [k \in Keys |-> None] /\ at = [p \in Procs |-> Idle] /\ answer = [p \in Procs |-> None] /\ now = 0

Next ==
  \/ Clock
  \/ \E p \in Procs :
       \/ Open(p) \/ Drop(p) \/ List(p) \/ Prune(p) \/ Restart(p)
       \/ \E k \in Keys : Stat(p, k) \/ (\E size \in Sizes : Put(p, k, size))

Spec == Init /\ [][Next]_vars

(* ------------------------------ properties ----------------------------- *)

\* Whatever two programs write and prune at a time, and wherever one is ended, the files
\* fit the budget whenever nobody is between a rename and the end of its pruning.
SettledInBudget == (\A p \in Procs : at[p].step \notin {"list", "prune"}) => Total(disk, Files(disk)) <= MaxBytes

\* What is served had not expired and is within the reader's own limit, although another
\* program, whose limit is higher, replaces the file between the check and the read.
ServedFits == \A p \in Procs : answer[p] # None => answer[p].age <= Ttl /\ answer[p].size <= Cap(p)
=============================================================================
