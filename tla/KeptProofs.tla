----------------------------- MODULE KeptProofs -----------------------------
(***************************************************************************)
(* What the program keeps, for any accounts, channels, crashes and bounds: *)
(* what a launch writes is never torn and never lost (module Launch), the  *)
(* four copies of the read state agree once everything has been handled    *)
(* (module ReadState), and a pending gate of the directory or of a history *)
(* always has its opener, whatever is removed meanwhile (Directory).       *)
(***************************************************************************)
EXTENDS Launch, ReadState, Directory, FiniteSetTheorems, TLAPS

(***************************************************************************)
(* The files of a launch: each process owns what it has locked, what is in *)
(* its memory agrees with what it has written, and a file changes only by  *)
(* the rename of a file that was whole and synced.                         *)
(***************************************************************************)

RankIn(S, i) == Cardinality({j \in S : j <= i})

\* Ranks number the elements of a finite set of naturals, one for each.
LEMMA RankBijective ==
  ASSUME NEW S \in SUBSET Nat, IsFiniteSet(S)
  PROVE  /\ \A i \in S : RankIn(S, i) \in 1..Cardinality(S)
         /\ \A i, h \in S : RankIn(S, i) = RankIn(S, h) => i = h
         /\ \A n \in 1..Cardinality(S) : \E i \in S : RankIn(S, i) = n
<1> DEFINE upTo(i) == {j \in S : j <= i}
           rank == [i \in S |-> Cardinality(upTo(i))]
           ranks == 1..Cardinality(S)
<1>1. Cardinality(S) \in Nat
  BY FS_CardinalityType
<1>2. \A i \in S : /\ upTo(i) \in SUBSET S /\ IsFiniteSet(upTo(i))
                   /\ Cardinality(upTo(i)) \in Nat /\ Cardinality(upTo(i)) <= Cardinality(S)
  BY FS_Subset, FS_CardinalityType
<1>3. \A i \in S : Cardinality(upTo(i)) # 0
  <2> SUFFICES ASSUME NEW i \in S PROVE Cardinality(upTo(i)) # 0
    OBVIOUS
  <2>1. i \in upTo(i)
    OBVIOUS
  <2>. QED BY <1>2, <2>1, FS_EmptySet
<1>4. rank \in [S -> ranks]
  BY <1>1, <1>2, <1>3
<1>5. \A i, h \in S : i < h => rank[i] # rank[h]
  <2> SUFFICES ASSUME NEW i \in S, NEW h \in S, i < h PROVE rank[i] # rank[h]
    OBVIOUS
  <2>1. i \in Nat /\ h \in Nat /\ \A j \in S : j \in Nat
    OBVIOUS
  <2>2. upTo(i) \in SUBSET upTo(h)
    <3>1. \A j \in S : j <= i => j <= h
      BY <2>1
    <3>. QED BY <3>1
  <2>3. h \in upTo(h) /\ h \notin upTo(i)
    BY <2>1
  <2>4. Cardinality(upTo(h)) # Cardinality(upTo(i))
    BY <1>2, <2>2, <2>3, FS_Subset
  <2>. QED BY <2>4
<1>6. \A i, h \in S : rank[i] = rank[h] => i = h
  <2>1. \A i, h \in S : i < h \/ h < i \/ i = h
    OBVIOUS
  <2>. QED BY <1>5, <2>1
<1>7. rank \in Injection(S, ranks)
  BY <1>4, <1>6 DEF Injection, IsInjective
<1>8. IsFiniteSet(ranks) /\ Cardinality(ranks) = Cardinality(S)
  BY <1>1, FS_Interval
<1>9. rank \in Surjection(S, ranks)
  BY <1>7, <1>8, FS_Injection
<1>10. \A n \in ranks : \E i \in S : rank[i] = n
  BY <1>9 DEF Surjection
<1>11. \A i \in S : RankIn(S, i) = rank[i]
  BY DEF RankIn
<1> HIDE DEF rank
<1>12. \A i \in S : RankIn(S, i) \in ranks
  BY <1>4, <1>11
<1>13. \A i, h \in S : RankIn(S, i) = RankIn(S, h) => i = h
  BY <1>6, <1>11
<1>. QED BY <1>10, <1>11, <1>12, <1>13

\* dedupAccountRegistry drops no key: the first row of each is kept.
LEMMA DedupKept ==
  ASSUME NEW K, NEW list \in Seq(K)
  PROVE  /\ Deduplicated(list) \in Seq(K)
         /\ \A i \in 1..Len(list) :
              \E n \in 1..Len(Deduplicated(list)) : Deduplicated(list)[n] = list[i]
<1> DEFINE S == Firsts(list)
           D == Deduplicated(list)
<1>1. S \in SUBSET Nat /\ S \subseteq 1..Len(list) /\ IsFiniteSet(S) /\ Cardinality(S) \in Nat
  <2>1. IsFiniteSet(1..Len(list)) /\ S \in SUBSET (1..Len(list))
    BY FS_Interval DEF Firsts
  <2>. QED BY <2>1, FS_Subset, FS_CardinalityType
<1>2. \A n \in 1..Cardinality(S) : Nth(S, n) \in S /\ RankIn(S, Nth(S, n)) = n
  <2> SUFFICES ASSUME NEW n \in 1..Cardinality(S)
               PROVE  Nth(S, n) \in S /\ RankIn(S, Nth(S, n)) = n
    OBVIOUS
  <2>1. \E i \in S : Cardinality({j \in S : j <= i}) = n
    BY <1>1, RankBijective DEF RankIn
  <2> HIDE DEF S
  <2>. QED BY <2>1 DEF Nth, RankIn
<1>3. /\ D \in Seq(K) /\ Len(D) = Cardinality(S)
      /\ \A n \in 1..Cardinality(S) : D[n] = list[Nth(S, n)]
  <2>1. D = [n \in 1..Cardinality(S) |-> list[Nth(S, n)]]
    BY DEF Deduplicated
  <2> HIDE DEF S, D
  <2>2. ASSUME NEW n \in 1..Cardinality(S) PROVE list[Nth(S, n)] \in K
    <3>1. Nth(S, n) \in 1..Len(list)
      BY <1>1, <1>2
    <3>. QED BY <3>1
  <2>. QED BY <1>1, <2>1, <2>2
<1>4. ASSUME NEW i \in 1..Len(list) PROVE \E n \in 1..Len(D) : D[n] = list[i]
  <2> DEFINE same == {j \in 1..Len(list) : list[j] = list[i]}
  <2>1. same \in SUBSET Nat /\ IsFiniteSet(same) /\ i \in same /\ Cardinality(same) \in Nat
    <3>1. IsFiniteSet(1..Len(list)) /\ same \in SUBSET (1..Len(list))
      BY FS_Interval
    <3>. QED BY <3>1, FS_Subset, FS_CardinalityType
  <2>2. 1 \in 1..Cardinality(same)
    BY <2>1, FS_EmptySet
  <2>3. PICK m \in same : RankIn(same, m) = 1
    <3> HIDE DEF same
    <3>. QED BY <2>1, <2>2, RankBijective
  <2>4. \A j \in same : ~(j < m)
    <3> SUFFICES ASSUME NEW j \in same, j < m PROVE FALSE
      OBVIOUS
    <3>1. m \in {h \in same : h <= m} /\ j \in {h \in same : h <= m} /\ j # m
      OBVIOUS
    <3>2. IsFiniteSet({h \in same : h <= m})
      BY <2>1, FS_Subset
    <3>3. PICK x : {h \in same : h <= m} = {x}
      BY <2>3, <3>2, FS_Singleton DEF RankIn
    <3>. QED BY <3>1, <3>3
  <2>5. m \in S /\ list[m] = list[i]
    <3>1. \A j \in 1..(m - 1) : list[j] # list[m]
      BY <2>1, <2>4
    <3>. QED BY <3>1 DEF Firsts
  <2>6. RankIn(S, m) \in 1..Cardinality(S)
    BY <1>1, <2>5, RankBijective
  <2>7. Nth(S, RankIn(S, m)) = m
    <3> HIDE DEF S
    <3>1. \A h, j \in S : RankIn(S, h) = RankIn(S, j) => h = j
      BY <1>1, RankBijective
    <3>2. Nth(S, RankIn(S, m)) \in S /\ RankIn(S, Nth(S, RankIn(S, m))) = RankIn(S, m)
      BY <1>2, <2>6
    <3>. QED BY <2>5, <3>1, <3>2
  <2> HIDE DEF S, D
  <2>. QED BY <1>3, <2>5, <2>6, <2>7
<1>. QED BY <1>3, <1>4

-----------------------------------------------------------------------------
(* What a step of one process leaves to the others.                        *)

\* What the invariant says of one process.
OwnOK(q) ==
  /\ q \in Running => lock = q
  /\ write[q] # None /\ write[q].file = "ui" => q \in Running
  /\ pc[q] \in {"start", "run"} => mem[q].active \in 1..Len(mem[q].list)
  /\ pc[q] = "start" => Active(q) \in mem[q].built
  /\ pc[q] = "run" =>
       /\ write[q] # None => /\ write[q].file = "ui" /\ write[q].data = Current(q)
                             /\ write[q].step = "installed" => files.ui = [data |-> Current(q), whole |-> TRUE]
       /\ write[q] = None /\ mem[q].saved => synced.ui = [data |-> Current(q), whole |-> TRUE]
       /\ mem[q].sink \subseteq {Active(q)}

LEMMA OwnParts == LaunchIInv <=> LaunchTypes /\ \A q \in Procs : OwnOK(q)
BY DEF LaunchIInv, OwnOK, Locked, Chosen, Saved, EventsFollow, Running

\* A step of p writes its own memory; the lock and ui.toml only while it holds the
\* lock, or while nobody does.
Frame(p) ==
  /\ \A q \in Procs \ {p} : pc'[q] = pc[q] /\ mem'[q] = mem[q] /\ write'[q] = write[q]
  /\ (lock' = lock) \/ (lock = None /\ lock' = p) \/ (lock = p /\ lock' = None)
  /\ (files'.ui = files.ui /\ synced'.ui = synced.ui) \/ p \in Running

LEMMA OthersKept ==
  ASSUME LaunchIInv, NEW p \in Procs, Frame(p), LaunchTypes', OwnOK(p)'
  PROVE  LaunchIInv'
<1>1. ASSUME NEW q \in Procs, q # p PROVE OwnOK(q)'
  <2>1. OwnOK(q) /\ OwnOK(p)
    BY OwnParts
  <2>2. pc'[q] = pc[q] /\ mem'[q] = mem[q] /\ write'[q] = write[q]
    BY <1>1 DEF Frame
  <2>3. q \in Running => lock = q /\ lock' = q /\ files'.ui = files.ui /\ synced'.ui = synced.ui
    <3>1. q \in Running => lock = q /\ q # None
      BY <2>1, LaunchAssumption DEF OwnOK
    <3>. QED BY <1>1, <2>1, <3>1 DEF Frame, OwnOK
  <2>4. q \in Running <=> (q \in Running)'
    BY <2>2 DEF Running
  <2>5. pc[q] = "run" => q \in Running
    BY DEF Running
  <2>6. Active(q)' = Active(q) /\ Current(q)' = Current(q)
    BY <2>2 DEF Active, Current
  <2>. QED BY <2>1, <2>2, <2>3, <2>4, <2>5, <2>6 DEF OwnOK
<1>2. \A q \in Procs : OwnOK(q)'
  BY <1>1
<1>. QED BY <1>2, OwnParts DEF LaunchIInv, OwnOK, Locked, Chosen, Saved, EventsFollow, Running, LaunchTypes

LEMMA InitLaunch == LaunchInit => LaunchIInv
<1> SUFFICES ASSUME LaunchInit PROVE LaunchIInv
  OBVIOUS
<1> USE LaunchAssumption DEF LaunchInit
<1>1. toml \in {None} \cup Registries
  <2> SUFFICES ASSUME NEW n \in 1..2, NEW list \in [1..n -> Keys], toml = Registry(list, 1, {})
               PROVE  toml \in Registries
    OBVIOUS
  <2>1. list \in Seq(Keys) /\ Len(list) = n
    OBVIOUS
  <2>. QED BY <2>1 DEF Registry, Registries
<1>2. files \in Stored /\ synced \in Stored
  BY DEF Stored
<1>3. Fresh \in Memory
  <2>1. <<>> \in Seq(Keys)
    OBVIOUS
  <2>. QED BY <2>1 DEF Fresh, Memory
<1>4. pc \in [Procs -> Places] /\ mem \in [Procs -> Memory]
  BY <1>3 DEF Places
<1>5. LaunchTypes
  BY <1>1, <1>2, <1>4 DEF LaunchTypes
<1>6. Locked /\ Chosen /\ Saved /\ EventsFollow
  BY DEF Locked, Chosen, Saved, EventsFollow, Running
<1>. QED BY <1>5, <1>6 DEF LaunchIInv

-----------------------------------------------------------------------------
(* Writes.                                                                 *)

LEMMA WriteFields ==
  ASSUME NEW w, w \in Writes(w.file)
  PROVE  /\ w \in Pending
         /\ ((w.file = "config" /\ w.data \in Scripts) \/ (w.file = "ui" /\ w.data \in Registries))
         /\ w.step # "temp" => w.whole = TRUE
<1>1. CASE w.file = "config"
  <2>1. w \in WritesOf("config", Scripts)
    BY <1>1 DEF Writes
  <2>2. w \in Pending /\ w.file = "config" /\ w.data \in Scripts
    BY <2>1 DEF WritesOf, Pending
  <2>3. w.step # "temp" => w.whole = TRUE
    BY <2>1 DEF WritesOf
  <2>. QED BY <2>2, <2>3
<1>2. CASE w.file # "config"
  <2>1. w \in WritesOf("ui", Registries)
    BY <1>2 DEF Writes
  <2>2. w \in Pending /\ w.file = "ui" /\ w.data \in Registries
    BY <2>1 DEF WritesOf, Pending
  <2>3. w.step # "temp" => w.whole = TRUE
    BY <2>1 DEF WritesOf
  <2>. QED BY <2>2, <2>3
<1>. QED BY <1>1, <1>2

\* The next record of the write w.
At(w, step) == Writing(w.file, w.data, step, TRUE)

LEMMA AtTyped ==
  ASSUME NEW w, w \in Writes(w.file), NEW step \in {"synced", "installed"}
  PROVE  /\ At(w, step) \in Writes(At(w, step).file)
         /\ At(w, step).file = w.file /\ At(w, step).data = w.data /\ At(w, step).step = step
<1>1. ((w.file = "config" /\ w.data \in Scripts) \/ (w.file = "ui" /\ w.data \in Registries))
  BY WriteFields
<1>2. At(w, step).file = w.file /\ At(w, step).data = w.data /\ At(w, step).step = step
  BY DEF At, Writing
<1>3. CASE w.file = "config"
  <2>1. At(w, step) \in WritesOf("config", Scripts)
    BY <1>1, <1>3 DEF At, Writing, WritesOf
  <2>. QED BY <1>2, <1>3, <2>1 DEF Writes
<1>4. CASE w.file = "ui"
  <2>1. At(w, step) \in WritesOf("ui", Registries)
    BY <1>1, <1>4 DEF At, Writing, WritesOf
  <2>. QED BY <1>2, <1>4, <2>1 DEF Writes
<1>. QED BY <1>1, <1>2, <1>3, <1>4

LEMMA SyncFileKept ==
  ASSUME LaunchIInv, NEW p \in Procs, SyncFile(p)
  PROVE  LaunchIInv'
<1> USE DEF SyncFile, Disk
<1>1. LaunchTypes /\ OwnOK(p)
  BY OwnParts
<1>2. write[p] \in Writes(write[p].file)
  BY <1>1 DEF LaunchTypes
<1>3. write' = [write EXCEPT ![p] = At(write[p], "synced")]
  BY DEF At
<1>4. write' = [q \in Procs |-> write'[q]] /\ \A q \in Procs \ {p} : write'[q] = write[q]
  BY <1>1, <1>3 DEF LaunchTypes
<1>5. /\ write'[p] = At(write[p], "synced") /\ write'[p] \in Writes(write'[p].file)
      /\ write'[p].file = write[p].file /\ write'[p].data = write[p].data /\ write'[p].step = "synced"
  <2>1. write'[p] = At(write[p], "synced")
    BY <1>1, <1>3 DEF LaunchTypes
  <2>. QED BY <1>2, <2>1, AtTyped
<1>6. LaunchTypes'
  <2>1. \A q \in Procs : write'[q] # None => write'[q] \in Writes(write'[q].file)
    BY <1>1, <1>4, <1>5 DEF LaunchTypes
  <2> HIDE DEF SyncFile
  <2>2. UNCHANGED <<Disk, lock, pc, mem, crashes>>
    BY DEF SyncFile
  <2>. QED BY <1>1, <1>4, <2>1, <2>2 DEF LaunchTypes
<1>7. UNCHANGED <<Disk, lock, pc, mem, crashes>> /\ write[p] # None
  OBVIOUS
<1> HIDE DEF SyncFile
<1>8. Frame(p)
  BY <1>4, <1>7 DEF Frame
<1>9. OwnOK(p)'
  <2>1. (p \in Running <=> (p \in Running)') /\ Active(p)' = Active(p) /\ Current(p)' = Current(p)
    BY <1>7 DEF Running, Active, Current
  <2>2. write'[p].step # "installed" /\ write'[p] # None
    BY <1>5, WriteFields, LaunchAssumption
  <2>. QED BY <1>1, <1>5, <1>7, <2>1, <2>2 DEF OwnOK
<1>. QED BY <1>6, <1>8, <1>9, OthersKept

\* What is installed was synced, and ui.toml is the running process's.
LEMMA InstallKept ==
  ASSUME LaunchIInv, NEW p \in Procs, InstallFile(p)
  PROVE  LaunchIInv'
<1>1. LaunchTypes /\ OwnOK(p)
  BY OwnParts
<1>2. /\ write[p] # None /\ write[p].step = "synced" /\ write[p] \in Writes(write[p].file)
      /\ UNCHANGED <<toml, synced, tokens, lock, pc, mem, crashes>>
  BY <1>1 DEF InstallFile, LaunchTypes
<1>3. /\ ((write[p].file = "config" /\ write[p].data \in Scripts) \/ (write[p].file = "ui" /\ write[p].data \in Registries))
      /\ write[p].whole = TRUE
  BY <1>2, WriteFields
<1>4. CASE write[p].file = "config" /\ files.config # None
  <2>1. write' = [write EXCEPT ![p] = None] /\ UNCHANGED files
    BY <1>4 DEF InstallFile
  <2>2. /\ write' = [q \in Procs |-> write'[q]] /\ \A q \in Procs \ {p} : write'[q] = write[q]
        /\ write'[p] = None
    BY <1>1, <2>1 DEF LaunchTypes
  <2>3. LaunchTypes'
    BY <1>1, <1>2, <2>1, <2>2 DEF LaunchTypes
  <2>4. Frame(p)
    BY <1>2, <2>1, <2>2 DEF Frame
  <2>5. OwnOK(p)'
    BY <1>1, <1>2, <1>4, <2>1, <2>2 DEF OwnOK, Running, Active, Current
  <2>. QED BY <2>3, <2>4, <2>5, OthersKept
<1>5. CASE ~(write[p].file = "config" /\ files.config # None)
  <2>1. files' = [files EXCEPT ![write[p].file] = [data |-> write[p].data, whole |-> write[p].whole]]
    BY <1>5 DEF InstallFile
  <2>2. write' = [write EXCEPT ![p] = At(write[p], "installed")]
    BY <1>3, <1>5 DEF InstallFile, At
  <2>3. write' = [q \in Procs |-> write'[q]] /\ \A q \in Procs \ {p} : write'[q] = write[q]
    BY <1>1, <2>2 DEF LaunchTypes
  <2>4. /\ write'[p] \in Writes(write'[p].file)
        /\ write'[p].file = write[p].file /\ write'[p].data = write[p].data /\ write'[p].step = "installed"
    <3>1. write'[p] = At(write[p], "installed")
      BY <1>1, <2>2 DEF LaunchTypes
    <3>. QED BY <1>2, <3>1, AtTyped
  <2>5. /\ files' \in Stored
        /\ write[p].file = "config" => files'.ui = files.ui
        /\ write[p].file = "ui" => files'.ui = [data |-> write[p].data, whole |-> TRUE]
    <3>1. files' = [files EXCEPT ![write[p].file] = [data |-> write[p].data, whole |-> TRUE]]
      BY <1>3, <2>1
    <3>2. files \in Stored
      BY <1>1 DEF LaunchTypes
    <3>3. CASE write[p].file = "config"
      BY <1>3, <3>1, <3>2, <3>3 DEF Stored
    <3>4. CASE write[p].file = "ui"
      BY <1>3, <3>1, <3>2, <3>4 DEF Stored
    <3>. QED BY <1>3, <3>3, <3>4
  <2>6. LaunchTypes'
    <3>1. \A q \in Procs : write'[q] # None => write'[q] \in Writes(write'[q].file)
      BY <1>1, <2>3, <2>4 DEF LaunchTypes
    <3>. QED BY <1>1, <1>2, <2>3, <2>5, <3>1 DEF LaunchTypes
  <2>7. Frame(p)
    BY <1>1, <1>2, <1>3, <2>3, <2>5 DEF Frame, OwnOK
  <2>8. OwnOK(p)'
    <3>1. (p \in Running <=> (p \in Running)') /\ Active(p)' = Active(p) /\ Current(p)' = Current(p)
      BY <1>2 DEF Running, Active, Current
    <3>2. write'[p] # None
      BY <2>4, WriteFields, LaunchAssumption
    <3>. QED BY <1>1, <1>2, <2>4, <2>5, <3>1, <3>2 DEF OwnOK
  <2>. QED BY <2>6, <2>7, <2>8, OthersKept
<1>. QED BY <1>4, <1>5

\* The directory is synced while the file still is what was installed.
LEMMA SyncDirKept ==
  ASSUME LaunchIInv, NEW p \in Procs, SyncDir(p)
  PROVE  LaunchIInv'
<1>1. LaunchTypes /\ OwnOK(p)
  BY OwnParts
<1>2. /\ write[p] # None /\ write[p].step = "installed" /\ write[p] \in Writes(write[p].file)
      /\ UNCHANGED <<toml, files, tokens, lock, pc, crashes>>
  BY <1>1 DEF SyncDir, LaunchTypes
<1>3. write[p].file \in {"config", "ui"}
  BY <1>2, WriteFields
<1>4. /\ write' = [q \in Procs |-> write'[q]] /\ \A q \in Procs \ {p} : write'[q] = write[q]
      /\ write'[p] = None
  BY <1>1 DEF SyncDir, LaunchTypes
<1> DEFINE ui == write[p].file = "ui"
<1>5. /\ mem' \in [Procs -> Memory] /\ \A q \in Procs \ {p} : mem'[q] = mem[q]
      /\ mem'[p] = [mem[p] EXCEPT !.saved = ui]
  <2>1. mem' = [mem EXCEPT ![p].saved = ui] /\ ui \in BOOLEAN
    BY DEF SyncDir
  <2> HIDE DEF ui
  <2>2. mem[p] \in Memory
    BY <1>1 DEF LaunchTypes
  <2>3. [mem[p] EXCEPT !.saved = ui] \in Memory
    BY <2>1, <2>2 DEF Memory
  <2>. QED BY <1>1, <2>1, <2>3 DEF LaunchTypes
<1>6. /\ synced' \in Stored
      /\ ui => synced'.ui = files.ui
      /\ ~ui => synced'.ui = synced.ui
  <2>1. synced' = [synced EXCEPT ![write[p].file] = files[write[p].file]] /\ files \in Stored /\ synced \in Stored
    BY <1>1 DEF SyncDir, LaunchTypes
  <2>2. CASE write[p].file = "config"
    BY <2>1, <2>2 DEF Stored
  <2>3. CASE write[p].file = "ui"
    BY <2>1, <2>3 DEF Stored
  <2>. QED BY <1>3, <2>2, <2>3
<1>7. LaunchTypes'
  BY <1>1, <1>2, <1>4, <1>5, <1>6 DEF LaunchTypes
<1>8. Frame(p)
  BY <1>1, <1>2, <1>4, <1>5, <1>6 DEF Frame, OwnOK
<1>9. /\ mem'[p].active = mem[p].active /\ mem'[p].list = mem[p].list /\ mem'[p].learned = mem[p].learned
      /\ mem'[p].built = mem[p].built /\ mem'[p].sink = mem[p].sink
  BY <1>1, <1>5 DEF LaunchTypes, Memory
<1>10. OwnOK(p)'
  BY <1>1, <1>2, <1>4, <1>6, <1>9 DEF OwnOK, Running, Active, Current
<1>. QED BY <1>7, <1>8, <1>10, OthersKept

-----------------------------------------------------------------------------
(* Leaving.                                                                *)

LEMMA ExitKept ==
  ASSUME LaunchIInv, NEW p \in Procs, Exit(p), UNCHANGED Disk, crashes' \in Nat
  PROVE  LaunchIInv'
<1> USE LaunchAssumption DEF Exit, Go, Disk
<1>1. LaunchTypes /\ OwnOK(p)
  BY OwnParts
<1>2. Fresh \in Memory
  <2>1. <<>> \in Seq(Keys)
    OBVIOUS
  <2>. QED BY <2>1 DEF Fresh, Memory
<1>3. /\ write' = [q \in Procs |-> write'[q]] /\ \A q \in Procs \ {p} : write'[q] = write[q]
      /\ write'[p] = None
  BY <1>1 DEF LaunchTypes
<1>4. mem' \in [Procs -> Memory] /\ \A q \in Procs \ {p} : mem'[q] = mem[q]
  BY <1>1, <1>2 DEF LaunchTypes
<1>5. pc' \in [Procs -> Places] /\ pc'[p] = "off" /\ \A q \in Procs \ {p} : pc'[q] = pc[q]
  BY <1>1 DEF LaunchTypes, Places
<1>6. LaunchTypes'
  BY <1>1, <1>3, <1>4, <1>5 DEF LaunchTypes
<1>7. Frame(p)
  BY <1>3, <1>4, <1>5 DEF Frame
<1>8. OwnOK(p)'
  BY <1>3, <1>5 DEF OwnOK, Running
<1>. QED BY <1>6, <1>7, <1>8, OthersKept

LEMMA WriteFailsKept ==
  ASSUME LaunchIInv, NEW p \in Procs, WriteFails(p)
  PROVE  LaunchIInv'
<1>1. LaunchTypes /\ OwnOK(p)
  BY OwnParts
<1>2. CASE pc[p] # "run"
  BY <1>1, <1>2, ExitKept DEF WriteFails, LaunchTypes
<1>3. CASE pc[p] = "run"
  <2> USE <1>3 DEF WriteFails, Disk
  <2>1. /\ write' = [q \in Procs |-> write'[q]] /\ \A q \in Procs \ {p} : write'[q] = write[q]
        /\ write'[p] = None
    BY <1>1 DEF LaunchTypes
  <2>2. /\ mem' \in [Procs -> Memory] /\ \A q \in Procs \ {p} : mem'[q] = mem[q]
        /\ mem'[p] = [mem[p] EXCEPT !.saved = FALSE]
    <3>1. mem[p] \in Memory
      BY <1>1 DEF LaunchTypes
    <3>2. [mem[p] EXCEPT !.saved = FALSE] \in Memory
      BY <3>1 DEF Memory
    <3>. QED BY <1>1, <3>2 DEF LaunchTypes
  <2>3. LaunchTypes'
    BY <1>1, <2>1, <2>2 DEF LaunchTypes
  <2>4. Frame(p)
    BY <2>1, <2>2 DEF Frame
  <2>5. /\ mem'[p].active = mem[p].active /\ mem'[p].list = mem[p].list /\ mem'[p].learned = mem[p].learned
        /\ mem'[p].built = mem[p].built /\ mem'[p].sink = mem[p].sink /\ mem'[p].saved = FALSE
    BY <1>1, <2>2 DEF LaunchTypes, Memory
  <2>6. OwnOK(p)'
    BY <1>1, <2>1, <2>5 DEF OwnOK, Running, Active, Current
  <2>. QED BY <2>3, <2>4, <2>6, OthersKept
<1>. QED BY <1>2, <1>3

-----------------------------------------------------------------------------
(* Starting.                                                               *)

LEMMA RegistryTyped ==
  ASSUME NEW list \in Seq(Keys), NEW i \in 1..Len(list), NEW learned \in SUBSET Keys
  PROVE  Registry(list, i, learned) \in Registries
BY DEF Registry, Registries

LEMMA BeginTyped ==
  ASSUME LaunchTypes, NEW p \in Procs, NEW file \in {"config", "ui"}, NEW data, Begin(p, file, data),
         data \in IF file = "config" THEN Scripts ELSE Registries
  PROVE  /\ write' = [q \in Procs |-> write'[q]] /\ \A q \in Procs \ {p} : write'[q] = write[q]
         /\ write'[p].file = file /\ write'[p].data = data /\ write'[p].step = "temp" /\ write'[p] # None
         /\ \A q \in Procs : write'[q] # None => write'[q] \in Writes(write'[q].file)
<1>1. write' = [q \in Procs |-> write'[q]] /\ \A q \in Procs \ {p} : write'[q] = write[q]
  BY DEF Begin, LaunchTypes
<1>2. write'[p] = Writing(file, data, "temp", FALSE)
  BY DEF Begin, LaunchTypes
<1>3. write'[p].file = file /\ write'[p].data = data /\ write'[p].step = "temp"
  BY <1>2 DEF Writing
<1>4. write'[p] \in Writes(write'[p].file)
  <2>1. CASE file = "config"
    <3>1. write'[p] \in WritesOf("config", Scripts)
      BY <1>2, <2>1 DEF Writing, WritesOf
    <3>. QED BY <1>3, <2>1, <3>1 DEF Writes
  <2>2. CASE file = "ui"
    <3>1. write'[p] \in WritesOf("ui", Registries)
      BY <1>2, <2>2 DEF Writing, WritesOf
    <3>. QED BY <1>3, <2>2, <3>1 DEF Writes
  <2>. QED BY <2>1, <2>2
<1>5. write'[p] # None
  BY <1>4, WriteFields, LaunchAssumption
<1>6. \A q \in Procs : write'[q] # None => write'[q] \in Writes(write'[q].file)
  BY <1>1, <1>4 DEF LaunchTypes
<1>. QED BY <1>1, <1>3, <1>5, <1>6

LEMMA GoTyped ==
  ASSUME LaunchTypes, NEW p \in Procs, NEW place \in Places, Go(p, place)
  PROVE  pc' \in [Procs -> Places] /\ pc'[p] = place /\ \A q \in Procs \ {p} : pc'[q] = pc[q]
BY DEF LaunchTypes, Go

LEMMA LaunchOfKept ==
  ASSUME LaunchIInv, NEW p \in Procs, LaunchOf(p)
  PROVE  LaunchIInv'
<1>1. LaunchTypes /\ OwnOK(p)
  BY OwnParts
<1>2. pc[p] = "off" /\ Go(p, "config") /\ UNCHANGED <<Disk, lock, mem, write, crashes>>
  BY DEF LaunchOf
<1>3. pc' \in [Procs -> Places] /\ pc'[p] = "config" /\ \A q \in Procs \ {p} : pc'[q] = pc[q]
  BY <1>1, <1>2, GoTyped DEF Places
<1>4. LaunchTypes'
  BY <1>1, <1>2, <1>3 DEF LaunchTypes, Disk
<1>5. Frame(p)
  BY <1>2, <1>3 DEF Frame, Disk
<1>6. OwnOK(p)'
  BY <1>1, <1>2, <1>3 DEF OwnOK, Running
<1>. QED BY <1>4, <1>5, <1>6, OthersKept

LEMMA LoadStartupKept ==
  ASSUME LaunchIInv, NEW p \in Procs, LoadStartup(p)
  PROVE  LaunchIInv'
<1>1. LaunchTypes /\ OwnOK(p)
  BY OwnParts
<1>2. pc[p] = "config" /\ write[p] = None /\ Go(p, "lock") /\ UNCHANGED <<Disk, lock, crashes>>
  BY DEF LoadStartup, Ready
<1>3. pc' \in [Procs -> Places] /\ pc'[p] = "lock" /\ \A q \in Procs \ {p} : pc'[q] = pc[q]
  BY <1>1, <1>2, GoTyped DEF Places
<1>4. mem' \in [Procs -> Memory] /\ \A q \in Procs \ {p} : mem'[q] = mem[q]
  <2>1. mem[p] \in Memory /\ toml \in {None} \cup Registries
    BY <1>1 DEF LaunchTypes
  <2>2. [mem[p] EXCEPT !.exec = TRUE] \in Memory /\ [mem[p] EXCEPT !.accounts = toml] \in Memory
    BY <2>1 DEF Memory
  <2>3. mem' = [mem EXCEPT ![p] = [mem[p] EXCEPT !.exec = TRUE]] \/ mem' = [mem EXCEPT ![p] = [mem[p] EXCEPT !.accounts = toml]]
    BY DEF LoadStartup
  <2>. QED BY <1>1, <2>2, <2>3 DEF LaunchTypes
<1>5. /\ write' = [q \in Procs |-> write'[q]] /\ \A q \in Procs \ {p} : write'[q] = write[q]
      /\ write'[p] # None => write'[p].file = "config"
      /\ \A q \in Procs : write'[q] # None => write'[q] \in Writes(write'[q].file)
  <2>1. CASE UNCHANGED write
    BY <1>1, <1>2, <2>1 DEF LaunchTypes
  <2>2. ASSUME NEW data \in {"migrated", "template"}, Begin(p, "config", data)
        PROVE  <1>5!:
    <3>1. data \in IF "config" = "config" THEN Scripts ELSE Registries
      BY DEF Scripts
    <3>. QED BY <1>1, <2>2, <3>1, BeginTyped
  <2>. QED BY <2>1, <2>2 DEF LoadStartup
<1>6. LaunchTypes'
  BY <1>1, <1>2, <1>3, <1>4, <1>5 DEF LaunchTypes, Disk
<1>7. Frame(p)
  BY <1>2, <1>3, <1>4, <1>5 DEF Frame, Disk
<1>8. OwnOK(p)'
  BY <1>1, <1>2, <1>3, <1>5 DEF OwnOK, Running
<1>. QED BY <1>6, <1>7, <1>8, OthersKept

\* The lock is taken when it is free, and then no other process is past it.
LEMMA LockKept ==
  ASSUME LaunchIInv, NEW p \in Procs, acquireInstanceLock(p)
  PROVE  LaunchIInv'
<1>1. LaunchTypes /\ OwnOK(p) /\ pc[p] = "lock" /\ write[p] = None /\ UNCHANGED <<Disk, crashes>>
  BY OwnParts DEF acquireInstanceLock, Ready
<1>2. CASE lock # None
  BY <1>1, <1>2, ExitKept DEF acquireInstanceLock, LaunchTypes
<1>3. CASE lock = None
  <2>1. lock' = p /\ Go(p, "lua") /\ UNCHANGED <<mem, write>>
    BY <1>3 DEF acquireInstanceLock
  <2>2. pc' \in [Procs -> Places] /\ pc'[p] = "lua" /\ \A q \in Procs \ {p} : pc'[q] = pc[q]
    BY <1>1, <2>1, GoTyped DEF Places
  <2>3. LaunchTypes'
    BY <1>1, <2>1, <2>2 DEF LaunchTypes, Disk
  <2>4. Frame(p)
    BY <1>1, <1>3, <2>1, <2>2 DEF Frame, Disk
  <2>5. OwnOK(p)'
    BY <1>1, <2>1, <2>2 DEF OwnOK, Running
  <2>. QED BY <2>3, <2>4, <2>5, OthersKept
<1>. QED BY <1>2, <1>3

LEMMA LoadConfigKept ==
  ASSUME LaunchIInv, NEW p \in Procs, LoadConfig(p)
  PROVE  LaunchIInv'
<1>1. LaunchTypes /\ OwnOK(p) /\ pc[p] = "lua" /\ write[p] = None /\ UNCHANGED <<Disk, crashes>>
  BY OwnParts DEF LoadConfig, Ready
<1>2. CASE Exit(p)
  BY <1>1, <1>2, ExitKept DEF LaunchTypes
<1>3. CASE Go(p, "state") /\ UNCHANGED <<lock, mem, write>>
  <2>1. pc' \in [Procs -> Places] /\ pc'[p] = "state" /\ \A q \in Procs \ {p} : pc'[q] = pc[q]
    BY <1>1, <1>3, GoTyped DEF Places
  <2>2. LaunchTypes'
    BY <1>1, <1>3, <2>1 DEF LaunchTypes, Disk
  <2>3. Frame(p)
    BY <1>1, <1>3, <2>1 DEF Frame, Disk
  <2>4. OwnOK(p)'
    BY <1>1, <1>3, <2>1 DEF OwnOK, Running
  <2>. QED BY <2>2, <2>3, <2>4, OthersKept
<1>. QED BY <1>2, <1>3 DEF LoadConfig

\* What is read was written whole, so it is a registry.
LEMMA LoadStateKept ==
  ASSUME LaunchIInv, NEW p \in Procs, LoadState(p)
  PROVE  LaunchIInv'
<1> DEFINE saved == IF files.ui = None THEN None ELSE files.ui.data
           seeds == saved = None /\ mem[p].accounts # None
           state == IF seeds THEN mem[p].accounts ELSE saved
<1>1. LaunchTypes /\ OwnOK(p) /\ pc[p] = "state" /\ write[p] = None /\ UNCHANGED <<Disk, lock, crashes>>
      /\ Go(p, "token") /\ mem' = [mem EXCEPT ![p] = [mem[p] EXCEPT !.state = state]]
      /\ IF seeds THEN Begin(p, "ui", mem[p].accounts) ELSE UNCHANGED write
  BY OwnParts DEF LoadState, Ready
<1>2. mem[p] \in Memory /\ mem[p].accounts \in {None} \cup Registries /\ state \in {None} \cup Registries
  <2>1. mem[p] \in Memory /\ files \in Stored
    BY <1>1 DEF LaunchTypes
  <2>2. mem[p].accounts \in {None} \cup Registries
    BY <2>1 DEF Memory
  <2>3. saved \in {None} \cup Registries
    BY <2>1 DEF Stored
  <2>. QED BY <2>1, <2>2, <2>3
<1>3. pc' \in [Procs -> Places] /\ pc'[p] = "token" /\ \A q \in Procs \ {p} : pc'[q] = pc[q]
  BY <1>1, GoTyped DEF Places
<1>4. mem' \in [Procs -> Memory] /\ \A q \in Procs \ {p} : mem'[q] = mem[q]
  <2> HIDE DEF state, seeds, saved
  <2>1. [mem[p] EXCEPT !.state = state] \in Memory
    BY <1>2 DEF Memory
  <2>. QED BY <1>1, <2>1 DEF LaunchTypes
<1>5. /\ write' = [q \in Procs |-> write'[q]] /\ \A q \in Procs \ {p} : write'[q] = write[q]
      /\ \A q \in Procs : write'[q] # None => write'[q] \in Writes(write'[q].file)
  <2> HIDE DEF state, saved
  <2>1. CASE UNCHANGED write
    BY <1>1, <2>1 DEF LaunchTypes
  <2>2. CASE Begin(p, "ui", mem[p].accounts) /\ mem[p].accounts # None
    <3>1. mem[p].accounts \in IF "ui" = "config" THEN Scripts ELSE Registries
      BY <1>2, <2>2
    <3>. QED BY <1>1, <2>2, <3>1, BeginTyped
  <2>. QED BY <1>1, <2>1, <2>2
<1>6. LaunchTypes'
  BY <1>1, <1>3, <1>4, <1>5 DEF LaunchTypes, Disk
<1>7. Frame(p)
  BY <1>1, <1>3, <1>4, <1>5 DEF Frame, Disk
<1>8. OwnOK(p)'
  BY <1>1, <1>3 DEF OwnOK, Running
<1>. QED BY <1>6, <1>7, <1>8, OthersKept

\* The active account is found again, by its key, in the list without duplicates.
LEMMA ResolveKept ==
  ASSUME LaunchIInv, NEW p \in Procs, ResolveToken(p)
  PROVE  LaunchIInv'
<1> DEFINE saved == IF mem[p].state = None THEN Registry(<<LegacyKey>>, 1, {}) ELSE mem[p].state
           key == saved.list[saved.active]
           list == Deduplicated(saved.list)
           row == CHOOSE i \in 1..Len(list) : list[i] = key
<1>1. LaunchTypes /\ OwnOK(p) /\ pc[p] = "token" /\ write[p] = None /\ UNCHANGED <<toml, files, synced, crashes>>
  BY OwnParts DEF ResolveToken, Ready
<1>2. \/ Exit(p) /\ UNCHANGED tokens
      \/ /\ tokens' = tokens \cup {key} /\ Go(p, "start") /\ UNCHANGED <<lock, write>>
         /\ mem' = [mem EXCEPT ![p].list = list, ![p].active = row, ![p].learned = saved.learned, ![p].built = {key}]
  BY DEF ResolveToken
<1>3. saved \in Registries
  <2>1. mem[p].state \in {None} \cup Registries
    BY <1>1 DEF LaunchTypes, Memory
  <2>2. <<LegacyKey>> \in Seq(Keys) /\ Len(<<LegacyKey>>) = 1
    BY LaunchAssumption
  <2>3. Registry(<<LegacyKey>>, 1, {}) \in Registries
    <3> DEFINE legacy == <<LegacyKey>>
    <3>1. legacy \in Seq(Keys) /\ 1 \in 1..Len(legacy) /\ {} \in SUBSET Keys
      BY <2>2
    <3> HIDE DEF legacy
    <3>2. Registry(legacy, 1, {}) \in Registries
      BY <3>1, RegistryTyped
    <3>. QED BY <3>2 DEF legacy
  <2>. QED BY <2>1, <2>3
<1> HIDE DEF saved
<1>4. saved.list \in Seq(Keys) /\ saved.active \in 1..Len(saved.list) /\ key \in Keys /\ saved.learned \in SUBSET Keys
  BY <1>3 DEF Registries
<1>5. list \in Seq(Keys) /\ \E i \in 1..Len(list) : list[i] = key
  BY <1>4, DedupKept
<1> HIDE DEF list, key
<1>6. row \in 1..Len(list) /\ list[row] = key /\ row \in Nat
  BY <1>5
<1> HIDE DEF row
<1>7. CASE Exit(p) /\ UNCHANGED tokens
  BY <1>1, <1>7, ExitKept DEF Disk, LaunchTypes
<1>8. CASE /\ tokens' = tokens \cup {key} /\ Go(p, "start") /\ UNCHANGED <<lock, write>>
           /\ mem' = [mem EXCEPT ![p].list = list, ![p].active = row, ![p].learned = saved.learned, ![p].built = {key}]
  <2>1. pc' \in [Procs -> Places] /\ pc'[p] = "start" /\ \A q \in Procs \ {p} : pc'[q] = pc[q]
    BY <1>1, <1>8, GoTyped DEF Places
  <2> DEFINE next == [mem[p] EXCEPT !.list = list, !.active = row, !.learned = saved.learned, !.built = {key}]
  <2>2. mem[p] \in Memory
    BY <1>1 DEF LaunchTypes
  <2>3. next \in Memory /\ next.list = list /\ next.active = row /\ next.built = {key}
    BY <1>4, <1>5, <1>6, <2>2 DEF Memory
  <2>4. mem' = [mem EXCEPT ![p] = next]
    BY <1>8
  <2> HIDE DEF next
  <2>5. mem' \in [Procs -> Memory] /\ mem'[p] = next /\ \A q \in Procs \ {p} : mem'[q] = mem[q]
    BY <1>1, <2>3, <2>4 DEF LaunchTypes
  <2>6. LaunchTypes'
    BY <1>1, <1>4, <1>8, <2>1, <2>5 DEF LaunchTypes
  <2>7. Frame(p)
    BY <1>1, <1>8, <2>1, <2>5 DEF Frame
  <2>8. OwnOK(p)'
    BY <1>1, <1>6, <1>8, <2>1, <2>3, <2>5 DEF OwnOK, Running, Active
  <2>. QED BY <2>6, <2>7, <2>8, OthersKept
<1>. QED BY <1>2, <1>7, <1>8

-----------------------------------------------------------------------------
(* The session.                                                            *)

\* A switch to row i: the registry that is written is the new one, and the events
\* are the new account's; or nothing of this changes.
LEMMA SwitchKept ==
  ASSUME LaunchIInv, NEW p \in Procs, pc[p] \in {"start", "run"}, write[p] = None,
         NEW i \in 1..Len(mem[p].list), Switch(p, i),
         pc' \in [Procs -> Places], pc'[p] = "run", \A q \in Procs \ {p} : pc'[q] = pc[q],
         UNCHANGED <<Disk, lock, crashes>>,
         pc[p] = "start" => i = mem[p].active
  PROVE  LaunchIInv'
<1> DEFINE k == mem[p].list[i]
           held == k \in mem[p].built \cup tokens
           connects == Connected(mem[p].connects, k)
           next == [mem[p] EXCEPT !.active = i, !.built = mem[p].built \cup {k}, !.sink = {k},
                                  !.connects = connects, !.steps = mem[p].steps + 1]
           failed == [mem[p] EXCEPT !.steps = mem[p].steps + 1]
<1>1. LaunchTypes /\ OwnOK(p)
  BY OwnParts
<1>2. mem[p] \in Memory /\ i \in Nat /\ k \in Keys /\ mem[p].list \in Seq(Keys)
      /\ mem[p].learned \in SUBSET Keys /\ mem[p].connects \in [Keys -> {0, 1}]
  BY <1>1 DEF LaunchTypes, Memory
<1>3. CASE held
  <2>1. mem' = [mem EXCEPT ![p] = next] /\ Begin(p, "ui", Registry(mem[p].list, i, mem[p].learned))
    BY <1>3 DEF Switch, bindEventSink
  <2>2. connects \in [Keys -> {0, 1}]
    BY <1>2 DEF Connected
  <2> HIDE DEF connects, held, k
  <2>3. /\ next \in Memory /\ next.list = mem[p].list /\ next.active = i /\ next.learned = mem[p].learned
        /\ next.sink = {k}
    <3> DEFINE m == mem[p]
               built == m.built \cup {k}
               steps == m.steps + 1
               sink == {k}
    <3>1. m \in Memory /\ built \in SUBSET Keys /\ sink \in SUBSET Keys /\ steps \in Nat
      BY <1>2 DEF Memory
    <3>2. next = [m EXCEPT !.active = i, !.built = built, !.sink = sink, !.connects = connects, !.steps = steps]
      BY DEF next
    <3> HIDE DEF m, built, steps, sink, next
    <3>3. /\ next \in Memory /\ next.list = m.list /\ next.active = i /\ next.learned = m.learned
          /\ next.sink = sink
      BY <1>2, <2>2, <3>1, <3>2 DEF Memory
    <3>. QED BY <3>3 DEF m, sink
  <2> HIDE DEF next
  <2>4. mem' \in [Procs -> Memory] /\ mem'[p] = next /\ \A q \in Procs \ {p} : mem'[q] = mem[q]
    BY <1>1, <2>1, <2>3 DEF LaunchTypes
  <2>5. Registry(mem[p].list, i, mem[p].learned) \in IF "ui" = "config" THEN Scripts ELSE Registries
    BY <1>2, RegistryTyped
  <2>6. /\ write' = [q \in Procs |-> write'[q]] /\ \A q \in Procs \ {p} : write'[q] = write[q]
        /\ write'[p].file = "ui" /\ write'[p].data = Registry(mem[p].list, i, mem[p].learned)
        /\ write'[p].step = "temp" /\ write'[p] # None
        /\ \A q \in Procs : write'[q] # None => write'[q] \in Writes(write'[q].file)
    BY <1>1, <2>1, <2>5, BeginTyped
  <2>7. LaunchTypes'
    BY <1>1, <2>4, <2>6 DEF LaunchTypes, Disk
  <2>8. Frame(p)
    BY <2>4, <2>6 DEF Frame, Disk
  <2>9. OwnOK(p)'
    <3>1. Active(p)' = k
      BY <2>3, <2>4 DEF Active, k
    <3>2. Current(p)' = Registry(mem[p].list, i, mem[p].learned)
      BY <2>3, <2>4 DEF Current
    <3>3. (p \in Running)' /\ p \in Running
      BY DEF Running
    <3>. QED BY <1>1, <2>3, <2>4, <2>6, <3>1, <3>2, <3>3 DEF OwnOK
  <2>. QED BY <2>7, <2>8, <2>9, OthersKept
<1>4. CASE ~held
  <2>1. pc[p] = "run"
    BY <1>1, <1>4 DEF OwnOK, Active
  <2>2. mem' = [mem EXCEPT ![p] = failed] /\ UNCHANGED write
    BY <1>4 DEF Switch
  <2> HIDE DEF held, k, connects, next
  <2>3. /\ failed \in Memory /\ failed.list = mem[p].list /\ failed.active = mem[p].active
        /\ failed.learned = mem[p].learned /\ failed.sink = mem[p].sink /\ failed.saved = mem[p].saved
    BY <1>2 DEF Memory
  <2> HIDE DEF failed
  <2>4. mem' \in [Procs -> Memory] /\ mem'[p] = failed /\ \A q \in Procs \ {p} : mem'[q] = mem[q]
    BY <1>1, <2>2, <2>3 DEF LaunchTypes
  <2>5. LaunchTypes'
    BY <1>1, <2>2, <2>4 DEF LaunchTypes, Disk
  <2>6. Frame(p)
    BY <2>2, <2>4 DEF Frame, Disk
  <2>7. OwnOK(p)'
    <3>1. Active(p)' = Active(p) /\ Current(p)' = Current(p)
      BY <2>3, <2>4 DEF Active, Current
    <3>2. (p \in Running)' /\ p \in Running
      BY DEF Running
    <3>. QED BY <1>1, <2>1, <2>2, <2>3, <2>4, <3>1, <3>2 DEF OwnOK, Disk
  <2>. QED BY <2>5, <2>6, <2>7, OthersKept
<1>. QED BY <1>3, <1>4

LEMMA StartKept ==
  ASSUME LaunchIInv, NEW p \in Procs, Start(p)
  PROVE  LaunchIInv'
<1>1. LaunchTypes /\ OwnOK(p)
  BY OwnParts
<1>2. pc[p] = "start" /\ write[p] = None /\ Go(p, "run") /\ UNCHANGED <<Disk, lock, crashes>>
      /\ Switch(p, mem[p].active) /\ mem[p].active \in 1..Len(mem[p].list)
  BY <1>1 DEF Start, Ready, OwnOK
<1>3. pc' \in [Procs -> Places] /\ pc'[p] = "run" /\ \A q \in Procs \ {p} : pc'[q] = pc[q]
  BY <1>1, <1>2, GoTyped DEF Places
<1>. QED BY <1>2, <1>3, SwitchKept

LEMMA SelectKept ==
  ASSUME LaunchIInv, NEW p \in Procs, Select(p)
  PROVE  LaunchIInv'
<1>1. LaunchTypes
  BY OwnParts
<1>2. pc[p] = "run" /\ write[p] = None /\ UNCHANGED <<Disk, lock, pc, crashes>>
  BY DEF Select, Ready
<1>3. PICK i \in 1..Len(mem[p].list) : Switch(p, i)
  BY DEF Select
<1>4. pc' \in [Procs -> Places] /\ pc'[p] = "run" /\ \A q \in Procs \ {p} : pc'[q] = pc[q]
  BY <1>1, <1>2 DEF LaunchTypes
<1>. QED BY <1>2, <1>3, <1>4, SwitchKept

LEMMA hydrateKept ==
  ASSUME LaunchIInv, NEW p \in Procs, NEW k \in Keys, hydrate(p, k)
  PROVE  LaunchIInv'
<1> DEFINE next == [mem[p] EXCEPT !.learned = mem[p].learned \cup {k}, !.steps = mem[p].steps + 1]
           registry == Registry(mem[p].list, mem[p].active, mem[p].learned \cup {k})
<1>1. LaunchTypes /\ OwnOK(p) /\ pc[p] = "run" /\ write[p] = None /\ UNCHANGED <<Disk, lock, pc, crashes>>
      /\ mem' = [mem EXCEPT ![p] = next] /\ Begin(p, "ui", registry)
  BY OwnParts DEF hydrate, Ready
<1>2. mem[p] \in Memory /\ mem[p].list \in Seq(Keys) /\ mem[p].learned \cup {k} \in SUBSET Keys
      /\ mem[p].active \in 1..Len(mem[p].list)
  BY <1>1 DEF LaunchTypes, Memory, OwnOK
<1>3. /\ next \in Memory /\ next.list = mem[p].list /\ next.active = mem[p].active
      /\ next.learned = mem[p].learned \cup {k} /\ next.sink = mem[p].sink
  <2> DEFINE m == mem[p]
             learned == m.learned \cup {k}
             steps == m.steps + 1
  <2>1. m \in Memory /\ learned \in SUBSET Keys /\ steps \in Nat
    BY <1>2 DEF Memory
  <2>2. next = [m EXCEPT !.learned = learned, !.steps = steps]
    BY DEF next
  <2> HIDE DEF m, learned, steps, next
  <2>3. /\ next \in Memory /\ next.list = m.list /\ next.active = m.active
        /\ next.learned = learned /\ next.sink = m.sink
    BY <2>1, <2>2 DEF Memory
  <2>. QED BY <2>3 DEF m, learned
<1> HIDE DEF next
<1>4. mem' \in [Procs -> Memory] /\ mem'[p] = next /\ \A q \in Procs \ {p} : mem'[q] = mem[q]
  BY <1>1, <1>3 DEF LaunchTypes
<1>5. registry \in IF "ui" = "config" THEN Scripts ELSE Registries
  BY <1>2, RegistryTyped
<1>6. Active(p)' = Active(p) /\ Current(p)' = registry
  BY <1>3, <1>4 DEF Active, Current
<1> HIDE DEF registry
<1>7. /\ write' = [q \in Procs |-> write'[q]] /\ \A q \in Procs \ {p} : write'[q] = write[q]
      /\ write'[p].file = "ui" /\ write'[p].data = registry /\ write'[p].step = "temp" /\ write'[p] # None
      /\ \A q \in Procs : write'[q] # None => write'[q] \in Writes(write'[q].file)
  BY <1>1, <1>5, BeginTyped
<1>8. LaunchTypes'
  BY <1>1, <1>4, <1>7 DEF LaunchTypes, Disk
<1>9. Frame(p)
  BY <1>1, <1>4, <1>7 DEF Frame, Disk
<1>10. OwnOK(p)'
  <2>1. (p \in Running)' /\ p \in Running
    BY <1>1 DEF Running
  <2>. QED BY <1>1, <1>2, <1>3, <1>4, <1>6, <1>7, <2>1 DEF OwnOK
<1>. QED BY <1>8, <1>9, <1>10, OthersKept

LEMMA ShowErrorKept ==
  ASSUME LaunchIInv, NEW p \in Procs, NEW k \in Keys, ShowError(p, k)
  PROVE  LaunchIInv'
<1>1. LaunchTypes /\ OwnOK(p)
      /\ tokens' = tokens \ {k} /\ UNCHANGED <<toml, files, synced, lock, pc, mem, write, crashes>>
  BY OwnParts DEF ShowError
<1>2. LaunchTypes'
  BY <1>1 DEF LaunchTypes
<1>3. Frame(p)
  BY <1>1 DEF Frame
<1>4. OwnOK(p)'
  BY <1>1 DEF OwnOK, Running, Active, Current
<1>. QED BY <1>2, <1>3, <1>4, OthersKept

-----------------------------------------------------------------------------
(* The user's editor and the machine.                                      *)

LEMMA UserKept ==
  ASSUME LaunchIInv, UserCreatesConfig
  PROVE  LaunchIInv'
<1> DEFINE user == [data |-> "user", whole |-> TRUE]
<1>1. LaunchTypes /\ UNCHANGED <<toml, tokens, lock, pc, mem, write, crashes>>
      /\ files' = [files EXCEPT !.config = user] /\ synced' = [synced EXCEPT !.config = user]
  BY OwnParts DEF UserCreatesConfig
<1>2. user \in [data : Scripts, whole : {TRUE}]
  BY DEF Scripts
<1> HIDE DEF user
<1>3. files' \in Stored /\ synced' \in Stored /\ files'.ui = files.ui /\ synced'.ui = synced.ui
  BY <1>1, <1>2 DEF LaunchTypes, Stored
<1>4. LaunchTypes'
  BY <1>1, <1>3 DEF LaunchTypes
<1>5. ASSUME NEW q \in Procs PROVE OwnOK(q)'
  <2>1. OwnOK(q)
    BY OwnParts
  <2>. QED BY <1>1, <1>3, <2>1 DEF OwnOK, Running, Active, Current
<1>. QED BY <1>4, <1>5 DEF LaunchIInv, OwnOK, Locked, Chosen, Saved, EventsFollow, Running

\* Nothing on disk is torn, so a crash leaves what was there or what was synced.
LEMMA CrashKept ==
  ASSUME LaunchIInv, Crash
  PROVE  LaunchIInv'
<1>1. LaunchTypes
  BY OwnParts
<1>2. \A f \in {"config", "ui"} : AfterCrash(f) = {synced[f], files[f]}
  <2>1. files.config # None => files.config.whole = TRUE
    BY <1>1 DEF LaunchTypes, Stored
  <2>2. files.ui # None => files.ui.whole = TRUE
    BY <1>1 DEF LaunchTypes, Stored
  <2>3. \A f \in {"config", "ui"} : {v \in {files[f]} : v # None /\ ~v.whole} = {}
    BY <2>1, <2>2
  <2>. QED BY <2>3 DEF AfterCrash
<1>3. files' \in Stored /\ synced' \in Stored
  <2>1. PICK c \in AfterCrash("config"), u \in AfterCrash("ui") : files' = [config |-> c, ui |-> u]
    BY DEF Crash
  <2>2. c \in {synced.config, files.config} /\ u \in {synced.ui, files.ui}
    BY <1>2, <2>1
  <2>3. files \in Stored /\ synced \in Stored
    BY <1>1 DEF LaunchTypes
  <2>4. files' \in Stored
    BY <2>1, <2>2, <2>3 DEF Stored
  <2>. QED BY <2>4 DEF Crash
<1>4. Fresh \in Memory
  <2>1. <<>> \in Seq(Keys)
    OBVIOUS
  <2>. QED BY <2>1 DEF Fresh, Memory
<1>5. /\ crashes' = crashes + 1 /\ lock' = None /\ pc' = [q \in Procs |-> "off"] /\ mem' = [q \in Procs |-> Fresh]
      /\ write' = [q \in Procs |-> None] /\ UNCHANGED <<toml, tokens>>
  BY DEF Crash
<1>6. pc' \in [Procs -> Places] /\ mem' \in [Procs -> Memory]
  BY <1>4, <1>5 DEF Places
<1>7. LaunchTypes'
  BY <1>1, <1>3, <1>5, <1>6 DEF LaunchTypes
<1>8. \A q \in Procs : OwnOK(q)'
  BY <1>5 DEF OwnOK, Running
<1>. QED BY <1>7, <1>8 DEF LaunchIInv, OwnOK, Locked, Chosen, Saved, EventsFollow, Running

-----------------------------------------------------------------------------
(* The launch.                                                             *)

LEMMA LaunchStep == LaunchIInv /\ [LaunchNext]_launchVars => LaunchIInv'
<1> SUFFICES ASSUME LaunchIInv, [LaunchNext]_launchVars PROVE LaunchIInv'
  OBVIOUS
<1>1. ASSUME NEW p \in Procs, Boot(p) PROVE LaunchIInv'
  BY <1>1, LaunchOfKept, LoadStartupKept, LockKept, LoadConfigKept, LoadStateKept, ResolveKept, StartKept DEF Boot
<1>2. ASSUME NEW p \in Procs, Quit(p) PROVE LaunchIInv'
  BY <1>2, ExitKept DEF Quit, LaunchIInv, LaunchTypes
<1>3. ASSUME NEW p \in Procs, Session(p) PROVE LaunchIInv'
  BY <1>2, <1>3, SelectKept, hydrateKept, ShowErrorKept DEF Session
<1>4. ASSUME NEW p \in Procs, Write(p) PROVE LaunchIInv'
  BY <1>4, SyncFileKept, InstallKept, SyncDirKept, WriteFailsKept DEF Write
<1>5. ASSUME NEW p \in Procs, Kill(p) PROVE LaunchIInv'
  <2>1. crashes' \in Nat
    BY <1>5 DEF Kill, LaunchIInv, LaunchTypes
  <2>. QED BY <1>5, <2>1, ExitKept DEF Kill
<1>6. CASE UserCreatesConfig
  BY <1>6, UserKept
<1>7. CASE Crash
  BY <1>7, CrashKept
<1>8. CASE UNCHANGED launchVars
  BY <1>8 DEF launchVars, LaunchIInv, LaunchTypes, Locked, Chosen, Saved, EventsFollow, Running, Active, Current
<1>. QED BY <1>1, <1>3, <1>4, <1>5, <1>6, <1>7, <1>8 DEF LaunchNext

\* Who runs holds the lock, nothing on disk is torn, and what a session believes saved
\* is saved: for any processes and accounts, and any number of crashes and switches.
THEOREM LaunchInvariance == LaunchSpec => []LaunchIInv
BY InitLaunch, LaunchStep, PTL DEF LaunchSpec

LEMMA LaunchSafe == LaunchIInv => OneOwner /\ NeverTorn /\ SelectionDurable /\ EventsFollowActive
<1> SUFFICES ASSUME LaunchIInv PROVE OneOwner /\ NeverTorn /\ SelectionDurable /\ EventsFollowActive
  OBVIOUS
<1>1. OneOwner
  <2>1. Running \in SUBSET {lock}
    BY DEF LaunchIInv, Locked, Running
  <2>2. IsFiniteSet({lock}) /\ Cardinality({lock}) = 1
    BY FS_Singleton
  <2>3. Cardinality(Running) <= Cardinality({lock})
    BY <2>1, <2>2, FS_Subset
  <2>. QED BY <2>2, <2>3 DEF OneOwner
<1>2. NeverTorn
  <2>1. files \in Stored
    BY DEF LaunchIInv, LaunchTypes
  <2>2. files.config # None => files.config.data # None
    BY <2>1, LaunchAssumption DEF Stored
  <2>3. files.ui # None => files.ui.data # None
    BY <2>1, LaunchAssumption DEF Stored
  <2>. QED BY <2>2, <2>3 DEF NeverTorn
<1>3. SelectionDurable
  <2> SUFFICES ASSUME NEW p \in Procs, Ready(p, "run") /\ mem[p].saved
               PROVE  synced.ui # None /\ synced.ui.data = Registry(mem[p].list, mem[p].active, mem[p].learned)
    BY DEF SelectionDurable
  <2>1. OwnOK(p) /\ LaunchTypes /\ pc[p] = "run" /\ write[p] = None
    BY OwnParts DEF Ready
  <2>2. synced.ui = [data |-> Current(p), whole |-> TRUE]
    BY <2>1 DEF OwnOK
  <2>3. Current(p) \in Registries
    <3>1. mem[p].list \in Seq(Keys) /\ mem[p].learned \in SUBSET Keys /\ mem[p].active \in 1..Len(mem[p].list)
      BY <2>1 DEF LaunchTypes, Memory, OwnOK
    <3>. QED BY <3>1, RegistryTyped DEF Current
  <2>4. synced.ui \in File
    BY <2>2, <2>3 DEF File
  <2>5. synced.ui # None
    BY <2>4, LaunchAssumption
  <2>6. synced.ui.data = Current(p)
    BY <2>2
  <2>. QED BY <2>5, <2>6 DEF Current
<1>4. EventsFollowActive
  <2> SUFFICES ASSUME NEW p \in Procs, pc[p] = "run"
               PROVE  mem[p].sink \subseteq {Active(p)} /\ \A k \in Keys : mem[p].connects[k] <= 1
    BY DEF EventsFollowActive
  <2>1. mem[p].connects \in [Keys -> {0, 1}]
    BY DEF LaunchIInv, LaunchTypes, Memory
  <2>2. \A k \in Keys : mem[p].connects[k] <= 1
    BY <2>1
  <2>. QED BY <2>2 DEF LaunchIInv, EventsFollow
<1>. QED BY <1>1, <1>2, <1>3, <1>4

\* Only a machine that crashes takes a config.lua away: a writer links, and loses.
LEMMA ConfigKept ==
  LaunchIInv /\ [LaunchNext]_launchVars
    => [files.config # None /\ crashes' = crashes => files'.config = files.config]_launchVars
<1> SUFFICES ASSUME LaunchIInv, LaunchNext, files.config # None, crashes' = crashes
             PROVE  files'.config = files.config
  BY DEF launchVars
<1>1. LaunchTypes
  BY DEF LaunchIInv
<1>2. ASSUME NEW p \in Procs, InstallFile(p) PROVE files'.config = files.config
  <2>1. CASE write[p].file = "config"
    BY <1>2, <2>1 DEF InstallFile
  <2>2. CASE write[p].file # "config"
    <3>1. files' = [files EXCEPT ![write[p].file] = [data |-> write[p].data, whole |-> write[p].whole]]
      BY <1>2, <2>2 DEF InstallFile
    <3>. QED BY <1>1, <2>2, <3>1 DEF LaunchTypes, Stored
  <2>. QED BY <2>1, <2>2
<1>3. ASSUME NEW p \in Procs, Write(p) PROVE files'.config = files.config
  BY <1>2, <1>3 DEF Write, SyncFile, SyncDir, WriteFails, Disk
<1>4. ASSUME NEW p \in Procs, Boot(p) PROVE files' = files
  BY <1>4 DEF Boot, LaunchOf, LoadStartup, acquireInstanceLock, LoadConfig, LoadState, ResolveToken, Start, Disk
<1>5. ASSUME NEW p \in Procs, Session(p) PROVE files' = files
  BY <1>5 DEF Session, Select, Quit, hydrate, ShowError, Disk
<1>6. ASSUME NEW p \in Procs, Kill(p) PROVE files' = files
  BY <1>6 DEF Kill, Disk
<1>7. ~UserCreatesConfig /\ ~Crash
  BY <1>1 DEF UserCreatesConfig, Crash, LaunchTypes
<1>. QED BY <1>3, <1>4, <1>5, <1>6, <1>7 DEF LaunchNext

\* What the program leaves on disk stays whole and its owner's, for any processes and
\* accounts, and however often processes are killed and the machine crashes.
THEOREM DiskKept == LaunchSpec => FilesKept
<1>1. LaunchSpec => [](OneOwner /\ NeverTorn /\ SelectionDurable /\ EventsFollowActive)
  BY LaunchInvariance, LaunchSafe, PTL
<1>2. LaunchSpec => NoClobber
  BY LaunchInvariance, ConfigKept, PTL DEF LaunchSpec, NoClobber
<1>. QED BY <1>1, <1>2 DEF FilesKept

(***************************************************************************)
(* The read state: the last news of a channel is the truth wherever it is, *)
(* in an UpdateEvent, in a closure or in the marks, and nothing known of a *)
(* channel is ahead of Discord.                                            *)
(***************************************************************************)

LEMMA AppendKeeps ==
  ASSUME NEW U, NEW q \in Seq(U), NEW m \in U, NEW S, NEW T, NEW G
  PROVE  /\ Append(q, m) \in Seq(U)
         /\ Avoids(Append(q, m), S) <=> Avoids(q, S) /\ m \notin S
         /\ (m \in T \/ Ends(q, S, T, G)) /\ (m \in S => m \in G) => Ends(Append(q, m), S, T, G)
<1> DEFINE n == Len(q)
           r == Append(q, m)
<1>1. n \in Nat /\ Len(r) = n + 1 /\ r[n + 1] = m /\ \A i \in 1..n : r[i] = q[i]
  OBVIOUS
<1>2. r \in Seq(U)
  OBVIOUS
<1> HIDE DEF r, n
<1>3. \A i \in 1..Len(r) : i = n + 1 \/ i \in 1..n
  BY <1>1
<1>4. 1..n \subseteq 1..Len(r) /\ n + 1 \in 1..Len(r)
  BY <1>1
<1>5. Avoids(r, S) <=> Avoids(q, S) /\ m \notin S
  BY <1>1, <1>3, <1>4 DEF Avoids, n
<1>6. ASSUME m \in T \/ Ends(q, S, T, G), m \in S => m \in G PROVE Ends(r, S, T, G)
  <2> SUFFICES ASSUME NEW i \in 1..Len(r), r[i] \in S, \A j \in (i + 1)..Len(r) : r[j] \notin T
               PROVE  r[i] \in G
    BY DEF Ends
  <2>1. CASE i = n + 1
    BY <1>1, <1>6, <2>1
  <2>2. CASE i \in 1..n
    <3>1. n + 1 \in (i + 1)..Len(r)
      BY <1>1, <2>2
    <3>2. m \notin T
      BY <1>1, <3>1
    <3>3. \A j \in (i + 1)..n : j \in (i + 1)..Len(r) /\ j \in 1..n
      BY <1>1, <2>2
    <3>4. \A j \in (i + 1)..n : q[j] \notin T
      BY <1>1, <3>3
    <3>. QED BY <1>1, <1>6, <2>2, <3>2, <3>4 DEF Ends, n
  <2>. QED BY <1>3, <2>1, <2>2
<1>. QED BY <1>2, <1>5, <1>6 DEF r

LEMMA TailKeeps ==
  ASSUME NEW U, NEW q \in Seq(U), q # <<>>, NEW S, NEW T, NEW G
  PROVE  /\ Tail(q) \in Seq(U) /\ Head(q) \in U
         /\ Avoids(q, S) <=> Avoids(Tail(q), S) /\ Head(q) \notin S
         /\ Ends(q, S, T, G) => Ends(Tail(q), S, T, G)
         /\ Ends(q, S, T, G) /\ Avoids(Tail(q), T) /\ Head(q) \in S => Head(q) \in G
<1> DEFINE n == Len(q)
           r == Tail(q)
<1>1. /\ n \in Nat /\ n >= 1 /\ Len(r) = n - 1 /\ Head(q) = q[1] /\ r \in Seq(U) /\ Head(q) \in U
      /\ \A i \in 1..(n - 1) : r[i] = q[i + 1]
  OBVIOUS
<1> HIDE DEF r, n
<1>2. \A i \in 1..n : i = 1 \/ (i - 1 \in 1..(n - 1) /\ q[i] = r[i - 1])
  <2>1. \A i \in 1..n : i = 1 \/ (i - 1 \in 1..(n - 1) /\ (i - 1) + 1 = i)
    BY <1>1
  <2>. QED BY <1>1, <2>1
<1>3. 1 \in 1..n /\ \A i \in 1..(n - 1) : i + 1 \in 1..n
  BY <1>1
<1>4. Avoids(q, S) <=> Avoids(r, S) /\ Head(q) \notin S
  BY <1>1, <1>2, <1>3 DEF Avoids, n
<1>5. ASSUME Ends(q, S, T, G) PROVE Ends(r, S, T, G)
  <2> SUFFICES ASSUME NEW i \in 1..Len(r), r[i] \in S, \A j \in (i + 1)..Len(r) : r[j] \notin T
               PROVE  r[i] \in G
    BY DEF Ends
  <2>1. i + 1 \in 1..n /\ q[i + 1] = r[i]
    BY <1>1
  <2>2. ASSUME NEW j \in ((i + 1) + 1)..n PROVE q[j] \notin T
    <3>1. j - 1 \in (i + 1)..Len(r) /\ j \in 1..n /\ j # 1
      BY <1>1
    <3>. QED BY <1>2, <3>1
  <2>. QED BY <1>5, <2>1, <2>2 DEF Ends, n
<1>6. ASSUME Ends(q, S, T, G), Avoids(r, T), Head(q) \in S PROVE Head(q) \in G
  <2>1. ASSUME NEW j \in (1 + 1)..n PROVE q[j] \notin T
    <3>1. j \in 1..n /\ j # 1
      BY <1>1
    <3>2. j - 1 \in 1..(n - 1) /\ q[j] = r[j - 1]
      BY <1>2, <3>1
    <3>. QED BY <1>1, <1>6, <3>2 DEF Avoids
  <2>. QED BY <1>1, <1>3, <1>6, <2>1 DEF Ends, n
<1>. QED BY <1>1, <1>4, <1>5, <1>6 DEF r

\* A larger set of good elements.
LEMMA EndsWeaker ==
  ASSUME NEW q, NEW S, NEW T, NEW G, NEW H, Ends(q, S, T, G), \A i \in 1..Len(q) : q[i] \in G => q[i] \in H
  PROVE  Ends(q, S, T, H)
BY DEF Ends

-----------------------------------------------------------------------------
(* Closures.                                                               *)

LEMMA ClosureFields ==
  ASSUME NEW m \in Closures
  PROVE  /\ m.kind = "message" => m.c \in Channels /\ m.id \in Nat
         /\ m.kind = "update" => m.c \in Channels /\ m.mark \in Mark /\ m.status \in Statuses
         /\ m.kind = "ready" => /\ m.channels \in SUBSET Channels /\ m.last \in [Channels -> Nat]
                                /\ m.marks \in [Channels -> Mark]
         /\ m.kind = "guild" => m.channels \in SUBSET Channels /\ m.last \in [Channels -> Nat]
         /\ m.kind = "delete" => m.c \in Channels
         /\ m.kind \in {"message", "update", "ready", "guild", "delete", "settings", "refresh"}
BY DEF Closures

-----------------------------------------------------------------------------
(* News and statuses of one channel.                                       *)

\* News of a channel is added: what it says is true, and nothing else has to be.
LEMMA Told ==
  ASSUME ReadTypes, NEW c \in Channels, updates' = Append(updates, Update(c)'), Update(c)' \in News
  PROVE  /\ NewsTrue(c)' /\ StatusTrue(c)'
         /\ \A d \in Channels \ {c} : Avoids(updates', NewsOf(d)) <=> Avoids(updates, NewsOf(d))
<1> DEFINE u == Update(c)'
<1>1. u.c = c /\ u.mark = MarkOf(c)' /\ (u.unread <=> read'[c].read < read'[c].last)
  BY DEF Update
<1>2. u \in News /\ updates' = Append(updates, u) /\ updates \in Seq(News)
  BY DEF ReadTypes
<1>3. u \in TrueNews(c)' /\ u \in NewsOf(c)
  BY <1>1, <1>2 DEF NewsOf, TrueNews
<1> HIDE DEF u
<1>4. Ends(updates', NewsOf(c), NewsOf(c), TrueNews(c)')
  BY <1>2, <1>3, AppendKeeps
<1>5. ~Avoids(updates', NewsOf(c))
  <2>1. Avoids(Append(updates, u), NewsOf(c)) <=> Avoids(updates, NewsOf(c)) /\ u \notin NewsOf(c)
    BY <1>2, AppendKeeps
  <2>. QED BY <1>2, <1>3, <2>1
<1>6. \A d \in Channels \ {c} : Avoids(updates', NewsOf(d)) <=> Avoids(updates, NewsOf(d))
  <2> SUFFICES ASSUME NEW d \in Channels \ {c}
               PROVE  Avoids(updates', NewsOf(d)) <=> Avoids(updates, NewsOf(d))
    OBVIOUS
  <2>1. u \notin NewsOf(d)
    BY <1>1 DEF NewsOf
  <2>. QED BY <1>2, <2>1, AppendKeeps
<1>7. NewsOf(c)' = NewsOf(c)
  BY DEF NewsOf
<1>. QED BY <1>4, <1>5, <1>6, <1>7 DEF NewsTrue, StatusTrue

LEMMA SetsConstant ==
  ASSUME NEW c
  PROVE  /\ NewsOf(c)' = NewsOf(c) /\ Tells(c)' = Tells(c) /\ SetsMark(c)' = SetsMark(c)
         /\ Recomputes(c)' = Recomputes(c) /\ Pushes' = Pushes
BY DEF NewsOf, Tells, SetsMark, Recomputes, Pushes

\* A step that tells nothing of a channel: its mark and its truth stay, or the status
\* is about to be computed anew, or is a bulk update's.
LEMMA Untold ==
  ASSUME ReadTypes, NEW c \in Channels, NewsTrue(c), StatusTrue(c),
         \/ updates' = updates
         \/ \E u \in News \ NewsOf(c) : updates' = Append(updates, u)
         \/ updates # <<>> /\ Head(updates) \notin NewsOf(c) /\ updates' = Tail(updates),
         queue' = queue \/ \E m \in Closures \ SetsMark(c) : queue' = Append(queue, m),
         MarkOf(c)' = MarkOf(c), read[c].read < read[c].last => read'[c].read < read'[c].last,
         marks'[c] = marks[c],
         \/ \E m \in Closures \ SetsMark(c) : queue' = Append(queue, m) /\ m \in Recomputes(c)
         \/ /\ Truth(c) \in {"read", Truth(c)'}
            /\ c \in hinted' \/ (cache'[c] = cache[c] /\ (c \in hinted <=> c \in hinted'))
  PROVE  NewsTrue(c)' /\ StatusTrue(c)'
<1>1. /\ NewsOf(c)' = NewsOf(c) /\ Tells(c)' = Tells(c) /\ SetsMark(c)' = SetsMark(c) /\ Recomputes(c)' = Recomputes(c)
      /\ Tells(c) \subseteq SetsMark(c) /\ SetsMark(c) \subseteq Recomputes(c)
      /\ updates \in Seq(News) /\ queue \in Seq(Closures)
  BY SetsConstant DEF SetsMark, Recomputes, ReadTypes
<1>2. TrueNews(c) \subseteq TrueNews(c)' /\ Carries(c)' = Carries(c)
  BY DEF TrueNews, Carries, MarkIn
<1> DEFINE quiet == Avoids(updates, NewsOf(c))
<1>3. (quiet <=> Avoids(updates', NewsOf(c))) /\ Ends(updates', NewsOf(c), NewsOf(c), TrueNews(c))
  <2>1. Ends(updates, NewsOf(c), NewsOf(c), TrueNews(c))
    BY DEF NewsTrue
  <2>2. CASE updates' = updates
    BY <2>1, <2>2
  <2>3. ASSUME NEW u \in News, u \notin NewsOf(c), updates' = Append(updates, u)
        PROVE  (quiet <=> Avoids(updates', NewsOf(c))) /\ Ends(updates', NewsOf(c), NewsOf(c), TrueNews(c))
    BY <1>1, <2>1, <2>3, AppendKeeps
  <2>4. CASE updates # <<>> /\ Head(updates) \notin NewsOf(c) /\ updates' = Tail(updates)
    BY <1>1, <2>1, <2>4, TailKeeps
  <2>. QED BY <2>2, <2>3, <2>4
<1>4. Ends(updates', NewsOf(c), NewsOf(c), TrueNews(c)')
  BY <1>2, <1>3, EndsWeaker
<1> HIDE DEF quiet
<1>5. /\ quiet => Ends(queue', SetsMark(c), SetsMark(c), Carries(c))
      /\ Avoids(queue', SetsMark(c)) => Avoids(queue, SetsMark(c))
  <2>1. quiet => Ends(queue, SetsMark(c), SetsMark(c), Carries(c))
    BY DEF NewsTrue, quiet
  <2>2. ASSUME NEW m \in Closures, m \notin SetsMark(c), queue' = Append(queue, m)
        PROVE  /\ quiet => Ends(queue', SetsMark(c), SetsMark(c), Carries(c))
               /\ Avoids(queue', SetsMark(c)) => Avoids(queue, SetsMark(c))
    BY <1>1, <2>1, <2>2, AppendKeeps
  <2>. QED BY <2>1, <2>2
<1>6. NewsTrue(c)'
  <2>1. quiet /\ Avoids(queue', SetsMark(c)) => marks'[c] \in {Absent, MarkOf(c)'}
    BY <1>5 DEF NewsTrue, quiet
  <2>. QED BY <1>1, <1>2, <1>3, <1>4, <1>5, <2>1 DEF NewsTrue
<1>7. quiet => Ends(queue, Tells(c), Recomputes(c), Truthful(c))
  BY DEF StatusTrue, quiet
<1>8. CASE \E m \in Closures \ SetsMark(c) : queue' = Append(queue, m) /\ m \in Recomputes(c)
  <2>1. PICK m \in Closures : m \notin SetsMark(c) /\ queue' = Append(queue, m) /\ m \in Recomputes(c)
    BY <1>8
  <2>2. ~Avoids(queue', Recomputes(c)) /\ Ends(queue', Tells(c), Recomputes(c), Truthful(c)')
    <3>1. m \notin Tells(c)
      BY <1>1, <2>1
    <3>. QED BY <1>1, <2>1, <3>1, AppendKeeps
  <2>3. StatusTrue(c)'
    BY <1>1, <2>2 DEF StatusTrue
  <2>. QED BY <1>6, <2>3
<1>9. CASE /\ Truth(c) \in {"read", Truth(c)'}
           /\ c \in hinted' \/ (cache'[c] = cache[c] /\ (c \in hinted <=> c \in hinted'))
  <2>1. Truthful(c) \subseteq Truthful(c)'
    BY <1>9 DEF Truthful
  <2>2. /\ quiet => Ends(queue', Tells(c), Recomputes(c), Truthful(c))
        /\ Avoids(queue', Recomputes(c)) => Avoids(queue, Recomputes(c))
    <3>1. ASSUME NEW m \in Closures, m \notin SetsMark(c), queue' = Append(queue, m)
          PROVE  /\ quiet => Ends(queue', Tells(c), Recomputes(c), Truthful(c))
                 /\ Avoids(queue', Recomputes(c)) => Avoids(queue, Recomputes(c))
      <4>1. m \notin Tells(c)
        BY <1>1, <3>1
      <4>. QED BY <1>1, <1>7, <3>1, <4>1, AppendKeeps
    <3>. QED BY <1>7, <3>1
  <2>3. quiet => Ends(queue', Tells(c), Recomputes(c), Truthful(c)')
    BY <2>1, <2>2, EndsWeaker
  <2>4. quiet /\ Avoids(queue', Recomputes(c)) /\ c \notin hinted' /\ marks'[c] # Absent
          => cache'[c] \in {"read", Truth(c)'}
    BY <1>9, <2>2 DEF StatusTrue, quiet
  <2>5. StatusTrue(c)'
    BY <1>1, <1>3, <2>3, <2>4 DEF StatusTrue
  <2>. QED BY <1>6, <2>5
<1>. QED BY <1>8, <1>9

-----------------------------------------------------------------------------
(* The socket goroutine.                                                   *)

Reads == [last : Nat, read : Nat, mentions : Nat, muted : BOOLEAN]

LEMMA AheadShrinks ==
  ASSUME ReadTypes, read' \in [Channels -> Reads], \A c \in Channels : read[c].last <= read'[c].last
  PROVE  NewsAhead' \subseteq NewsAhead /\ Ahead' \subseteq Ahead
<1>1. \A c \in Channels : read[c].last \in Nat /\ read'[c].last \in Nat
  BY DEF ReadTypes, Reads
<1>2. NewsAhead' \subseteq NewsAhead
  <2> SUFFICES ASSUME NEW u \in News, u.mark.lastRead > read'[u.c].last
               PROVE  u.mark.lastRead > read[u.c].last
    BY DEF NewsAhead
  <2>1. u.c \in Channels /\ u.mark.lastRead \in Nat
    BY DEF News, Mark
  <2>. QED BY <1>1, <2>1
<1>3. Ahead' \subseteq Ahead
  <2> SUFFICES ASSUME NEW m \in Closures, ClosurePast(m) PROVE ClosurePast(m)'
    BY DEF Ahead
  <2>1. m.kind = "message" => m.id <= read'[m.c].last
    <3>1. m.kind = "message" => m.c \in Channels /\ m.id \in Nat
      BY ClosureFields
    <3>. QED BY <1>1, <3>1 DEF ClosurePast
  <2>2. m.kind = "update" => m.mark.lastRead <= read'[m.c].last
    <3>1. m.kind = "update" => m.c \in Channels /\ m.mark.lastRead \in Nat
      BY ClosureFields DEF Mark
    <3>. QED BY <1>1, <3>1 DEF ClosurePast
  <2>3. m.kind \in {"ready", "guild"} => \A c \in Channels : m.last[c] <= read'[c].last
    <3>1. m.kind \in {"ready", "guild"} => \A c \in Channels : m.last[c] \in Nat
      BY ClosureFields
    <3>. QED BY <1>1, <3>1 DEF ClosurePast
  <2>4. m.kind = "ready" => \A c \in Channels : m.marks[c].lastRead <= read'[c].last
    <3>1. m.kind = "ready" => \A c \in Channels : m.marks[c].lastRead \in Nat
      BY ClosureFields DEF Mark
    <3>. QED BY <1>1, <3>1 DEF ClosurePast
  <2>. QED BY <2>1, <2>2, <2>3, <2>4 DEF ClosurePast
<1>. QED BY <1>2, <1>3

LEMMA AvoidsLess ==
  ASSUME NEW q, NEW S, NEW T, T \subseteq S, Avoids(q, S)
  PROVE  Avoids(q, T)
BY DEF Avoids

\* What is sent is of now, and Discord only goes on.
LEMMA Sent ==
  ASSUME ReadTypes, NotAhead, read' \in [Channels -> Reads],
         \A c \in Channels : read[c].last <= read'[c].last /\ read'[c].read <= read'[c].last,
         updates' = updates \/ \E u \in News \ NewsAhead' : updates' = Append(updates, u),
         queue' = queue \/ \E m \in Closures \ Ahead' : queue' = Append(queue, m),
         latest' = latest, marks' = marks
  PROVE  NotAhead'
<1>1. NewsAhead' \subseteq NewsAhead /\ Ahead' \subseteq Ahead
  BY AheadShrinks
<1>2. updates \in Seq(News) /\ queue \in Seq(Closures)
  BY DEF ReadTypes
<1>3. Avoids(updates, NewsAhead') /\ Avoids(queue, Ahead')
  BY <1>1, AvoidsLess DEF NotAhead
<1>4. Avoids(updates', NewsAhead')
  <2>1. ASSUME NEW u \in News \ NewsAhead', updates' = Append(updates, u) PROVE Avoids(updates', NewsAhead')
    BY <1>2, <1>3, <2>1, AppendKeeps
  <2>. QED BY <1>3, <2>1
<1>5. Avoids(queue', Ahead')
  <2>1. ASSUME NEW m \in Closures \ Ahead', queue' = Append(queue, m) PROVE Avoids(queue', Ahead')
    BY <1>2, <1>3, <2>1, AppendKeeps
  <2>. QED BY <1>3, <2>1
<1>6. ASSUME NEW c \in Channels
      PROVE  /\ read'[c].read <= read'[c].last /\ latest'[c] <= read'[c].last
             /\ marks'[c] # Absent => marks'[c].lastRead <= read'[c].last
  <2>1. read[c].last \in Nat /\ read'[c].last \in Nat /\ latest[c] \in Nat
    BY DEF ReadTypes, Reads
  <2>2. marks[c] # Absent => marks[c].lastRead \in Nat
    BY DEF ReadTypes, Mark
  <2>. QED BY <2>1, <2>2 DEF NotAhead
<1>. QED BY <1>4, <1>5, <1>6 DEF NotAhead

\* ningen calls back about what it was told of a channel.
LEMMA NotifyKept ==
  ASSUME ReadIInv, NEW c \in Channels, read' \in [Channels -> Reads],
         \A d \in Channels \ {c} : read'[d] = read[d],
         read[c].last <= read'[c].last, read'[c].read <= read'[c].last,
         updates' = Append(updates, Update(c)'),
         queue' = queue \/ \E m \in Closures \ Ahead' : m.kind = "message" /\ queue' = Append(queue, m),
         UNCHANGED <<alive, known, latest, Derived>>
  PROVE  ReadIInv'
<1>1. ReadTypes /\ NotAhead /\ updates \in Seq(News) /\ queue \in Seq(Closures)
      /\ UNCHANGED <<alive, known, latest, marks, cache, guildUnread, hinted>>
  BY DEF ReadIInv, ReadTypes, Derived
<1>2. Update(c)' \in News
  <2>1. MarkOf(c)' \in Mark
    BY DEF MarkOf, Mark, Reads
  <2>2. (read[c].read < read[c].last)' \in BOOLEAN
    OBVIOUS
  <2>. QED BY <2>1, <2>2 DEF Update, News
<1>3. Update(c)' \notin NewsAhead'
  <2>1. Update(c)'.c = c /\ Update(c)'.mark.lastRead = read'[c].read
    BY DEF Update, MarkOf
  <2>. QED BY <2>1 DEF NewsAhead, Reads
<1>4. \A m \in Closures : m.kind = "message" => \A d : m \notin SetsMark(d)
  BY DEF SetsMark, Tells
<1>5. ReadTypes'
  <2>1. updates' \in Seq(News)
    BY <1>1, <1>2
  <2>2. queue' \in Seq(Closures)
    <3>1. ASSUME NEW m \in Closures, queue' = Append(queue, m) PROVE queue' \in Seq(Closures)
      BY <1>1, <3>1
    <3>. QED BY <1>1, <3>1
  <2>. QED BY <1>1, <2>1, <2>2 DEF ReadTypes, Reads
<1>6. NotAhead'
  <2>1. \A d \in Channels : read[d].last <= read'[d].last /\ read'[d].read <= read'[d].last
    <3>1. \A d \in Channels : read[d].last \in Nat /\ read[d].read <= read[d].last
      BY <1>1 DEF ReadTypes, NotAhead
    <3>. QED BY <3>1
  <2>2. \E u \in News \ NewsAhead' : updates' = Append(updates, u)
    BY <1>2, <1>3
  <2>. QED BY <1>1, <2>1, <2>2, Sent
<1>7. NewsTrue(c)' /\ StatusTrue(c)'
  BY <1>1, <1>2, Told
<1>8. ASSUME NEW d \in Channels, d # c PROVE NewsTrue(d)' /\ StatusTrue(d)'
  <2>1. read'[d] = read[d] /\ NewsTrue(d) /\ StatusTrue(d)
    BY <1>8 DEF ReadIInv
  <2>2. \E u \in News \ NewsOf(d) : updates' = Append(updates, u)
    <3>1. Update(c)'.c = c
      BY DEF Update
    <3>2. Update(c)' \notin NewsOf(d)
      BY <1>8, <3>1 DEF NewsOf
    <3>. QED BY <1>2, <3>2
  <2>3. queue' = queue \/ \E m \in Closures \ SetsMark(d) : queue' = Append(queue, m)
    BY <1>4
  <2>4. MarkOf(d)' = MarkOf(d) /\ Truth(d)' = Truth(d)
    BY <2>1 DEF MarkOf, Truth
  <2>. QED BY <1>1, <2>1, <2>2, <2>3, <2>4, Untold
<1>9. AggregateIsMax'
  BY <1>1 DEF ReadIInv, AggregateIsMax
<1>10. BadgePending'
  <2>1. updates' # <<>>
    BY <1>1, <1>2
  <2>. QED BY <2>1 DEF BadgePending
<1>. QED BY <1>5, <1>6, <1>7, <1>8, <1>9, <1>10 DEF ReadIInv

LEMMA TruthIs ==
  ASSUME NEW c \in Channels, read \in [Channels -> Reads]
  PROVE  /\ read[c].mentions > 0 => Truth(c) = "mentioned"
         /\ read[c].mentions = 0 /\ ~read[c].muted /\ read[c].read < read[c].last => Truth(c) = "unread"
         /\ ~(read[c].mentions > 0) /\ ~(read[c].mentions = 0 /\ ~read[c].muted /\ read[c].read < read[c].last)
              => Truth(c) = "read"
         /\ Truth(c) \in Statuses
<1>1. read[c].mentions \in Nat /\ read[c].muted \in BOOLEAN
  BY DEF Reads
<1>. QED BY <1>1 DEF Truth, Statuses

LEMMA CreateKept ==
  ASSUME ReadIInv, NEW c \in Channels, NEW ping \in BOOLEAN, handleMessageCreate(c, ping)
  PROVE  ReadIInv'
<1> DEFINE m == [kind |-> "message", c |-> c, id |-> read[c].last + 1, ping |-> ping]
           more == IF ping THEN 1 ELSE 0
<1>1. ReadTypes /\ NotAhead /\ read[c] \in Reads /\ more \in Nat
  BY DEF ReadIInv, ReadTypes, Reads
<1>2. /\ read' = [read EXCEPT ![c].last = @ + 1, ![c].mentions = @ + more]
      /\ updates' = Append(updates, Update(c)') /\ queue' = Append(queue, m)
      /\ UNCHANGED <<alive, Local, Derived>>
  BY DEF handleMessageCreate, Notify, Post
<1> HIDE DEF more
<1>3. /\ read' \in [Channels -> Reads] /\ \A d \in Channels \ {c} : read'[d] = read[d]
      /\ read'[c].last = read[c].last + 1 /\ read'[c].read = read[c].read
  <2> DEFINE last == read[c].last + 1
             mentions == read[c].mentions + more
             next == [read[c] EXCEPT !.last = last, !.mentions = mentions]
  <2>1. read' = [read EXCEPT ![c] = next] /\ read \in [Channels -> Reads] /\ last \in Nat /\ mentions \in Nat
    <3>1. read \in [Channels -> Reads] /\ last \in Nat /\ mentions \in Nat
      BY <1>1 DEF ReadTypes, Reads
    <3>2. read' = [read EXCEPT ![c].last = @ + 1, ![c].mentions = @ + more]
      BY <1>2
    <3>3. [read EXCEPT ![c].last = @ + 1, ![c].mentions = @ + more] = [read EXCEPT ![c] = next]
      BY <3>1 DEF Reads
    <3>. QED BY <3>1, <3>2, <3>3
  <2> HIDE DEF last, mentions
  <2>2. next \in Reads /\ next.last = last /\ next.read = read[c].read
    BY <1>1, <2>1 DEF Reads
  <2> HIDE DEF next
  <2>. QED BY <2>1, <2>2 DEF last
<1>4. read[c].last <= read'[c].last /\ read'[c].read <= read'[c].last
  <2>1. read[c].last \in Nat /\ read[c].read \in Nat /\ read[c].read <= read[c].last
    BY <1>1 DEF NotAhead, Reads
  <2>. QED BY <1>3, <2>1
<1>5. m \in Closures /\ m \notin Ahead' /\ m.kind = "message"
  <2>1. m \in [kind : {"message"}, c : Channels, id : Nat, ping : BOOLEAN]
    BY <1>1 DEF Reads
  <2>2. m \in Closures
    BY <2>1 DEF Closures
  <2>3. m.kind = "message" /\ m.id <= read'[m.c].last
    BY <1>1, <1>3 DEF Reads
  <2>4. \A n \in Closures : n.kind = "message" /\ n.id <= read'[n.c].last => n \notin Ahead'
    BY DEF Ahead, ClosurePast
  <2> HIDE DEF m
  <2>. QED BY <2>2, <2>3, <2>4
<1> HIDE DEF m
<1>. QED BY <1>2, <1>3, <1>4, <1>5, NotifyKept DEF Local

LEMMA AckKept ==
  ASSUME ReadIInv, NEW c \in Channels, NEW m, RemoteAck(c, m)
  PROVE  ReadIInv'
<1>1. ReadTypes /\ read[c] \in Reads
  BY DEF ReadIInv, ReadTypes, Reads
<1>2. /\ read' = [read EXCEPT ![c].read = m, ![c].mentions = 0] /\ m \in (read[c].read + 1)..read[c].last
      /\ updates' = Append(updates, Update(c)') /\ UNCHANGED <<alive, queue, Local, Derived>>
  BY DEF RemoteAck, Notify
<1>3. m \in Nat /\ m <= read[c].last /\ read[c].last \in Nat
  BY <1>1, <1>2 DEF Reads
<1>4. /\ read' \in [Channels -> Reads] /\ \A d \in Channels \ {c} : read'[d] = read[d]
      /\ read'[c].last = read[c].last /\ read'[c].read = m
  BY <1>1, <1>2, <1>3 DEF ReadTypes, Reads
<1>. QED BY <1>2, <1>3, <1>4, NotifyKept DEF Local

LEMMA SettingsKept ==
  ASSUME ReadIInv, NEW c \in Channels, handleGuildSettingsUpdate(c)
  PROVE  ReadIInv'
<1> DEFINE m == [kind |-> "settings"]
           muted == ~read[c].muted
<1>1. ReadTypes /\ NotAhead /\ read[c] \in Reads /\ queue \in Seq(Closures) /\ muted \in BOOLEAN
  BY DEF ReadIInv, ReadTypes, Reads
<1>2. /\ read' = [read EXCEPT ![c].muted = muted] /\ queue' = Append(queue, m)
      /\ UNCHANGED <<alive, updates, Local, marks, cache, guildUnread, hinted>>
  BY DEF handleGuildSettingsUpdate, Post, Derived
<1> HIDE DEF muted
<1>3. /\ read' \in [Channels -> Reads]
      /\ \A d \in Channels : read'[d].last = read[d].last /\ read'[d].read = read[d].read /\ read'[d].mentions = read[d].mentions
  <2>1. read \in [Channels -> Reads]
    BY <1>1 DEF ReadTypes, Reads
  <2>. QED BY <1>1, <1>2, <2>1 DEF Reads
<1>4. m \in Closures /\ m \notin Ahead' /\ m \in Pushes /\ \A d : m \notin SetsMark(d) /\ m \in Recomputes(d)
  <2>1. m \in Closures
    BY DEF Closures
  <2>. QED BY <2>1 DEF Ahead, ClosurePast, Pushes, SetsMark, Tells, Recomputes
<1> HIDE DEF m
<1>5. ReadTypes'
  <2>1. queue' \in Seq(Closures)
    BY <1>1, <1>2, <1>4
  <2>. QED BY <1>1, <1>2, <1>3, <2>1 DEF ReadTypes, Reads, Local
<1>6. NotAhead'
  <2>1. \A d \in Channels : read[d].last <= read'[d].last /\ read'[d].read <= read'[d].last
    BY <1>1, <1>3 DEF ReadTypes, NotAhead, Reads
  <2>. QED BY <1>1, <1>2, <1>3, <1>4, <2>1, Sent DEF Local
<1>7. ASSUME NEW d \in Channels PROVE NewsTrue(d)' /\ StatusTrue(d)'
  <2>1. NewsTrue(d) /\ StatusTrue(d)
    BY DEF ReadIInv
  <2>2. \E n \in Closures \ SetsMark(d) : queue' = Append(queue, n) /\ n \in Recomputes(d)
    BY <1>2, <1>4
  <2>3. MarkOf(d)' = MarkOf(d)
    BY <1>3 DEF MarkOf
  <2>. QED BY <1>1, <1>2, <1>3, <2>1, <2>2, <2>3, Untold
<1>8. AggregateIsMax'
  BY <1>2 DEF ReadIInv, AggregateIsMax
<1>9. BadgePending'
  <2>1. Avoids(Append(queue, m), Pushes) <=> Avoids(queue, Pushes) /\ m \notin Pushes
    BY <1>1, <1>4, AppendKeeps
  <2>. QED BY <1>2, <1>4, <2>1, SetsConstant DEF BadgePending
<1>. QED BY <1>5, <1>6, <1>7, <1>8, <1>9 DEF ReadIInv

\* A closure is posted that tells nothing; the read state and what is kept of it stay.
LEMMA PostKept ==
  ASSUME ReadIInv, NEW m \in Closures \ Ahead, \A d : m \notin Recomputes(d),
         queue' = Append(queue, m), UNCHANGED <<read, updates, known, latest, Derived>>, alive' \in SUBSET Channels,
         m \in Pushes \/ UNCHANGED <<alive, unread, badge>>
  PROVE  ReadIInv'
<1>1. ReadTypes /\ NotAhead /\ queue \in Seq(Closures) /\ UNCHANGED <<marks, cache, guildUnread, hinted>>
      /\ read' \in [Channels -> Reads]
  BY DEF ReadIInv, ReadTypes, Reads, Derived
<1>2. ReadTypes'
  <2>1. queue' \in Seq(Closures)
    BY <1>1
  <2>. QED BY <1>1, <2>1 DEF ReadTypes
<1>3. NotAhead'
  <2>1. \A d \in Channels : read[d].last <= read'[d].last /\ read'[d].read <= read'[d].last
    BY <1>1 DEF NotAhead, Reads
  <2>2. Ahead' = Ahead
    BY DEF Ahead, ClosurePast
  <2>. QED BY <1>1, <2>1, <2>2, Sent
<1>4. ASSUME NEW d \in Channels PROVE NewsTrue(d)' /\ StatusTrue(d)'
  <2>1. NewsTrue(d) /\ StatusTrue(d) /\ m \notin SetsMark(d)
    BY DEF ReadIInv, Recomputes
  <2>2. MarkOf(d)' = MarkOf(d) /\ Truth(d)' = Truth(d)
    BY DEF MarkOf, Truth
  <2>. QED BY <1>1, <2>1, <2>2, Untold
<1>5. AggregateIsMax'
  BY <1>1 DEF ReadIInv, AggregateIsMax
<1>6. BadgePending'
  <2>1. Avoids(Append(queue, m), Pushes) <=> Avoids(queue, Pushes) /\ m \notin Pushes
    BY <1>1, AppendKeeps
  <2>2. UNCHANGED <<alive, unread, badge>> => (BadgeCurrent => BadgeCurrent')
    BY <1>1 DEF BadgeCurrent, Unread, TotalMentionCount, Mentions
  <2>. QED BY <2>1, <2>2, SetsConstant DEF ReadIInv, BadgePending
<1>. QED BY <1>2, <1>3, <1>4, <1>5, <1>6 DEF ReadIInv

LEMMA GuildKept ==
  ASSUME ReadIInv, handleGuildCreate
  PROVE  ReadIInv'
<1> DEFINE m == [kind |-> "guild", channels |-> alive, last |-> [c \in Channels |-> read[c].last]]
<1>1. ReadTypes
  BY DEF ReadIInv
<1>2. m \in Closures
  <2>1. m \in [kind : {"guild"}, channels : SUBSET Channels, last : [Channels -> Nat]]
    BY <1>1 DEF ReadTypes, Reads
  <2>. QED BY <2>1 DEF Closures
<1>3. m \notin Ahead /\ \A d : m \notin Recomputes(d)
  <2>1. m.kind = "guild" /\ \A d \in Channels : m.last[d] <= read[d].last
    BY <1>1 DEF ReadTypes, Reads
  <2> HIDE DEF m
  <2>. QED BY <2>1 DEF Ahead, ClosurePast, Recomputes, SetsMark, Tells
<1>4. queue' = Append(queue, m) /\ UNCHANGED <<Discord, Local, Derived, badge>>
  BY DEF handleGuildCreate, Post
<1> HIDE DEF m
<1>. QED BY <1>1, <1>2, <1>3, <1>4, PostKept DEF Discord, Local, ReadTypes

LEMMA DeleteKept ==
  ASSUME ReadIInv, NEW c \in Channels, handleChannelDelete(c)
  PROVE  ReadIInv'
<1> DEFINE m == [kind |-> "delete", c |-> c]
<1>1. m \in Closures
  BY DEF Closures
<1>2. m \notin Ahead /\ m \in Pushes /\ \A d : m \notin Recomputes(d)
  BY <1>1 DEF Ahead, ClosurePast, Pushes, Recomputes, SetsMark, Tells
<1>3. queue' = Append(queue, m) /\ alive' \in SUBSET Channels /\ UNCHANGED <<read, updates, known, latest, Derived>>
  BY DEF handleChannelDelete, Post, ReadIInv, ReadTypes, Local
<1> HIDE DEF m
<1>. QED BY <1>1, <1>2, <1>3, PostKept

\* The bulk update overtakes the closures; its entry is believed until the next news.
LEMMA BulkKept ==
  ASSUME ReadIInv, NEW c \in Channels, handleChannelUnreadUpdate(c)
  PROVE  ReadIInv'
<1> DEFINE m == [kind |-> "refresh"]
           status == IF read[c].muted THEN "read" ELSE "unread"
           last == read[c].last + 1
<1>1. ReadTypes /\ NotAhead /\ queue \in Seq(Closures) /\ read \in [Channels -> Reads] /\ last \in Nat
  BY DEF ReadIInv, ReadTypes, Reads
<1>2. /\ read' = [read EXCEPT ![c].last = last] /\ queue' = Append(queue, m) /\ hinted' = hinted \cup {c}
      /\ cache' = [cache EXCEPT ![c] = status] /\ guildUnread' = Strongest({cache'[d] : d \in Channels})
      /\ UNCHANGED <<alive, updates, known, latest, marks>>
  BY DEF handleChannelUnreadUpdate, Post, cacheReadState, Local
<1>3. status \in Statuses
  BY DEF Statuses
<1> HIDE DEF status, last
<1>4. /\ read' \in [Channels -> Reads] /\ read'[c].last = last
      /\ \A d \in Channels : read'[d].read = read[d].read /\ read'[d].mentions = read[d].mentions
      /\ \A d \in Channels \ {c} : read'[d] = read[d]
  BY <1>1, <1>2 DEF Reads
<1>5. m \in Closures /\ m \notin Ahead' /\ m \in Pushes /\ \A d : m \notin SetsMark(d)
  <2>1. m \in Closures
    BY DEF Closures
  <2>. QED BY <2>1 DEF Ahead, ClosurePast, Pushes, SetsMark, Tells
<1> HIDE DEF m
<1>6. ReadTypes'
  <2>1. queue' \in Seq(Closures)
    BY <1>1, <1>2, <1>5
  <2>2. cache' \in [Channels -> Statuses]
    BY <1>1, <1>2, <1>3 DEF ReadTypes
  <2>. QED BY <1>1, <1>2, <1>4, <2>1, <2>2 DEF ReadTypes, Reads
<1>7. \A d \in Channels : read[d].last <= read'[d].last /\ read'[d].read <= read'[d].last
  <2>1. \A d \in Channels : read[d].last \in Nat /\ read[d].read \in Nat /\ read[d].read <= read[d].last
    BY <1>1 DEF NotAhead, Reads
  <2>. QED BY <1>4, <2>1 DEF last
<1>8. NotAhead'
  BY <1>1, <1>2, <1>4, <1>5, <1>7, Sent
<1>9. ASSUME NEW d \in Channels PROVE NewsTrue(d)' /\ StatusTrue(d)'
  <2>1. NewsTrue(d) /\ StatusTrue(d)
    BY DEF ReadIInv
  <2>2. MarkOf(d)' = MarkOf(d)
    BY <1>4 DEF MarkOf
  <2>3. \E n \in Closures \ SetsMark(d) : queue' = Append(queue, n)
    BY <1>2, <1>5
  <2>4. read[d].read < read[d].last => read'[d].read < read'[d].last
    BY <1>1, <1>4, <1>7 DEF Reads
  <2>5. Truth(d) \in {"read", Truth(d)'}
    <3>1. d # c => Truth(d)' = Truth(d)
      BY <1>4 DEF Truth
    <3>2. /\ read[c].mentions > 0 => Truth(c) = "mentioned"
          /\ ~(read[c].mentions > 0) => Truth(c) \in {"read", "unread"}
          /\ Truth(c) = "unread" => ~read[c].muted /\ read[c].read < read[c].last /\ read[c].mentions = 0
      BY <1>1, TruthIs
    <3>3. /\ read'[c].mentions > 0 => Truth(c)' = "mentioned"
          /\ read'[c].mentions = 0 /\ ~read'[c].muted /\ read'[c].read < read'[c].last => Truth(c)' = "unread"
      BY <1>4 DEF Truth
    <3>4. read'[c].muted = read[c].muted
      BY <1>1, <1>2 DEF Reads
    <3>5. CASE d = c
      BY <1>4, <2>4, <3>2, <3>3, <3>4, <3>5
    <3>. QED BY <3>1, <3>5
  <2>6. d \in hinted' \/ (cache'[d] = cache[d] /\ (d \in hinted <=> d \in hinted'))
    BY <1>1, <1>2 DEF ReadTypes
  <2>. QED BY <1>1, <1>2, <2>1, <2>2, <2>3, <2>4, <2>5, <2>6, Untold
<1>10. AggregateIsMax'
  BY <1>2 DEF AggregateIsMax
<1>11. BadgePending'
  <2>1. Avoids(Append(queue, m), Pushes) <=> Avoids(queue, Pushes) /\ m \notin Pushes
    BY <1>1, <1>5, AppendKeeps
  <2>. QED BY <1>2, <1>5, <2>1, SetsConstant DEF BadgePending
<1>. QED BY <1>6, <1>8, <1>9, <1>10, <1>11 DEF ReadIInv

\* What ningen says of a channel, as the guards of a CASE apart from each other.
Status(mentions, isUnread, muted) ==
  CASE mentions > 0 -> "mentioned" [] mentions = 0 /\ isUnread /\ ~muted -> "unread" [] OTHER -> "read"

LEMMA StatusIs ==
  ASSUME NEW mentions \in Nat, NEW isUnread \in BOOLEAN, NEW muted \in BOOLEAN
  PROVE  /\ mentions > 0 => Status(mentions, isUnread, muted) = "mentioned"
         /\ ~(mentions > 0) /\ isUnread /\ ~muted => Status(mentions, isUnread, muted) = "unread"
         /\ ~(mentions > 0) /\ ~(isUnread /\ ~muted) => Status(mentions, isUnread, muted) = "read"
<1> USE DEF Status
<1>1. mentions > 0 => mentions # 0
  OBVIOUS
<1>2. ~(mentions > 0) => mentions = 0
  OBVIOUS
<1>3. mentions > 0 => Status(mentions, isUnread, muted) = "mentioned"
  BY <1>1
<1>4. ~(mentions > 0) /\ isUnread /\ ~muted => Status(mentions, isUnread, muted) = "unread"
  BY <1>2
<1>5. ~(mentions > 0) /\ ~(isUnread /\ ~muted) => Status(mentions, isUnread, muted) = "read"
  BY <1>2
<1>. QED BY <1>3, <1>4, <1>5

\* What is posted of an UpdateEvent is the truth if it was the channel's last.
LEMMA UpdateKept ==
  ASSUME ReadIInv, handleReadStateUpdate
  PROVE  ReadIInv'
<1> DEFINE e == Head(updates)
           c == e.c
           status == CASE e.mark.mentions > 0 -> "mentioned"
                       [] e.mark.mentions = 0 /\ e.unread /\ ~read[e.c].muted -> "unread"
                       [] OTHER -> "read"
           m == [kind |-> "update", c |-> c, mark |-> e.mark, status |-> status]
<1>1. ReadTypes /\ NotAhead /\ queue \in Seq(Closures) /\ updates \in Seq(News) /\ read \in [Channels -> Reads]
  BY DEF ReadIInv, ReadTypes, Reads
<1>2. /\ updates # <<>> /\ updates' = Tail(updates) /\ queue' = Append(queue, m)
      /\ UNCHANGED <<read, alive, known, latest, marks, cache, guildUnread, hinted, unread, badge>>
  BY DEF handleReadStateUpdate, Post, Local, Derived
<1>3. e \in News /\ c \in Channels /\ e.mark \in Mark /\ e.unread \in BOOLEAN /\ e.mark.mentions \in Nat
  <2>1. e \in News
    BY <1>1, <1>2, TailKeeps
  <2> HIDE DEF e
  <2>. QED BY <2>1 DEF News, Mark
<1>5. /\ e.mark.mentions > 0 => status = "mentioned"
      /\ ~(e.mark.mentions > 0) /\ e.unread /\ ~read[c].muted => status = "unread"
      /\ ~(e.mark.mentions > 0) /\ ~(e.unread /\ ~read[c].muted) => status = "read"
  <2>1. read[c].muted \in BOOLEAN
    BY <1>1, <1>3 DEF Reads
  <2>2. status = Status(e.mark.mentions, e.unread, read[c].muted)
    BY Zenon DEF Status
  <2> HIDE DEF e, c, status
  <2>. QED BY <1>3, <2>1, <2>2, StatusIs
<1>4. status \in Statuses
  BY <1>5 DEF Statuses
<1> HIDE DEF e, c, status
<1>6. m \in Closures
  <2>1. m \in [kind : {"update"}, c : Channels, mark : Mark, status : Statuses]
    BY <1>3, <1>4
  <2>. QED BY <2>1 DEF Closures
<1>7. /\ m.kind = "update" /\ m.c = c /\ m.mark = e.mark /\ m.status = status
      /\ m \in Tells(c) /\ m \in SetsMark(c) /\ m \in Recomputes(c) /\ m \in Pushes
      /\ \A d : d # c => m \notin SetsMark(d)
  BY <1>6 DEF Tells, SetsMark, Recomputes, Pushes
<1> HIDE DEF m
<1>8. ReadTypes'
  <2>1. queue' \in Seq(Closures) /\ updates' \in Seq(News)
    BY <1>1, <1>2, <1>6
  <2>. QED BY <1>1, <1>2, <2>1 DEF ReadTypes
<1>9. NotAhead'
  <2>1. NewsAhead' = NewsAhead /\ Ahead' = Ahead
    BY <1>2 DEF NewsAhead, Ahead, ClosurePast
  <2>2. Avoids(updates', NewsAhead) /\ e \notin NewsAhead
    BY <1>1, <1>2, TailKeeps DEF NotAhead, e
  <2>3. m \notin Ahead
    <3>1. e.mark.lastRead <= read[c].last
      BY <1>1, <1>3, <2>2 DEF NewsAhead, c, Mark, Reads
    <3>. QED BY <1>7, <3>1 DEF Ahead, ClosurePast
  <2>4. Avoids(queue', Ahead)
    BY <1>1, <1>2, <1>6, <2>3, AppendKeeps DEF NotAhead
  <2>. QED BY <1>1, <1>2, <2>1, <2>2, <2>4 DEF NotAhead
<1>10. ASSUME NEW d \in Channels PROVE NewsTrue(d)' /\ StatusTrue(d)'
  <2>1. NewsTrue(d) /\ StatusTrue(d) /\ MarkOf(d)' = MarkOf(d) /\ Truth(d)' = Truth(d)
    BY <1>2 DEF ReadIInv, MarkOf, Truth
  <2>2. CASE d # c
    <3>1. Head(updates) \notin NewsOf(d)
      BY <2>2 DEF NewsOf, e, c
    <3>2. \E n \in Closures \ SetsMark(d) : queue' = Append(queue, n)
      BY <1>2, <1>6, <1>7, <2>2
    <3>. QED BY <1>1, <1>2, <2>1, <3>1, <3>2, Untold
  <2>3. CASE d = c
    <3>1. /\ NewsOf(d)' = NewsOf(d) /\ Tells(d)' = Tells(d) /\ SetsMark(d)' = SetsMark(d) /\ Recomputes(d)' = Recomputes(d)
          /\ TrueNews(d)' = TrueNews(d) /\ Carries(d)' = Carries(d) /\ Truthful(d)' = Truthful(d)
      BY <1>2, <2>1, SetsConstant DEF TrueNews, Carries, MarkIn, Truthful
    <3>2. /\ Ends(updates', NewsOf(d), NewsOf(d), TrueNews(d))
          /\ Avoids(updates', NewsOf(d)) => e \in TrueNews(d)
      <4>1. e \in NewsOf(d)
        BY <1>3, <2>3 DEF NewsOf, c
      <4>2. Ends(updates, NewsOf(d), NewsOf(d), TrueNews(d))
        BY <2>1 DEF NewsTrue
      <4>. QED BY <1>1, <1>2, <4>1, <4>2, TailKeeps DEF e
    <3>3. e \in TrueNews(d) => m \in Carries(d) /\ m \in Truthful(d)
      <4> SUFFICES ASSUME e \in TrueNews(d) PROVE m \in Carries(d) /\ m \in Truthful(d)
        OBVIOUS
      <4>1. e.mark = MarkOf(d) /\ (e.unread => read[d].read < read[d].last)
        BY DEF TrueNews
      <4>2. m \in Carries(d)
        BY <1>6, <1>7, <4>1 DEF Carries, MarkIn
      <4>3. e.mark.mentions = read[d].mentions /\ read[d].mentions \in Nat /\ read[d].muted \in BOOLEAN
        BY <1>1, <4>1 DEF MarkOf, Reads
      <4>4. status \in {"read", Truth(d)}
        BY <1>1, <1>3, <1>5, <2>3, <4>1, <4>3, TruthIs
      <4>. QED BY <1>6, <1>7, <4>2, <4>4 DEF Truthful
    <3>4. /\ ~Avoids(queue', SetsMark(d)) /\ ~Avoids(queue', Recomputes(d))
          /\ e \in TrueNews(d) => /\ Ends(queue', SetsMark(d), SetsMark(d), Carries(d))
                                  /\ Ends(queue', Tells(d), Recomputes(d), Truthful(d))
      <4>1. m \in SetsMark(d) /\ m \in Recomputes(d)
        BY <1>7, <2>3
      <4>2. ~Avoids(queue', SetsMark(d)) /\ ~Avoids(queue', Recomputes(d))
        BY <1>1, <1>2, <1>6, <4>1, AppendKeeps
      <4>3. e \in TrueNews(d) => Ends(queue', SetsMark(d), SetsMark(d), Carries(d))
        BY <1>1, <1>2, <1>6, <3>3, <4>1, AppendKeeps
      <4>4. e \in TrueNews(d) => Ends(queue', Tells(d), Recomputes(d), Truthful(d))
        BY <1>1, <1>2, <1>6, <3>3, <4>1, AppendKeeps
      <4>. QED BY <4>2, <4>3, <4>4
    <3>. QED BY <3>1, <3>2, <3>4 DEF NewsTrue, StatusTrue
  <2>. QED BY <2>2, <2>3
<1>11. AggregateIsMax'
  BY <1>2 DEF ReadIInv, AggregateIsMax
<1>12. BadgePending'
  <2>1. Avoids(Append(queue, m), Pushes) <=> Avoids(queue, Pushes) /\ m \notin Pushes
    BY <1>1, <1>6, AppendKeeps
  <2>. QED BY <1>2, <1>7, <2>1, SetsConstant DEF BadgePending
<1>. QED BY <1>8, <1>9, <1>10, <1>11, <1>12 DEF ReadIInv

\* A reconnect: READY carries the marks of now, and everything is computed anew.
LEMMA ReadyKept ==
  ASSUME ReadIInv, handleReady
  PROVE  ReadIInv'
<1>1. ReadTypes /\ NotAhead /\ queue \in Seq(Closures) /\ read \in [Channels -> Reads] /\ updates = <<>> /\ updates' = <<>>
      /\ UNCHANGED <<known, latest, marks, cache, guildUnread, hinted>>
  BY DEF ReadIInv, ReadTypes, Reads, handleReady, Local, Derived
<1>2. PICK c \in alive, l \in 0..MaxMsg, r \in 0..MaxMsg :
        /\ read[c].last <= l /\ r <= l
        /\ read' = [read EXCEPT ![c].last = l, ![c].read = r, ![c].mentions = IF r > read[c].read THEN 0 ELSE @]
  BY DEF handleReady
<1>3. alive' \in SUBSET Channels
  BY <1>1 DEF handleReady, ReadTypes
<1>4. PICK listed \in {{}, alive'} :
        queue' = Append(queue, [kind |-> "ready", channels |-> listed, last |-> [d \in Channels |-> read'[d].last],
                                marks |-> [d \in Channels |-> MarkOf(d)']])
  BY DEF handleReady, Post
<1> DEFINE mentions == IF r > read[c].read THEN 0 ELSE read[c].mentions
           m == [kind |-> "ready", channels |-> listed, last |-> [d \in Channels |-> read'[d].last],
                 marks |-> [d \in Channels |-> MarkOf(d)']]
<1>5. c \in Channels /\ l \in Nat /\ r \in Nat /\ mentions \in Nat
  BY <1>1, ReadAssumption DEF ReadTypes, Reads
<1>6. read' = [read EXCEPT ![c].last = l, ![c].read = r, ![c].mentions = mentions]
  BY <1>2
<1> HIDE DEF mentions
<1>7. read' \in [Channels -> Reads] /\ read'[c].last = l /\ read'[c].read = r /\ \A d \in Channels \ {c} : read'[d] = read[d]
  BY <1>1, <1>5, <1>6 DEF Reads
<1>8. \A d \in Channels : read[d].last <= read'[d].last /\ read'[d].read <= read'[d].last
  <2>1. \A d \in Channels : read[d].last \in Nat /\ read[d].read \in Nat /\ read[d].read <= read[d].last
    BY <1>1 DEF NotAhead, Reads
  <2>. QED BY <1>2, <1>7, <2>1
<1>9. /\ m.kind = "ready" /\ m \in Closures
      /\ \A d \in Channels : m.last[d] = read'[d].last /\ m.marks[d] = MarkOf(d)'
  <2>1. \A d \in Channels : read'[d].last \in Nat /\ MarkOf(d)' \in Mark
    BY <1>7 DEF Reads, MarkOf, Mark
  <2>2. m \in [kind : {"ready"}, channels : SUBSET Channels, last : [Channels -> Nat], marks : [Channels -> Mark]]
    BY <1>3, <1>4, <2>1
  <2>3. m.kind = "ready" /\ \A d \in Channels : m.last[d] = read'[d].last /\ m.marks[d] = MarkOf(d)'
    OBVIOUS
  <2> HIDE DEF m
  <2>. QED BY <2>2, <2>3 DEF Closures
<1>10. queue' = Append(queue, m)
  BY <1>4
<1> HIDE DEF m
<1>11. m \notin Ahead' /\ m \in Pushes /\ \A d : m \notin Tells(d) /\ m \in SetsMark(d) /\ m \in Recomputes(d)
  <2>1. \A d \in Channels : m.marks[d].lastRead = read'[d].read /\ read'[d].last \in Nat
    <3>1. \A d \in Channels : MarkOf(d)'.lastRead = read'[d].read /\ read'[d].last \in Nat
      BY <1>7 DEF MarkOf, Reads
    <3>. QED BY <1>9, <3>1
  <2>3. m \notin Ahead'
    <3>1. \A n \in Closures : n.kind = "ready" /\ (\A d \in Channels : n.last[d] <= read'[d].last)
            /\ (\A d \in Channels : n.marks[d].lastRead <= read'[d].last) => n \notin Ahead'
      BY DEF Ahead, ClosurePast
    <3>2. \A d \in Channels : m.last[d] <= read'[d].last /\ m.marks[d].lastRead <= read'[d].last
      BY <1>8, <1>9, <2>1
    <3>. QED BY <1>9, <3>1, <3>2
  <2>. QED BY <1>9, <2>3 DEF Pushes, Tells, SetsMark, Recomputes
<1>12. ReadTypes'
  <2>1. queue' \in Seq(Closures)
    BY <1>1, <1>9, <1>10
  <2>. QED BY <1>1, <1>3, <1>7, <2>1 DEF ReadTypes, Reads
<1>13. NotAhead'
  <2>1. \E n \in Closures \ Ahead' : queue' = Append(queue, n)
    BY <1>9, <1>10, <1>11
  <2>. QED BY <1>1, <1>7, <1>8, <2>1, Sent
<1>14. ASSUME NEW d \in Channels PROVE NewsTrue(d)' /\ StatusTrue(d)'
  <2>1. \A S, T, G : Ends(<<>>, S, T, G)
    BY DEF Ends
  <2>2. m \in Carries(d)'
    <3>1. \A n \in Closures : MarkIn(n, d) = MarkOf(d)' => n \in Carries(d)'
      BY DEF Carries, MarkIn
    <3>. QED BY <1>9, <3>1 DEF MarkIn
  <2>3. /\ Ends(queue', SetsMark(d), SetsMark(d), Carries(d)') /\ ~Avoids(queue', SetsMark(d))
    BY <1>1, <1>9, <1>10, <1>11, <2>2, AppendKeeps
  <2>4. /\ Ends(queue', Tells(d), Recomputes(d), Truthful(d)') /\ ~Avoids(queue', Recomputes(d))
    BY <1>1, <1>9, <1>10, <1>11, AppendKeeps
  <2>. QED BY <1>1, <2>1, <2>3, <2>4, SetsConstant DEF NewsTrue, StatusTrue
<1>15. AggregateIsMax'
  BY <1>1 DEF ReadIInv, AggregateIsMax
<1>16. BadgePending'
  <2>1. Avoids(Append(queue, m), Pushes) <=> Avoids(queue, Pushes) /\ m \notin Pushes
    BY <1>1, <1>9, AppendKeeps
  <2>. QED BY <1>10, <1>11, <2>1, SetsConstant DEF BadgePending
<1>. QED BY <1>12, <1>13, <1>14, <1>15, <1>16 DEF ReadIInv

-----------------------------------------------------------------------------
(* The UI goroutine.                                                       *)

\* What a mark of now says of a channel: the truth, if its newest message is known.
LEMMA LocalMark ==
  ASSUME ReadTypes, NEW c \in Channels, NEW ms, NEW chans, NEW last, ms[c] = MarkOf(c)
  PROVE  LET late == ~read[c].muted /\ c \in chans /\ read[c].read < last[c] IN
         localReadState(c, ms, chans, last) =
           CASE read[c].mentions > 0 -> "mentioned" [] read[c].mentions = 0 /\ late -> "unread" [] OTHER -> "read"
<1>1. read \in [Channels -> Reads] /\ ms[c] \in Mark /\ ms[c] # Absent
      /\ ms[c].mentions = read[c].mentions /\ ms[c].lastRead = read[c].read
  BY ReadAssumption DEF ReadTypes, Reads, MarkOf, Mark
<1>. QED BY <1>1 DEF localReadState

LEMMA LocalTrue ==
  ASSUME ReadTypes, NEW c \in Channels, NEW ms, NEW chans, NEW last, ms[c] = MarkOf(c),
         last[c] \in Nat, last[c] <= read[c].last
  PROVE  localReadState(c, ms, chans, last) \in {"read", Truth(c)}
<1> DEFINE late == ~read[c].muted /\ c \in chans /\ read[c].read < last[c]
<1>1. read \in [Channels -> Reads]
  BY DEF ReadTypes, Reads
<1>2. read[c].mentions \in Nat /\ read[c].read \in Nat /\ read[c].last \in Nat /\ read[c].muted \in BOOLEAN
  BY <1>1 DEF Reads
<1>3. localReadState(c, ms, chans, last) =
        CASE read[c].mentions > 0 -> "mentioned" [] read[c].mentions = 0 /\ late -> "unread" [] OTHER -> "read"
  BY LocalMark
<1>4. late => ~read[c].muted /\ read[c].read < read[c].last
  BY <1>2
<1> HIDE DEF late
<1>. QED BY <1>1, <1>2, <1>3, <1>4, TruthIs

LEMMA LocalExact ==
  ASSUME ReadTypes, NEW c \in Channels, NEW ms, NEW chans, NEW last, ms[c] = MarkOf(c),
         c \in chans, last[c] = read[c].last
  PROVE  localReadState(c, ms, chans, last) = Truth(c)
<1> DEFINE late == ~read[c].muted /\ c \in chans /\ read[c].read < last[c]
<1>1. read \in [Channels -> Reads]
  BY DEF ReadTypes, Reads
<1>2. read[c].mentions \in Nat /\ read[c].read \in Nat /\ read[c].last \in Nat /\ read[c].muted \in BOOLEAN
  BY <1>1 DEF Reads
<1>3. localReadState(c, ms, chans, last) =
        CASE read[c].mentions > 0 -> "mentioned" [] read[c].mentions = 0 /\ late -> "unread" [] OTHER -> "read"
  BY LocalMark
<1>4. late <=> ~read[c].muted /\ read[c].read < read[c].last
  BY <1>2
<1> HIDE DEF late
<1>. QED BY <1>1, <1>2, <1>3, <1>4, TruthIs

\* The oldest closure has run: whose mark it set, whose status it wrote.
LEMMA RanKept ==
  ASSUME ReadIInv, NEW m, queue # <<>>, m = Head(queue), queue' = Tail(queue), UNCHANGED <<read, alive, updates>>,
         known' \in SUBSET Channels, latest' \in [Channels -> Nat], marks' \in [Channels -> {Absent} \cup Mark],
         cache' \in [Channels -> Statuses], guildUnread' = Strongest({cache'[c] : c \in Channels}),
         \A c \in Channels : latest'[c] <= read[c].last,
         \A c \in Channels : \/ marks'[c] = Absent
                             \/ m \in SetsMark(c) /\ marks'[c] = MarkIn(m, c)
                             \/ m \notin SetsMark(c) /\ marks'[c] = marks[c],
         \A c \in Channels : \/ m \in Tells(c) /\ cache'[c] = m.status
                             \/ m \notin Recomputes(c) /\ cache'[c] = cache[c] /\ marks'[c] = marks[c] /\ (c \in hinted <=> c \in hinted')
                             \/ marks'[c] = MarkOf(c) => cache'[c] \in {"read", Truth(c)},
         BadgePending'
  PROVE  ReadIInv'
<1>1. ReadTypes /\ NotAhead /\ queue \in Seq(Closures) /\ m \in Closures /\ queue' \in Seq(Closures)
  <2>1. ReadTypes /\ NotAhead /\ queue \in Seq(Closures)
    BY DEF ReadIInv, ReadTypes
  <2>. QED BY <2>1, TailKeeps
<1>2. ReadTypes'
  BY <1>1 DEF ReadTypes
<1>3. Avoids(queue', Ahead) /\ ClosurePast(m)
  <2>1. Avoids(queue', Ahead) /\ m \notin Ahead
    BY <1>1, TailKeeps DEF NotAhead
  <2>. QED BY <1>1, <2>1 DEF Ahead
<1>4. NotAhead'
  <2>1. NewsAhead' = NewsAhead /\ Ahead' = Ahead
    BY DEF NewsAhead, Ahead, ClosurePast
  <2>2. ASSUME NEW c \in Channels, marks'[c] # Absent PROVE marks'[c].lastRead <= read[c].last
    <3>1. CASE m \in SetsMark(c) /\ marks'[c] = MarkIn(m, c)
      BY <1>3, <3>1 DEF SetsMark, Tells, MarkIn, ClosurePast
    <3>2. CASE marks'[c] = marks[c]
      BY <1>1, <2>2, <3>2 DEF NotAhead
    <3>. QED BY <2>2, <3>1, <3>2
  <2>. QED BY <1>1, <1>3, <2>1, <2>2 DEF NotAhead
<1>5. ASSUME NEW c \in Channels PROVE NewsTrue(c)' /\ StatusTrue(c)'
  <2>1. /\ NewsOf(c)' = NewsOf(c) /\ Tells(c)' = Tells(c) /\ SetsMark(c)' = SetsMark(c) /\ Recomputes(c)' = Recomputes(c)
        /\ Tells(c) \subseteq SetsMark(c) /\ SetsMark(c) \subseteq Recomputes(c)
    BY SetsConstant DEF SetsMark, Recomputes
  <2>2. /\ TrueNews(c)' = TrueNews(c) /\ Carries(c)' = Carries(c) /\ Truthful(c)' = Truthful(c)
        /\ MarkOf(c)' = MarkOf(c) /\ Truth(c)' = Truth(c)
    BY DEF TrueNews, Carries, Truthful, MarkIn, MarkOf, Truth
  <2>3. NewsTrue(c) /\ StatusTrue(c)
    BY DEF ReadIInv
  <2> DEFINE quiet == Avoids(updates, NewsOf(c))
  <2>4. /\ quiet => Ends(queue, SetsMark(c), SetsMark(c), Carries(c)) /\ Ends(queue, Tells(c), Recomputes(c), Truthful(c))
        /\ quiet /\ Avoids(queue, SetsMark(c)) => marks[c] \in {Absent, MarkOf(c)}
        /\ quiet /\ Avoids(queue, Recomputes(c)) /\ c \notin hinted /\ marks[c] # Absent => cache[c] \in {"read", Truth(c)}
    BY <2>3 DEF NewsTrue, StatusTrue
  <2>5. (quiet <=> Avoids(updates', NewsOf(c)')) /\ Ends(updates', NewsOf(c)', NewsOf(c)', TrueNews(c)')
    BY <2>1, <2>2, <2>3 DEF NewsTrue
  <2> HIDE DEF quiet
  <2>6. /\ quiet => Ends(queue', SetsMark(c), SetsMark(c), Carries(c)) /\ Ends(queue', Tells(c), Recomputes(c), Truthful(c))
        /\ Avoids(queue', SetsMark(c)) /\ m \notin SetsMark(c) => Avoids(queue, SetsMark(c))
        /\ Avoids(queue', Recomputes(c)) /\ m \notin Recomputes(c) => Avoids(queue, Recomputes(c))
        /\ quiet /\ Avoids(queue', SetsMark(c)) /\ m \in SetsMark(c) => m \in Carries(c)
        /\ quiet /\ Avoids(queue', Recomputes(c)) /\ m \in Tells(c) => m \in Truthful(c)
        /\ Avoids(queue', Recomputes(c)) => Avoids(queue', SetsMark(c))
    <3>1. quiet => Ends(queue', SetsMark(c), SetsMark(c), Carries(c)) /\ Ends(queue', Tells(c), Recomputes(c), Truthful(c))
      BY <1>1, <2>4, TailKeeps
    <3>2. /\ Avoids(queue', SetsMark(c)) /\ m \notin SetsMark(c) => Avoids(queue, SetsMark(c))
          /\ Avoids(queue', Recomputes(c)) /\ m \notin Recomputes(c) => Avoids(queue, Recomputes(c))
      BY <1>1, TailKeeps
    <3>3. quiet /\ Avoids(queue', SetsMark(c)) /\ m \in SetsMark(c) => m \in Carries(c)
      BY <1>1, <2>4, TailKeeps
    <3>4. quiet /\ Avoids(queue', Recomputes(c)) /\ m \in Tells(c) => m \in Truthful(c)
      BY <1>1, <2>4, TailKeeps
    <3>5. Avoids(queue', Recomputes(c)) => Avoids(queue', SetsMark(c))
      BY <2>1, AvoidsLess
    <3>. QED BY <3>1, <3>2, <3>3, <3>4, <3>5
  <2>7. quiet /\ Avoids(queue', SetsMark(c)) => marks'[c] \in {Absent, MarkOf(c)}
    BY <2>4, <2>6 DEF Carries
  <2>8. quiet /\ Avoids(queue', Recomputes(c)) /\ c \notin hinted' /\ marks'[c] # Absent => cache'[c] \in {"read", Truth(c)}
    <3> SUFFICES ASSUME quiet, Avoids(queue', Recomputes(c)), c \notin hinted', marks'[c] # Absent
                 PROVE  cache'[c] \in {"read", Truth(c)}
      OBVIOUS
    <3>1. marks'[c] = MarkOf(c)
      BY <2>6, <2>7
    <3>2. CASE m \in Tells(c) /\ cache'[c] = m.status
      BY <2>6, <3>2 DEF Truthful
    <3>3. CASE m \notin Recomputes(c) /\ cache'[c] = cache[c] /\ marks'[c] = marks[c] /\ (c \in hinted <=> c \in hinted')
      BY <2>4, <2>6, <3>3
    <3>. QED BY <3>1, <3>2, <3>3
  <2>9. NewsTrue(c)'
    BY <2>1, <2>2, <2>5, <2>6, <2>7 DEF NewsTrue
  <2>10. StatusTrue(c)'
    BY <2>1, <2>2, <2>5, <2>6, <2>8 DEF StatusTrue
  <2>. QED BY <2>9, <2>10
<1>. QED BY <1>2, <1>4, <1>5 DEF ReadIInv, AggregateIsMax

LEMMA BadgePushed ==
  ASSUME badge' = Unread'
  PROVE  BadgePending'
BY DEF BadgePending, BadgeCurrent

\* What every closure that runs starts from.
LEMMA Oldest ==
  ASSUME ReadIInv, queue # <<>>
  PROVE  /\ ReadTypes /\ NotAhead /\ AggregateIsMax /\ Head(queue) \in Closures /\ ClosurePast(Head(queue))
         /\ Avoids(queue, Pushes) <=> Avoids(Tail(queue), Pushes) /\ Head(queue) \notin Pushes
<1>1. ReadTypes /\ NotAhead /\ AggregateIsMax /\ queue \in Seq(Closures)
  BY DEF ReadIInv, ReadTypes
<1>2. Head(queue) \in Closures /\ Head(queue) \notin Ahead
  BY <1>1, TailKeeps DEF NotAhead
<1>3. Avoids(queue, Pushes) <=> Avoids(Tail(queue), Pushes) /\ Head(queue) \notin Pushes
  BY <1>1, TailKeeps
<1>. QED BY <1>1, <1>2, <1>3 DEF Ahead

\* A stored message may be the newest the store has heard of.
LEMMA MessageKept ==
  ASSUME ReadIInv, NEW m, queue # <<>>, m = Head(queue), queue' = Tail(queue), UNCHANGED <<read, alive, updates>>,
         m.kind = "message", RunMessage(m)
  PROVE  ReadIInv'
<1>1. ReadTypes /\ NotAhead /\ AggregateIsMax /\ m \in Closures /\ m.c \in Channels /\ m.id \in Nat /\ m.id <= read[m.c].last
  BY Oldest, ClosureFields DEF ClosurePast
<1> DEFINE id == IF m.id > latest[m.c] THEN m.id ELSE latest[m.c]
<1>2. latest' = [latest EXCEPT ![m.c] = id] /\ UNCHANGED <<known, marks, cache, guildUnread, hinted>> /\ badge' = Unread'
  BY DEF RunMessage, Derived, pushBadges
<1>3. id \in Nat /\ id <= read[m.c].last
  BY <1>1 DEF ReadTypes, NotAhead
<1> HIDE DEF id
<1>4. latest' \in [Channels -> Nat] /\ \A c \in Channels : latest'[c] <= read[c].last
  BY <1>1, <1>2, <1>3 DEF ReadTypes, NotAhead
<1>5. \A c \in Channels : m \notin Recomputes(c) /\ m \notin SetsMark(c)
  BY DEF Recomputes, SetsMark, Tells
<1>6. BadgePending'
  BY <1>2, BadgePushed
<1>7. /\ known' \in SUBSET Channels /\ marks' \in [Channels -> {Absent} \cup Mark] /\ cache' \in [Channels -> Statuses]
      /\ guildUnread' = Strongest({cache'[c] : c \in Channels})
  BY <1>1, <1>2 DEF ReadTypes, AggregateIsMax
<1>. QED BY <1>2, <1>4, <1>5, <1>6, <1>7, RanKept

LEMMA RefreshKept ==
  ASSUME ReadIInv, NEW m, queue # <<>>, m = Head(queue), queue' = Tail(queue), UNCHANGED <<read, alive, updates>>,
         m.kind = "refresh", UNCHANGED <<Local, Derived, active>>, pushBadges
  PROVE  ReadIInv'
<1>1. ReadTypes /\ NotAhead /\ AggregateIsMax
  BY Oldest
<1>2. UNCHANGED <<known, latest, marks, cache, guildUnread, hinted>> /\ badge' = Unread'
  BY DEF Local, Derived, pushBadges
<1>3. \A c \in Channels : m \notin Recomputes(c) /\ m \notin SetsMark(c) /\ latest'[c] <= read[c].last
  BY <1>1, <1>2 DEF Recomputes, SetsMark, Tells, NotAhead
<1>4. BadgePending'
  BY <1>2, BadgePushed
<1>5. /\ known' \in SUBSET Channels /\ marks' \in [Channels -> {Absent} \cup Mark] /\ cache' \in [Channels -> Statuses]
      /\ latest' \in [Channels -> Nat] /\ guildUnread' = Strongest({cache'[c] : c \in Channels})
  BY <1>1, <1>2 DEF ReadTypes, AggregateIsMax
<1>. QED BY <1>2, <1>3, <1>4, <1>5, RanKept

\* The channel's mark and cached status are those of the closure.
LEMMA RunUpdateKept ==
  ASSUME ReadIInv, NEW m, queue # <<>>, m = Head(queue), queue' = Tail(queue), UNCHANGED <<read, alive, updates>>,
         m.kind = "update", RunUpdate(m)
  PROVE  ReadIInv'
<1>1. ReadTypes /\ NotAhead /\ m \in Closures /\ m.c \in Channels /\ m.mark \in Mark /\ m.status \in Statuses
  BY Oldest, ClosureFields
<1>2. /\ marks' = [marks EXCEPT ![m.c] = m.mark] /\ cache' = [cache EXCEPT ![m.c] = m.status]
      /\ guildUnread' = Strongest({cache'[d] : d \in Channels})
      /\ hinted' = hinted \ {m.c} /\ UNCHANGED <<known, latest>> /\ badge' = Unread'
  BY DEF RunUpdate, cacheReadState, pushBadges
<1>3. /\ marks' \in [Channels -> {Absent} \cup Mark] /\ cache' \in [Channels -> Statuses]
      /\ marks'[m.c] = m.mark /\ cache'[m.c] = m.status
      /\ \A c \in Channels \ {m.c} : marks'[c] = marks[c] /\ cache'[c] = cache[c]
  BY <1>1, <1>2 DEF ReadTypes
<1>4. m \in Tells(m.c) /\ m \in SetsMark(m.c) /\ MarkIn(m, m.c) = m.mark
      /\ \A c \in Channels \ {m.c} : m \notin SetsMark(c) /\ m \notin Recomputes(c)
  BY <1>1 DEF Recomputes, SetsMark, Tells, MarkIn
<1>5. known' \in SUBSET Channels /\ latest' \in [Channels -> Nat] /\ \A c \in Channels : latest'[c] <= read[c].last
  BY <1>1, <1>2 DEF ReadTypes, NotAhead
<1>6. BadgePending'
  BY <1>2, BadgePushed
<1>7. \A c \in Channels : \/ m \in SetsMark(c) /\ marks'[c] = MarkIn(m, c)
                          \/ m \notin SetsMark(c) /\ marks'[c] = marks[c]
  BY <1>3, <1>4
<1>8. \A c \in Channels : \/ m \in Tells(c) /\ cache'[c] = m.status
                          \/ m \notin Recomputes(c) /\ cache'[c] = cache[c] /\ marks'[c] = marks[c] /\ (c \in hinted <=> c \in hinted')
  BY <1>2, <1>3, <1>4
<1>. QED BY <1>2, <1>3, <1>5, <1>6, <1>7, <1>8, RanKept

\* The marks of the channels that leave go, and their cached status.
LEMMA Removed ==
  ASSUME ReadTypes, NEW cs, removeCachedReadState(cs)
  PROVE  /\ marks' \in [Channels -> {Absent} \cup Mark] /\ cache' \in [Channels -> Statuses]
         /\ guildUnread' = Strongest({cache'[c] : c \in Channels})
         /\ \A c \in Channels \ cs : marks'[c] = marks[c] /\ cache'[c] = cache[c] /\ (c \in hinted <=> c \in hinted')
         /\ \A c \in Channels \cap cs : marks'[c] = Absent /\ cache'[c] = "read"
BY DEF removeCachedReadState, ReadTypes, Statuses

\* A deleted channel leaves the store, the marks and the cache.
LEMMA RunDeleteKept ==
  ASSUME ReadIInv, NEW m, queue # <<>>, m = Head(queue), queue' = Tail(queue), UNCHANGED <<read, alive, updates>>,
         m.kind = "delete", RunDelete(m)
  PROVE  ReadIInv'
<1>1. ReadTypes /\ NotAhead /\ m \in Closures /\ m.c \in Channels
  BY Oldest, ClosureFields
<1>2. /\ removeCachedReadState({m.c}) /\ known' = known \ {m.c} /\ badge' = Unread'
      /\ latest' = [c \in Channels |-> IF c \in {m.c} THEN 0 ELSE latest[c]]
  BY DEF RunDelete, RemoveChannels, pushBadges
<1>3. known' \in SUBSET Channels /\ latest' \in [Channels -> Nat] /\ \A c \in Channels : latest'[c] <= read[c].last
  BY <1>1, <1>2 DEF ReadTypes, NotAhead
<1>4. BadgePending'
  BY <1>2, BadgePushed
<1>5. \A c \in Channels : m \notin Recomputes(c) /\ m \notin SetsMark(c)
  BY DEF Recomputes, SetsMark, Tells
<1>6. /\ marks' \in [Channels -> {Absent} \cup Mark] /\ cache' \in [Channels -> Statuses]
      /\ guildUnread' = Strongest({cache'[c] : c \in Channels})
      /\ \A c \in Channels : \/ marks'[c] = marks[c] /\ cache'[c] = cache[c] /\ (c \in hinted <=> c \in hinted')
                             \/ marks'[c] = Absent /\ cache'[c] = "read"
  BY <1>1, <1>2, Removed
<1>. QED BY <1>3, <1>4, <1>5, <1>6, RanKept

LEMMA IngestedPast ==
  ASSUME ReadTypes, NotAhead, NEW m, m.last \in [Channels -> Nat], \A c \in Channels : m.last[c] <= read[c].last
  PROVE  Ingested(m) \in [Channels -> Nat] /\ \A c \in Channels : Ingested(m)[c] <= read[c].last
BY DEF Ingested, ReadTypes, NotAhead

\* Channels the guild no longer lists are pruned; the badge is pushed if one was not read.
LEMMA RunGuildKept ==
  ASSUME ReadIInv, NEW m, queue # <<>>, m = Head(queue), queue' = Tail(queue), UNCHANGED <<read, alive, updates>>,
         m.kind = "guild", RunGuild(m)
  PROVE  ReadIInv'
<1> DEFINE left == known \ m.channels
           changed == \E c \in left : cache[c] # "read"
<1>1. ReadTypes /\ NotAhead /\ AggregateIsMax /\ m \in Closures /\ m.channels \in SUBSET Channels
      /\ m.last \in [Channels -> Nat] /\ \A c \in Channels : m.last[c] <= read[c].last
  BY Oldest, ClosureFields DEF ClosurePast
<1>2. /\ removeCachedReadState(left) /\ known' = m.channels /\ unread' = unread \ left
      /\ latest' = [c \in Channels |-> IF c \in left THEN 0 ELSE Ingested(m)[c]]
      /\ IF changed THEN pushBadges ELSE UNCHANGED badge
  BY DEF RunGuild, ClearUnread
<1>3. known' \in SUBSET Channels /\ latest' \in [Channels -> Nat] /\ \A c \in Channels : latest'[c] <= read[c].last
  <2>1. Ingested(m) \in [Channels -> Nat] /\ \A c \in Channels : Ingested(m)[c] <= read[c].last /\ read[c].last \in Nat
    BY <1>1, IngestedPast DEF ReadTypes
  <2>. QED BY <1>1, <1>2, <2>1
<1>4. /\ marks' \in [Channels -> {Absent} \cup Mark] /\ cache' \in [Channels -> Statuses]
      /\ guildUnread' = Strongest({cache'[c] : c \in Channels})
      /\ \A c \in Channels \ left : marks'[c] = marks[c] /\ cache'[c] = cache[c] /\ (c \in hinted <=> c \in hinted')
      /\ \A c \in Channels \cap left : marks'[c] = Absent /\ cache'[c] = "read"
  BY <1>1, <1>2, Removed
<1>5. \A c \in Channels : m \notin Recomputes(c) /\ m \notin SetsMark(c)
  BY DEF Recomputes, SetsMark, Tells
<1>6. BadgePending'
  <2>1. CASE changed
    BY <1>2, <2>1, BadgePushed DEF pushBadges
  <2>2. CASE ~changed
    <3>1. cache' = cache
      BY <1>1, <1>4, <2>2 DEF ReadTypes
    <3>2. guildUnread' = guildUnread /\ badge' = badge /\ unread' \subseteq unread
      BY <1>1, <1>2, <1>4, <2>2, <3>1 DEF AggregateIsMax
    <3>3. m \notin Pushes
      BY DEF Pushes
    <3>4. updates' = <<>> /\ Avoids(queue', Pushes) => BadgeCurrent
      BY <3>3, Oldest DEF ReadIInv, BadgePending
    <3>5. TotalMentionCount' = TotalMentionCount
      BY DEF TotalMentionCount, Mentions
    <3>6. BadgeCurrent => BadgeCurrent'
      BY <3>2, <3>5 DEF BadgeCurrent, Unread
    <3>. QED BY <3>4, <3>6, SetsConstant DEF BadgePending
  <2>. QED BY <2>1, <2>2
<1> HIDE DEF left, changed
<1>7. \A c \in Channels : \/ marks'[c] = marks[c] /\ cache'[c] = cache[c] /\ (c \in hinted <=> c \in hinted')
                          \/ marks'[c] = Absent /\ cache'[c] = "read"
  BY <1>4
<1>. QED BY <1>3, <1>4, <1>5, <1>6, <1>7, RanKept

\* The cache computed anew says the truth of every channel with a mark of now.
LEMMA Reset ==
  ASSUME ReadTypes, NEW ms \in [Channels -> {Absent} \cup Mark], NEW chans, NEW last \in [Channels -> Nat],
         \A c \in Channels : last[c] <= read[c].last, resetReadStateCache(ms, chans, last)
  PROVE  /\ cache' \in [Channels -> Statuses] /\ guildUnread' = Strongest({cache'[c] : c \in Channels})
         /\ \A c \in Channels : ms[c] = MarkOf(c) => cache'[c] \in {"read", Truth(c)}
<1> DEFINE s(c) == localReadState(c, ms, chans, last)
<1>1. /\ \A c \in Channels : cache'[c] = IF c \in chans THEN IF s(c) = Absent THEN counted(c) ELSE s(c) ELSE "read"
      /\ guildUnread' = Strongest({cache'[c] : c \in Channels}) /\ DOMAIN cache' = Channels
      /\ cache' = [c \in Channels |-> cache'[c]]
  BY DEF resetReadStateCache
<1>2. Absent \notin Statuses /\ "read" \in Statuses
  BY ReadAssumption DEF Statuses
<1>3. \A c : counted(c) \in Statuses
  BY DEF counted, Statuses
<1>4. ASSUME NEW c \in Channels PROVE s(c) \in Statuses \cup {Absent}
  <2> DEFINE late == ~read[c].muted /\ c \in chans /\ ms[c].lastRead < last[c]
  <2>1. CASE ms[c] = Absent
    <3>1. localReadState(c, ms, chans, last) =
            CASE ms[c] = Absent -> Absent [] ms[c] # Absent /\ ms[c].mentions > 0 -> "mentioned"
              [] ms[c] # Absent /\ ms[c].mentions = 0 /\ late -> "unread" [] OTHER -> "read"
      BY DEF localReadState
    <3> HIDE DEF late
    <3>. QED BY <2>1, <3>1
  <2>2. CASE ms[c] # Absent
    <3>1. ms[c].mentions \in Nat
      BY <2>2 DEF Mark
    <3>2. localReadState(c, ms, chans, last) =
            CASE ms[c].mentions > 0 -> "mentioned" [] ms[c].mentions = 0 /\ late -> "unread" [] OTHER -> "read"
      BY <2>2 DEF localReadState
    <3> HIDE DEF late
    <3>. QED BY <3>1, <3>2 DEF Statuses
  <2>. QED BY <2>1, <2>2
<1>5. ASSUME NEW c \in Channels, ms[c] = MarkOf(c) PROVE s(c) \in {"read", Truth(c)} /\ Truth(c) \in Statuses
  <2>1. s(c) \in {"read", Truth(c)}
    BY <1>5, LocalTrue
  <2>2. read \in [Channels -> Reads]
    BY DEF ReadTypes, Reads
  <2>. QED BY <2>1, <2>2, TruthIs
<1> HIDE DEF s
<1>6. \A c \in Channels : cache'[c] \in Statuses
  BY <1>1, <1>2, <1>3, <1>4
<1>7. \A c \in Channels : ms[c] = MarkOf(c) => cache'[c] \in {"read", Truth(c)}
  BY <1>1, <1>2, <1>5
<1>. QED BY <1>1, <1>6, <1>7

\* Every status is derived again from the marks there are,
LEMMA RunSettingsKept ==
  ASSUME ReadIInv, NEW m, queue # <<>>, m = Head(queue), queue' = Tail(queue), UNCHANGED <<read, alive, updates>>,
         m.kind = "settings", RunSettings
  PROVE  ReadIInv'
<1>1. ReadTypes /\ NotAhead
  BY Oldest
<1>2. resetReadStateCache(marks, known, latest) /\ UNCHANGED <<known, latest, marks>> /\ badge' = Unread'
  BY DEF RunSettings, pushBadges
<1>3. /\ known' \in SUBSET Channels /\ latest' \in [Channels -> Nat] /\ marks' \in [Channels -> {Absent} \cup Mark]
      /\ \A c \in Channels : latest'[c] <= read[c].last
  BY <1>1, <1>2 DEF ReadTypes, NotAhead
<1>4. /\ cache' \in [Channels -> Statuses] /\ guildUnread' = Strongest({cache'[c] : c \in Channels})
      /\ \A c \in Channels : marks'[c] = MarkOf(c) => cache'[c] \in {"read", Truth(c)}
  BY <1>1, <1>2, <1>3, Reset
<1>5. \A c \in Channels : m \notin SetsMark(c) /\ marks'[c] = marks[c]
  BY <1>2 DEF SetsMark, Tells
<1>6. BadgePending'
  BY <1>2, BadgePushed
<1>. QED BY <1>3, <1>4, <1>5, <1>6, RanKept

\* or from the marks of READY.
LEMMA RunReadyKept ==
  ASSUME ReadIInv, NEW m, queue # <<>>, m = Head(queue), queue' = Tail(queue), UNCHANGED <<read, alive, updates>>,
         m.kind = "ready", RunReady(m)
  PROVE  ReadIInv'
<1>1. ReadTypes /\ NotAhead /\ m \in Closures /\ m.channels \in SUBSET Channels /\ m.marks \in [Channels -> Mark]
      /\ m.last \in [Channels -> Nat] /\ \A c \in Channels : m.last[c] <= read[c].last
  BY Oldest, ClosureFields DEF ClosurePast
<1>2. /\ resetReadStateCache(m.marks, known \cup m.channels, Ingested(m)) /\ known' = known \cup m.channels
      /\ latest' = Ingested(m) /\ marks' = m.marks /\ badge' = Unread'
  BY DEF RunReady, pushBadges
<1>3. Ingested(m) \in [Channels -> Nat] /\ \A c \in Channels : Ingested(m)[c] <= read[c].last
  BY <1>1, IngestedPast
<1>4. m.marks \in [Channels -> {Absent} \cup Mark] /\ known' \in SUBSET Channels
  BY <1>1, <1>2 DEF ReadTypes
<1>5. /\ cache' \in [Channels -> Statuses] /\ guildUnread' = Strongest({cache'[c] : c \in Channels})
      /\ \A c \in Channels : marks'[c] = MarkOf(c) => cache'[c] \in {"read", Truth(c)}
  BY <1>1, <1>2, <1>3, <1>4, Reset
<1>6. \A c \in Channels : m \in SetsMark(c) /\ marks'[c] = MarkIn(m, c)
  BY <1>1, <1>2 DEF SetsMark, MarkIn
<1>7. BadgePending'
  BY <1>2, BadgePushed
<1>. QED BY <1>2, <1>3, <1>4, <1>5, <1>6, <1>7, RanKept

LEMMA RunKept ==
  ASSUME ReadIInv, Run
  PROVE  ReadIInv'
<1> DEFINE m == Head(queue)
<1>1. queue # <<>> /\ queue' = Tail(queue) /\ UNCHANGED <<read, alive, updates>>
  BY DEF Run, Discord
<1>2. CASE m.kind = "message" /\ RunMessage(m)
  BY <1>1, <1>2, MessageKept
<1>3. CASE m.kind = "update" /\ RunUpdate(m)
  BY <1>1, <1>3, RunUpdateKept
<1>4. CASE m.kind = "settings" /\ RunSettings
  BY <1>1, <1>4, RunSettingsKept
<1>5. CASE m.kind = "ready" /\ RunReady(m)
  BY <1>1, <1>5, RunReadyKept
<1>6. CASE m.kind = "guild" /\ RunGuild(m)
  BY <1>1, <1>6, RunGuildKept
<1>7. CASE m.kind = "delete" /\ RunDelete(m)
  BY <1>1, <1>7, RunDeleteKept
<1>8. CASE m.kind = "refresh" /\ UNCHANGED <<Local, Derived, active>> /\ pushBadges
  BY <1>1, <1>8, RefreshKept
<1>. QED BY <1>2, <1>3, <1>4, <1>5, <1>6, <1>7, <1>8 DEF Run

\* Only local counters go.
LEMMA StillKept ==
  ASSUME ReadIInv, UNCHANGED <<read, alive, updates, queue, known, latest, marks, cache, guildUnread, hinted, badge>>,
         unread' \subseteq unread
  PROVE  ReadIInv'
<1>2. BadgePending'
  <2>1. TotalMentionCount' = TotalMentionCount
    BY DEF TotalMentionCount, Mentions
  <2>2. BadgeCurrent => BadgeCurrent'
    BY <2>1 DEF BadgeCurrent, Unread
  <2>. QED BY <2>2, SetsConstant DEF ReadIInv, BadgePending
<1>3. ReadTypes' /\ NotAhead' /\ AggregateIsMax'
  BY DEF ReadIInv, ReadTypes, NotAhead, AggregateIsMax, NewsAhead, Ahead, ClosurePast
<1>4. ASSUME NEW d \in Channels PROVE NewsTrue(d)' /\ StatusTrue(d)'
  <2>1. /\ TrueNews(d)' = TrueNews(d) /\ Carries(d)' = Carries(d) /\ Truthful(d)' = Truthful(d)
        /\ MarkOf(d)' = MarkOf(d) /\ Truth(d)' = Truth(d)
    BY DEF TrueNews, Carries, Truthful, MarkIn, MarkOf, Truth
  <2>2. NewsTrue(d) /\ StatusTrue(d)
    BY DEF ReadIInv
  <2>. QED BY <2>1, <2>2, SetsConstant DEF NewsTrue, StatusTrue
<1>. QED BY <1>2, <1>3, <1>4 DEF ReadIInv

LEMMA ActiveKept ==
  ASSUME ReadIInv, NEW c \in Channels, SetActive(c)
  PROVE  ReadIInv'
<1>1. UNCHANGED <<read, alive, updates, queue, known, latest, marks, cache, guildUnread, hinted, badge>> /\ unread' \subseteq unread
  BY DEF SetActive, ClearUnread, Discord, Derived
<1>. QED BY <1>1, StillKept

\* Nothing known of a channel is ahead of Discord: what is acknowledged is its last message.
LEMMA AcknowledgedLast ==
  ASSUME ReadTypes, NotAhead, NEW c \in Channels, NEW m \in 0..latest[c]
  PROVE  Acknowledged(c, m) = read[c].last
<1> DEFINE S == {m, latest[c], read[c].last} \cup {marks[d].lastRead : d \in {d \in {c} : marks[d] # Absent}}
<1>1. /\ read[c].last \in Nat /\ latest[c] \in Nat /\ latest[c] <= read[c].last /\ m \in Nat /\ m <= latest[c]
      /\ marks[c] # Absent => marks[c].lastRead \in Nat /\ marks[c].lastRead <= read[c].last
  BY DEF ReadTypes, NotAhead, Mark
<1>2. read[c].last \in S /\ \A x \in S : x \in Nat /\ x <= read[c].last
  BY <1>1
<1>3. Acknowledged(c, m) = CHOOSE x \in S : \A y \in S : x >= y
  BY Zenon DEF Acknowledged, Max
<1> HIDE DEF S
<1>4. read[c].last >= read[c].last /\ \A y \in S : read[c].last >= y
  BY <1>1, <1>2
<1>5. Acknowledged(c, m) \in S /\ \A y \in S : Acknowledged(c, m) >= y
  BY <1>2, <1>3, <1>4
<1>. QED BY <1>1, <1>2, <1>5

LEMMA MarkReadKept ==
  ASSUME ReadIInv, NEW c \in Channels, NEW m, MarkRead(c, m)
  PROVE  ReadIInv'
<1>1. ReadTypes /\ NotAhead /\ read[c] \in Reads
  BY DEF ReadIInv, ReadTypes, Reads
<1> DEFINE ack == Acknowledged(c, m)
<1>2. /\ read' = [read EXCEPT ![c].read = ack, ![c].mentions = 0] /\ m \in 0..latest[c]
      /\ updates' = Append(updates, Update(c)') /\ UNCHANGED <<alive, queue, known, latest, Derived>>
  BY DEF MarkRead, Notify
<1>3. ack = read[c].last /\ read[c].last \in Nat
  BY <1>1, <1>2, AcknowledgedLast DEF Reads
<1> HIDE DEF ack
<1>4. /\ read' \in [Channels -> Reads] /\ \A d \in Channels \ {c} : read'[d] = read[d]
      /\ read'[c].last = read[c].last /\ read'[c].read = ack
  BY <1>1, <1>2, <1>3 DEF ReadTypes, Reads
<1>. QED BY <1>2, <1>3, <1>4, NotifyKept

-----------------------------------------------------------------------------
(* The theorems.                                                           *)

\* The program starts with nothing read and nothing unread.
LEMMA InitRead == ReadInit => ReadIInv
<1> SUFFICES ASSUME ReadInit PROVE ReadIInv
  OBVIOUS
<1>1. ReadTypes
  BY DEF ReadInit, ReadTypes, Statuses
<1>2. NotAhead
  BY DEF ReadInit, NotAhead, Avoids
<1>3. ASSUME NEW c \in Channels PROVE NewsTrue(c) /\ StatusTrue(c)
  BY DEF ReadInit, NewsTrue, StatusTrue, Ends, Avoids
<1>4. AggregateIsMax
  BY DEF ReadInit, AggregateIsMax, Strongest
<1>5. BadgePending
  BY DEF ReadInit, BadgePending, BadgeCurrent
<1>. QED BY <1>1, <1>2, <1>3, <1>4, <1>5 DEF ReadIInv

LEMMA ReadStep == ReadIInv /\ [ReadNext]_readVars => ReadIInv'
<1> SUFFICES ASSUME ReadIInv, [ReadNext]_readVars PROVE ReadIInv'
  OBVIOUS
<1>1. ASSUME NEW c \in Channels, NEW ping \in BOOLEAN, handleMessageCreate(c, ping) PROVE ReadIInv'
  BY <1>1, CreateKept
<1>2. ASSUME NEW c \in Channels, NEW m, RemoteAck(c, m) PROVE ReadIInv'
  BY <1>2, AckKept
<1>3. ASSUME NEW c \in Channels, NEW m, MarkRead(c, m) PROVE ReadIInv'
  BY <1>3, MarkReadKept
<1>4. ASSUME NEW c \in Channels, handleGuildSettingsUpdate(c) PROVE ReadIInv'
  BY <1>4, SettingsKept
<1>5. ASSUME NEW c \in Channels, handleChannelDelete(c) PROVE ReadIInv'
  BY <1>5, DeleteKept
<1>6. ASSUME NEW c \in Channels, handleChannelUnreadUpdate(c) PROVE ReadIInv'
  BY <1>6, BulkKept
<1>7. ASSUME NEW c \in Channels, SetActive(c) PROVE ReadIInv'
  BY <1>7, ActiveKept
<1>8. CASE handleReadStateUpdate
  BY <1>8, UpdateKept
<1>9. CASE handleReady
  BY <1>9, ReadyKept
<1>10. CASE handleGuildCreate
  BY <1>10, GuildKept
<1>11. CASE Run
  BY <1>11, RunKept
<1>12. CASE UNCHANGED readVars
  <2>1. /\ UNCHANGED <<read, alive, updates, queue, known, latest, marks, cache, guildUnread, hinted, badge>>
        /\ unread' \subseteq unread
    BY <1>12 DEF readVars, Discord, Local, Derived
  <2>. QED BY <2>1, StillKept
<1>. QED BY <1>1, <1>2, <1>3, <1>4, <1>5, <1>6, <1>7, <1>8, <1>9, <1>10, <1>11, <1>12 DEF ReadNext

\* The last news of every channel is the truth, the guild's aggregate is that of the
\* cache and the badge is current or about to be pushed: for any channels, any number
\* of messages and queues of any length.
THEOREM ReadInvariance == ReadSpec => []ReadIInv
<1>1. ReadInit => ReadIInv
  BY InitRead
<1>2. ReadIInv /\ [ReadNext]_readVars => ReadIInv'
  BY ReadStep
<1>. QED BY <1>1, <1>2, PTL DEF ReadSpec

\* Nothing is on its way: the marks are Discord's, and so is what is shown.
LEMMA SettledTrue == ReadIInv => SettledStatus /\ BadgeFollows
<1> SUFFICES ASSUME ReadIInv PROVE SettledStatus /\ BadgeFollows
  OBVIOUS
<1>1. ReadTypes /\ NotAhead /\ read \in [Channels -> Reads]
  BY DEF ReadIInv, ReadTypes, Reads
<1>2. \A S : Avoids(<<>>, S)
  BY DEF Avoids
<1>3. BadgeFollows
  BY <1>2 DEF ReadIInv, BadgePending, BadgeFollows, Settled
<1>4. ASSUME Settled, NEW c \in known \ hinted, latest[c] = read[c].last, marks[c] # Absent
      PROVE  channelUnread(c) = Truth(c)
  <2>1. c \in Channels /\ updates = <<>> /\ queue = <<>>
    BY <1>1, <1>4 DEF ReadTypes, Settled
  <2>2. marks[c] = MarkOf(c) /\ cache[c] \in {"read", Truth(c)}
    BY <1>2, <1>4, <2>1 DEF ReadIInv, NewsTrue, StatusTrue
  <2>3. localReadState(c, marks, known, latest) = Truth(c)
    BY <1>1, <1>4, <2>1, <2>2, LocalExact
  <2>4. Truth(c) # Absent
    BY <1>1, <2>1, TruthIs, ReadAssumption DEF Statuses
  <2>. QED BY <1>4, <2>2, <2>3, <2>4 DEF channelUnread
<1>. QED BY <1>3, <1>4 DEF SettledStatus

\* No step takes a read position back.
LEMMA ReadOn == ReadIInv /\ [ReadNext]_readVars => \A c \in Channels : read'[c].read >= read[c].read
<1> SUFFICES ASSUME ReadIInv, [ReadNext]_readVars PROVE \A c \in Channels : read'[c].read >= read[c].read
  OBVIOUS
<1>1. ReadTypes /\ NotAhead /\ read \in [Channels -> Reads]
  BY DEF ReadIInv, ReadTypes, Reads
<1>2. \A d \in Channels : read[d].read \in Nat /\ read[d].last \in Nat /\ read[d].read <= read[d].last /\ read[d].read >= read[d].read
  BY <1>1 DEF Reads, NotAhead
<1>3. ASSUME NEW c \in Channels, NEW r, \A d \in Channels \ {c} : read'[d].read = read[d].read,
             read'[c].read = r, r \in Nat, r >= read[c].read
      PROVE  \A d \in Channels : read'[d].read >= read[d].read
  BY <1>2, <1>3
<1>4. CASE read' = read
  BY <1>2, <1>4
<1>5. ASSUME NEW c \in Channels, NEW ping \in BOOLEAN, handleMessageCreate(c, ping)
      PROVE  \A d \in Channels : read'[d].read = read[d].read
  <2> DEFINE last == read[c].last + 1
             mentions == read[c].mentions + (IF ping THEN 1 ELSE 0)
  <2>1. read' = [read EXCEPT ![c].last = last, ![c].mentions = mentions]
    BY <1>5 DEF handleMessageCreate
  <2> HIDE DEF last, mentions
  <2>. QED BY <1>1, <2>1 DEF Reads
<1>6. ASSUME NEW c \in Channels, handleGuildSettingsUpdate(c) PROVE \A d \in Channels : read'[d].read = read[d].read
  <2> DEFINE muted == ~read[c].muted
  <2>1. read' = [read EXCEPT ![c].muted = muted]
    BY <1>6 DEF handleGuildSettingsUpdate
  <2> HIDE DEF muted
  <2>. QED BY <1>1, <2>1 DEF Reads
<1>7. ASSUME NEW c \in Channels, handleChannelUnreadUpdate(c) PROVE \A d \in Channels : read'[d].read = read[d].read
  <2> DEFINE last == read[c].last + 1
  <2>1. read' = [read EXCEPT ![c].last = last]
    BY <1>7 DEF handleChannelUnreadUpdate
  <2> HIDE DEF last
  <2>. QED BY <1>1, <2>1 DEF Reads
<1>8. ASSUME NEW c \in Channels, NEW m, RemoteAck(c, m) PROVE \A d \in Channels : read'[d].read >= read[d].read
  <2>1. read' = [read EXCEPT ![c].read = m, ![c].mentions = 0] /\ m \in (read[c].read + 1)..read[c].last
    BY <1>8 DEF RemoteAck
  <2>2. read'[c].read = m /\ \A d \in Channels \ {c} : read'[d].read = read[d].read
    BY <1>1, <2>1 DEF Reads
  <2>3. m \in Nat /\ m >= read[c].read
    BY <1>2, <2>1
  <2>. QED BY <1>3, <2>2, <2>3
<1>9. ASSUME NEW c \in Channels, NEW m, MarkRead(c, m) PROVE \A d \in Channels : read'[d].read >= read[d].read
  <2> DEFINE ack == Acknowledged(c, m)
  <2>1. read' = [read EXCEPT ![c].read = ack, ![c].mentions = 0] /\ m \in 0..latest[c]
    BY <1>9 DEF MarkRead
  <2>2. ack = read[c].last
    BY <1>1, <2>1, AcknowledgedLast
  <2> HIDE DEF ack
  <2>3. read'[c].read = ack /\ \A d \in Channels \ {c} : read'[d].read = read[d].read
    BY <1>1, <2>1 DEF Reads
  <2>. QED BY <1>2, <1>3, <2>2, <2>3
<1>10. ASSUME handleReady PROVE \A d \in Channels : read'[d].read >= read[d].read
  <2>1. PICK c \in alive, l \in 0..MaxMsg, r \in 0..MaxMsg :
          /\ read[c].read <= r
          /\ read' = [read EXCEPT ![c].last = l, ![c].read = r, ![c].mentions = IF r > read[c].read THEN 0 ELSE @]
    BY <1>10 DEF handleReady
  <2> DEFINE mentions == IF r > read[c].read THEN 0 ELSE read[c].mentions
  <2>2. read' = [read EXCEPT ![c].last = l, ![c].read = r, ![c].mentions = mentions]
    BY <2>1
  <2> HIDE DEF mentions
  <2>3. c \in Channels /\ r \in Nat /\ r >= read[c].read
    BY <1>1, <1>2, <2>1, ReadAssumption DEF ReadTypes
  <2>4. read'[c].read = r /\ \A d \in Channels \ {c} : read'[d].read = read[d].read
    BY <1>1, <2>2, <2>3 DEF Reads
  <2>. QED BY <1>3, <2>3, <2>4
<1>11. CASE \E c \in Channels : handleChannelDelete(c) \/ SetActive(c)
  BY <1>4, <1>11 DEF handleChannelDelete, SetActive, Discord
<1>12. CASE handleReadStateUpdate \/ handleGuildCreate \/ Run \/ UNCHANGED readVars
  BY <1>4, <1>12 DEF handleReadStateUpdate, handleGuildCreate, Run, Discord, readVars
<1>. QED BY <1>2, <1>5, <1>6, <1>7, <1>8, <1>9, <1>10, <1>11, <1>12 DEF ReadNext

\* The four copies of the read state agree once everything has been handled, and no
\* read position goes back (ReadFollows).
THEOREM StatusFollows == ReadSpec => ReadFollows
<1>1. ReadIInv => AggregateIsMax /\ SettledStatus /\ BadgeFollows
  BY SettledTrue DEF ReadIInv
<1>2. ReadIInv /\ [ReadNext]_readVars => [\A c \in Channels : read'[c].read >= read[c].read]_readVars
  BY ReadOn
<1>. QED BY <1>1, <1>2, ReadInvariance, PTL DEF ReadSpec, ReadFollows, AckMonotone

(***************************************************************************)
(* Directory: a snapshot is installed only if nothing it may tell of has   *)
(* changed since it was asked for, and every removal changes a generation. *)
(***************************************************************************)

Entries == [Things -> [known: BOOLEAN, gen: Nat]]

GateType == [loaded: BOOLEAN, pending: BOOLEAN, version: Nat]

Owners == {p \in Pulls : InFlight(p) /\ pulls[p].ver = gate.version}

\* A finite set has one element or none.
LEMMA CountIs ==
  ASSUME NEW S, IsFiniteSet(S), NEW b \in BOOLEAN
  PROVE  (Cardinality(S) = IF b THEN 1 ELSE 0) <=> (b => S # {}) /\ \A x, y \in S : x = y /\ b
<1>1. CASE b
  <2>1. ASSUME NEW x, S = {x} PROVE S # {} /\ \A y, z \in S : y = z
    BY <2>1
  <2>2. ASSUME S # {}, \A y, z \in S : y = z PROVE \E x : S = {x}
    <3>1. PICK x \in S : TRUE
      BY <2>2
    <3>2. S = {x}
      BY <2>2, <3>1
    <3>. QED BY <3>2
  <2>. QED BY <1>1, <2>1, <2>2, FS_Singleton
<1>2. CASE ~ b
  BY <1>2, FS_EmptySet
<1>. QED BY <1>1, <1>2

\* PullOwnsGate without its count.
LEMMA OwnedNow ==
  ASSUME DirTypes, PullOwnsGate
  PROVE  (gate.pending => Owners # {}) /\ \A p, q \in Owners : p = q /\ gate.pending
<1>1. IsFiniteSet(Owners)
  BY FS_Subset, DirectoryAssumption DEF Owners
<1>2. gate.pending \in BOOLEAN /\ Cardinality(Owners) = IF gate.pending THEN 1 ELSE 0
  BY DEF DirTypes, PullOwnsGate, Owners
<1>. HIDE DEF Owners
<1>. QED BY <1>1, <1>2, CountIs

\* And of the next state.
LEMMA OwnedNext ==
  ASSUME DirTypes', gate'.pending => Owners' # {}, \A p, q \in Owners' : p = q /\ gate'.pending
  PROVE  PullOwnsGate'
<1>1. IsFiniteSet(Owners')
  BY FS_Subset, DirectoryAssumption DEF Owners
<1>2. gate'.pending \in BOOLEAN
  BY DEF DirTypes
<1>3. Cardinality(Owners') = IF gate'.pending THEN 1 ELSE 0
  <2> HIDE DEF Owners
  <2>. QED BY <1>1, <1>2, CountIs
<1>. QED BY <1>3 DEF PullOwnsGate, Owners

\* What ingesting does to an entry.
LEMMA UpsertedIs ==
  ASSUME NEW d \in Entries, NEW things
  PROVE  /\ Upserted(d, things) \in Entries
         /\ \A x \in Things : /\ Upserted(d, things)[x].gen >= d[x].gen
                              /\ Upserted(d, things)[x] = d[x] \/ ~ d[x].known
BY DEF Upserted, Entries

\* What removing channels does to an entry.
LEMMA ChannelsRemovedIs ==
  ASSUME NEW d \in Entries, NEW cs
  PROVE  /\ ChannelsRemoved(d, cs) \in Entries
         /\ \A x \in Things :
              LET after == ChannelsRemoved(d, cs)[x] IN
              /\ after.gen >= d[x].gen /\ (x \in cs => after.gen > d[x].gen)
              /\ x \in cs \/ after = d[x] \/ ~ d[x].known
                   \/ (x \in UNION {ThreadsOf(c) : c \in cs} /\ d[x].known)
<1>1. ASSUME NEW e \in [known: BOOLEAN, gen: Nat]
      PROVE  Forgotten(e) \in [known: BOOLEAN, gen: Nat] /\ Forgotten(e).gen > e.gen
  BY DEF Forgotten
<1>. DEFINE threads == UNION {ThreadsOf(c) : c \in cs}
<1>2. ChannelsRemoved(d, cs)
        = [x \in Things |-> IF x \in cs \/ (x \in threads /\ d[x].known) THEN Forgotten(d[x]) ELSE d[x]]
  BY DEF ChannelsRemoved
<1>. HIDE DEF threads
<1>3. ASSUME NEW x \in Things
      PROVE  LET after == ChannelsRemoved(d, cs)[x] IN
             /\ after \in [known: BOOLEAN, gen: Nat]
             /\ after.gen >= d[x].gen /\ (x \in cs => after.gen > d[x].gen)
             /\ x \in cs \/ after = d[x] \/ (x \in threads /\ d[x].known)
  <2>1. d[x] \in [known: BOOLEAN, gen: Nat]
    BY DEF Entries
  <2>2. d[x].gen \in Nat /\ Forgotten(d[x]).gen \in Nat
    BY <2>1, <1>1
  <2>. QED BY <1>1, <1>2, <2>1, <2>2
<1>4. ChannelsRemoved(d, cs) \in Entries
  BY <1>2, <1>3 DEF Entries
<1>. QED BY <1>3, <1>4 DEF threads

\* What removing a guild does to an entry.
LEMMA GuildRemovedIs ==
  ASSUME NEW d \in Entries, NEW g
  PROVE  /\ GuildRemoved(d, g) \in Entries
         /\ \A x \in Things :
              LET after == GuildRemoved(d, g)[x] IN
              /\ after.gen >= d[x].gen /\ (x = g => after.gen > d[x].gen)
              /\ x = g \/ after = d[x] \/ (x \in ChannelsOf(g) /\ d[x].known)
<1>1. ASSUME NEW e \in [known: BOOLEAN, gen: Nat]
      PROVE  Forgotten(e) \in [known: BOOLEAN, gen: Nat] /\ Forgotten(e).gen > e.gen
  BY DEF Forgotten
<1>3. ASSUME NEW x \in Things
      PROVE  LET after == GuildRemoved(d, g)[x] IN
             /\ after \in [known: BOOLEAN, gen: Nat]
             /\ after.gen >= d[x].gen /\ (x = g => after.gen > d[x].gen)
             /\ x = g \/ after = d[x] \/ (x \in ChannelsOf(g) /\ d[x].known)
  <2>1. d[x] \in [known: BOOLEAN, gen: Nat]
    BY DEF Entries
  <2>2. d[x].gen \in Nat /\ Forgotten(d[x]).gen \in Nat
    BY <2>1, <1>1
  <2>3. GuildRemoved(d, g)[x] = IF x = g \/ (x \in ChannelsOf(g) /\ d[x].known) THEN Forgotten(d[x]) ELSE d[x]
    BY DEF GuildRemoved
  <2>. QED BY <1>1, <2>1, <2>2, <2>3
<1>4. GuildRemoved(d, g) \in Entries
  BY <1>3 DEF Entries, GuildRemoved
<1>. QED BY <1>3, <1>4

\* The gates of cs are given up, and with any of them the directory's; the threads
\* `cut' are removed without.
GatesMove(cs, cut) ==
  /\ hist' \in [DirChannels -> GateType] /\ gate' \in GateType
  /\ \A c \in cs : ~ hist'[c].pending
  /\ \A c \in DirChannels \ cs : hist'[c] = hist[c]
  /\ gate' = gate \/ (gate'.version > gate.version /\ ~ gate'.pending)
  /\ severed' = (severed \ cs) \cup cut

\* invalidateChannelLoads gives up the gates it is told to.
LEMMA InvalidateMoves ==
  ASSUME DirTypes, NEW cs \in SUBSET DirChannels, NEW more \in Nat, NEW cut,
         InvalidateChannels(cs, more, cut)
  PROVE  GatesMove(cs, cut)
<1>1. IsFiniteSet(cs) /\ Cardinality(cs) \in Nat
  BY FS_Subset, FS_CardinalityType, DirectoryAssumption
<1>. DEFINE n == Cardinality(cs) + more
<1>2. n \in Nat
  BY <1>1
<1>3. gate' = IF n = 0 THEN gate ELSE Invalidated(gate, n)
  BY DEF InvalidateChannels
<1>. HIDE DEF n
<1>4. /\ gate' \in GateType
      /\ gate' = gate \/ (gate'.version > gate.version /\ ~ gate'.pending)
  <2>1. gate \in GateType
    BY DEF DirTypes, GateType
  <2>2. Invalidated(gate, n) \in GateType /\ ~ Invalidated(gate, n).pending
    BY <1>2, <2>1 DEF Invalidated, GateType
  <2>3. n # 0 => Invalidated(gate, n).version > gate.version
    BY <1>2, <2>1 DEF Invalidated, GateType
  <2>. QED BY <1>3, <2>1, <2>2, <2>3
<1>5. ASSUME NEW c \in DirChannels
      PROVE  hist'[c] \in GateType /\ (c \in cs => ~ hist'[c].pending) /\ (c \notin cs => hist'[c] = hist[c])
  <2>1. hist[c] \in GateType
    BY DEF DirTypes, GateType
  <2>2. Invalidated(hist[c], 1) \in GateType /\ ~ Invalidated(hist[c], 1).pending
    BY <2>1 DEF Invalidated, GateType
  <2>. QED BY <2>1, <2>2 DEF InvalidateChannels
<1>6. hist' \in [DirChannels -> GateType]
  BY <1>5 DEF InvalidateChannels
<1>. QED BY <1>4, <1>5, <1>6 DEF GatesMove, InvalidateChannels

\* A handler that keeps the gates gives up none.
LEMMA KeptMoves ==
  ASSUME DirTypes, KeepGates
  PROVE  GatesMove({}, {})
BY DEF GatesMove, KeepGates, DirTypes, GateType

\* A handler of the gateway keeps the invariant if it gives up the gates of what it removes,
\* except the threads it cuts, and counts what it removes.
LEMMA GatewayKeeps ==
  ASSUME DirInv, NEW cs \in SUBSET DirChannels, NEW cut, GatesMove(cs, cut),
         dir' \in Entries, wire' \in Seq(Event), UNCHANGED <<loads, pulls, live>>,
         removed' \subseteq Guilds \cup DirChannels, removed' \cap live = {},
         \A x \in Things : dir'[x].gen >= dir[x].gen,
         \A c \in DirChannels \ cs : c \in cut \/ dir'[c] = dir[c] \/ ~ dir[c].known,
         \A x \in removed' \ removed : x \in Guilds \cup ChannelsOf(DM) => dir'[x].gen > dir[x].gen
  PROVE  DirInv'
<1>1. DirTypes'
  BY DEF DirTypes, DirInv, GatesMove, Entries, GateType
<1>2. \A p \in Pulls : InFlight(p) => pulls[p] \in Pull
  BY DEF DirInv, DirTypes, InFlight, Idle
<1>3. \A x \in Things : dir[x].gen \in Nat /\ dir'[x].gen \in Nat
  BY DEF DirInv, DirTypes, Entries
<1>4. gate.version \in Nat /\ gate'.version \in Nat /\ gate'.version >= gate.version
  BY DEF DirInv, DirTypes, GatesMove, GateType
<1>5. PullsPast'
  <2> SUFFICES ASSUME NEW p \in Pulls, InFlight(p)'
               PROVE  pulls'[p].ver <= gate'.version /\ \A x \in Things : pulls'[p].seen[x] <= dir'[x].gen
    BY DEF PullsPast
  <2>1. InFlight(p) /\ pulls'[p] = pulls[p]
    BY DEF InFlight
  <2>2. pulls[p].ver \in Nat /\ \A x \in Things : pulls[p].seen[x] \in Nat
    BY <1>2, <2>1 DEF Pull
  <2>3. pulls[p].ver <= gate.version /\ \A x \in Things : pulls[p].seen[x] <= dir[x].gen
    BY <2>1 DEF DirInv, PullsPast
  <2>4. ASSUME NEW x \in Things PROVE pulls[p].seen[x] <= dir'[x].gen
    BY <1>3, <2>2, <2>3
  <2>. QED BY <1>4, <2>1, <2>2, <2>3, <2>4
<1>6. RemovalsSeen'
  <2> SUFFICES ASSUME NEW p \in Pulls, InFlight(p)', NEW x \in (pulls'[p].guilds \cup pulls'[p].dms) \cap removed'
               PROVE  pulls'[p].seen[x] < dir'[x].gen
    BY DEF RemovalsSeen
  <2>1. InFlight(p) /\ pulls'[p] = pulls[p] /\ pulls[p] \in Pull
    BY <1>2 DEF InFlight
  <2>2. x \in Guilds \cup ChannelsOf(DM) /\ x \in Things
    BY <2>1 DEF Pull, Things, AllGuilds, ChannelsOf
  <2>3. pulls[p].seen[x] \in Nat /\ pulls[p].seen[x] <= dir[x].gen
    BY <2>1, <2>2 DEF Pull, DirInv, PullsPast
  <2>4. CASE x \in removed
    <3>1. pulls[p].seen[x] < dir[x].gen
      BY <2>1, <2>4 DEF DirInv, RemovalsSeen
    <3>. QED BY <1>3, <2>1, <2>2, <2>3, <3>1
  <2>5. CASE x \notin removed
    <3>1. dir'[x].gen > dir[x].gen
      BY <2>2, <2>5
    <3>. QED BY <1>3, <2>1, <2>2, <2>3, <3>1
  <2>. QED BY <2>4, <2>5
<1>7. PullOwnsGate'
  <2>1. (gate.pending => Owners # {}) /\ \A p, q \in Owners : p = q /\ gate.pending
    BY OwnedNow DEF DirInv
  <2>2. CASE gate' = gate
    <3>1. Owners' = Owners
      BY <2>2 DEF Owners, InFlight
    <3>. HIDE DEF Owners
    <3>. QED BY <1>1, <2>1, <2>2, <3>1, OwnedNext
  <2>3. CASE gate'.version > gate.version /\ ~ gate'.pending
    <3>1. Owners' = {}
      <4> SUFFICES ASSUME NEW p \in Pulls, InFlight(p)', pulls'[p].ver = gate'.version PROVE FALSE
        BY DEF Owners
      <4>1. InFlight(p) /\ pulls'[p] = pulls[p] /\ pulls[p] \in Pull
        BY <1>2 DEF InFlight
      <4>2. pulls[p].ver \in Nat /\ pulls[p].ver <= gate.version
        BY <4>1 DEF Pull, DirInv, PullsPast
      <4>. QED BY <1>4, <2>3, <4>1, <4>2
    <3>. HIDE DEF Owners
    <3>. QED BY <1>1, <2>3, <3>1, OwnedNext
  <2>. QED BY <2>2, <2>3 DEF GatesMove
<1>8. ASSUME NEW c \in DirChannels, hist'[c].pending
      PROVE  /\ c \in severed' \/ (dir'[c].known /\ \E l \in loads' : l.chan = c /\ Acceptable(l)')
  <2>1. c \notin cs /\ hist'[c] = hist[c] /\ hist[c].pending
    BY <1>8 DEF GatesMove
  <2>2. CASE c \in severed \/ c \in cut
    BY <2>1, <2>2 DEF GatesMove
  <2>3. CASE c \notin severed /\ c \notin cut
    <3>1. dir[c].known /\ \E l \in loads : l.chan = c /\ Acceptable(l)
      BY <2>1, <2>3 DEF DirInv, HistoryOwned, PendingKnown, Known
    <3>2. dir'[c] = dir[c]
      BY <2>1, <2>3, <3>1
    <3>3. \A l \in loads : l.chan = c /\ Acceptable(l) => Acceptable(l)'
      BY <2>1, <3>2 DEF Acceptable
    <3>. QED BY <3>1, <3>2, <3>3
  <2>. QED BY <2>2, <2>3
<1>9. HistoryOwned' /\ PendingKnown'
  BY <1>8 DEF HistoryOwned, PendingKnown, Known
<1>. QED BY <1>1, <1>5, <1>6, <1>7, <1>9 DEF DirInv

\* A thread is no guild and no direct message, and a thread's channel is no thread.
LEMMA ThreadsApart ==
  /\ \A c, t \in DirChannels : t \in ThreadsOf(c) => t \notin Guilds \cup ChannelsOf(DM) /\ ~ IsThread(c)
  /\ \A c \in DirChannels : ThreadsOf(c) \subseteq DirChannels
BY DirectoryAssumption DEF ThreadsOf, IsThread, ChannelsOf, AllGuilds

\* What is ingested starts a lifetime and removes nothing.
LEMMA IngestKeeps ==
  ASSUME DirInv, NEW things, Ingest(things), KeepGates, wire' \in Seq(Event), UNCHANGED <<loads, pulls, live>>
  PROVE  DirInv'
<1>1. dir \in Entries /\ GatesMove({}, {})
  BY KeptMoves DEF DirInv, DirTypes, Entries
<1>2. removed' \subseteq removed /\ dir' = Upserted(dir, things)
  BY DEF Ingest
<1>3. removed' \subseteq Guilds \cup DirChannels /\ removed' \cap live = {}
  BY <1>2 DEF DirInv, DirTypes, RemovalsSeen
<1>4. /\ dir' \in Entries /\ \A x \in Things : dir'[x].gen >= dir[x].gen
      /\ \A c \in DirChannels \ {} : c \in {} \/ dir'[c] = dir[c] \/ ~ dir[c].known
  BY <1>1, <1>2, UpsertedIs DEF Things
<1>. QED BY <1>1, <1>2, <1>3, <1>4, GatewayKeeps

\* A deleted channel and its threads count as removed; only the channel may be in a pull's answer.
LEMMA ChannelDeleteKeeps ==
  ASSUME DirInv, NEW c \in DirChannels, HandleChannelDelete(c), wire' \in Seq(Event), UNCHANGED <<loads, pulls, live>>
  PROVE  DirInv'
<1>. DEFINE family == {c} \cup {t \in ThreadsOf(c) : Known(t)}
<1>1. dir \in Entries /\ family \in SUBSET DirChannels /\ GatesMove(family, {})
  <2>1. family \in SUBSET DirChannels
    BY ThreadsApart
  <2>2. InvalidateChannels(family, 0, {})
    BY DEF HandleChannelDelete, InvalidateFamily
  <2>3. DirTypes /\ 0 \in Nat
    BY DEF DirInv
  <2>. HIDE DEF family
  <2>. QED BY <2>1, <2>2, <2>3, InvalidateMoves DEF DirTypes, Entries
<1>2. dir' = ChannelsRemoved(dir, {c}) /\ removed' = removed \cup (({c} \cup ThreadsOf(c)) \ live)
  BY DEF HandleChannelDelete, Forget
<1>3. removed' \subseteq Guilds \cup DirChannels /\ removed' \cap live = {}
  BY <1>2, ThreadsApart DEF DirInv, DirTypes, RemovalsSeen
<1>4. dir' \in Entries /\ (\A x \in Things : dir'[x].gen >= dir[x].gen) /\ dir'[c].gen > dir[c].gen
  BY <1>1, <1>2, ChannelsRemovedIs DEF Things
<1>5. \A d \in DirChannels \ family : d \in {} \/ dir'[d] = dir[d] \/ ~ dir[d].known
  <2> SUFFICES ASSUME NEW d \in DirChannels, d \notin family PROVE dir'[d] = dir[d] \/ ~ dir[d].known
    OBVIOUS
  <2>1. d \in {c} \/ dir'[d] = dir[d] \/ ~ dir[d].known \/ (d \in UNION {ThreadsOf(k) : k \in {c}} /\ dir[d].known)
    BY <1>1, <1>2, ChannelsRemovedIs DEF Things
  <2>. QED BY <2>1 DEF Known
<1>6. \A x \in removed' \ removed : x \in Guilds \cup ChannelsOf(DM) => dir'[x].gen > dir[x].gen
  BY <1>2, <1>4, ThreadsApart
<1>. HIDE DEF family
<1>. QED BY <1>1, <1>3, <1>4, <1>5, <1>6, GatewayKeeps

\* A thread has no threads.
LEMMA ThreadDeleteKeeps ==
  ASSUME DirInv, NEW c \in DirChannels, IsThread(c), HandleThreadDelete(c), wire' \in Seq(Event),
         UNCHANGED <<loads, pulls, live>>
  PROVE  DirInv'
<1>1. dir \in Entries /\ {c} \in SUBSET DirChannels /\ GatesMove({c}, {})
  <2>1. InvalidateChannels({c}, 0, {}) /\ {c} \in SUBSET DirChannels /\ 0 \in Nat /\ DirTypes
    BY DEF HandleThreadDelete, DirInv
  <2>. QED BY <2>1, InvalidateMoves DEF DirTypes, Entries
<1>2. dir' = ChannelsRemoved(dir, {c}) /\ removed' = removed \cup ({c} \ live)
  BY DEF HandleThreadDelete, Forget
<1>3. removed' \subseteq Guilds \cup DirChannels /\ removed' \cap live = {}
  BY <1>2 DEF DirInv, DirTypes, RemovalsSeen
<1>4. dir' \in Entries /\ (\A x \in Things : dir'[x].gen >= dir[x].gen) /\ dir'[c].gen > dir[c].gen
  BY <1>1, <1>2, ChannelsRemovedIs DEF Things
<1>5. \A d \in DirChannels \ {c} : d \in {} \/ dir'[d] = dir[d] \/ ~ dir[d].known
  <2> SUFFICES ASSUME NEW d \in DirChannels, d # c PROVE dir'[d] = dir[d] \/ ~ dir[d].known
    OBVIOUS
  <2>1. d \in {c} \/ dir'[d] = dir[d] \/ ~ dir[d].known \/ (d \in UNION {ThreadsOf(k) : k \in {c}} /\ dir[d].known)
    BY <1>1, <1>2, ChannelsRemovedIs DEF Things
  <2>. QED BY <2>1, ThreadsApart
<1>6. \A x \in removed' \ removed : x \in Guilds \cup ChannelsOf(DM) => dir'[x].gen > dir[x].gen
  BY <1>2, <1>4
<1>. QED BY <1>1, <1>3, <1>4, <1>5, <1>6, GatewayKeeps

\* A deleted guild and its channels count as removed; only the guild may be in a pull's answer.
LEMMA GuildDeleteKeeps ==
  ASSUME DirInv, NEW g \in Guilds, HandleGuildDelete(g), wire' \in Seq(Event), UNCHANGED <<loads, pulls, live>>
  PROVE  DirInv'
<1>. DEFINE shown == {c \in ChannelsOf(g) : Known(c)}
<1>1. dir \in Entries /\ shown \in SUBSET DirChannels /\ GatesMove(shown, {})
  <2>1. InvalidateChannels(shown, 1, {}) /\ shown \in SUBSET DirChannels /\ 1 \in Nat /\ DirTypes
    BY DEF HandleGuildDelete, DirInv, ChannelsOf
  <2>. HIDE DEF shown
  <2>. QED BY <2>1, InvalidateMoves DEF DirTypes, Entries
<1>2. dir' = GuildRemoved(dir, g) /\ removed' = removed \cup (({g} \cup ChannelsOf(g)) \ live)
  BY DEF HandleGuildDelete, Forget
<1>3. removed' \subseteq Guilds \cup DirChannels /\ removed' \cap live = {}
  BY <1>2 DEF DirInv, DirTypes, RemovalsSeen, ChannelsOf
<1>4. dir' \in Entries /\ (\A x \in Things : dir'[x].gen >= dir[x].gen) /\ dir'[g].gen > dir[g].gen
  BY <1>1, <1>2, GuildRemovedIs DEF Things, AllGuilds
<1>5. \A d \in DirChannels \ shown : d \in {} \/ dir'[d] = dir[d] \/ ~ dir[d].known
  <2> SUFFICES ASSUME NEW d \in DirChannels, d \notin shown PROVE dir'[d] = dir[d] \/ ~ dir[d].known
    OBVIOUS
  <2>1. d = g \/ dir'[d] = dir[d] \/ (d \in ChannelsOf(g) /\ dir[d].known)
    BY <1>1, <1>2, GuildRemovedIs DEF Things
  <2>. QED BY <2>1, DirectoryAssumption DEF Known, AllGuilds
<1>6. \A x \in removed' \ removed : x \in Guilds \cup ChannelsOf(DM) => dir'[x].gen > dir[x].gen
  BY <1>2, <1>4, DirectoryAssumption DEF ChannelsOf, AllGuilds
<1>. HIDE DEF shown
<1>. QED BY <1>1, <1>3, <1>4, <1>5, <1>6, GatewayKeeps

\* A snapshot gives up the gates of the channels it prunes and cuts their threads.
LEMMA GuildCreateKeeps ==
  ASSUME DirInv, NEW e \in [type: {"guildCreate"}, guild: Guilds, chans: SUBSET DirChannels],
         HandleGuildCreate(e), wire' \in Seq(Event), UNCHANGED <<loads, pulls, live>>
  PROVE  DirInv'
<1>. DEFINE ingested == Upserted(dir, e.chans \cup {e.guild})
            prune == Pruned(ingested, e)
            threads == UNION {ThreadsOf(c) : c \in prune}
            cut == {t \in threads : ingested[t].known}
<1>1. /\ InvalidateChannels(prune, 0, cut)
      /\ dir' = ChannelsRemoved(ingested, prune)
      /\ removed' = (removed \ (e.chans \cup {e.guild})) \cup ((prune \cup threads) \ live)
  BY DEF HandleGuildCreate
<1>2. prune \in SUBSET DirChannels /\ 0 \in Nat /\ DirTypes /\ dir \in Entries
  BY DEF Pruned, ChannelsOf, DirInv, DirTypes, Entries
<1>3. GatesMove(prune, cut)
  <2>. HIDE DEF prune, cut
  <2>. QED BY <1>1, <1>2, InvalidateMoves
<1>4. /\ ingested \in Entries
      /\ \A x \in Things : ingested[x].gen >= dir[x].gen /\ (ingested[x] = dir[x] \/ ~ dir[x].known)
  BY <1>2, UpsertedIs
<1>5. threads \subseteq DirChannels /\ threads \cap (Guilds \cup ChannelsOf(DM)) = {}
  <2>. HIDE DEF prune
  <2>. QED BY <1>2, ThreadsApart
<1>6. /\ dir' \in Entries
      /\ \A x \in Things :
           /\ dir'[x].gen >= ingested[x].gen /\ (x \in prune => dir'[x].gen > ingested[x].gen)
           /\ x \in prune \/ dir'[x] = ingested[x] \/ ~ ingested[x].known \/ (x \in threads /\ ingested[x].known)
  <2>. HIDE DEF ingested, prune
  <2>. QED BY <1>1, <1>4, ChannelsRemovedIs
<1>7. \A x \in Things : dir[x].gen \in Nat /\ ingested[x].gen \in Nat /\ dir'[x].gen \in Nat
  <2>. HIDE DEF ingested
  <2>. QED BY <1>2, <1>4, <1>6 DEF Entries
<1>8. ASSUME NEW c \in DirChannels, c \notin prune PROVE c \in cut \/ dir'[c] = dir[c] \/ ~ dir[c].known
  <2>1. c \in Things
    BY DEF Things
  <2>2. ingested[c] = dir[c] \/ ~ dir[c].known
    BY <1>4, <2>1
  <2>3. dir'[c] = ingested[c] \/ ~ ingested[c].known \/ (c \in threads /\ ingested[c].known)
    <3>. HIDE DEF ingested, prune, threads
    <3>. QED BY <1>6, <1>8, <2>1
  <2>. HIDE DEF ingested, prune, threads
  <2>. QED BY <2>2, <2>3
<1>. HIDE DEF ingested, prune, threads, cut
<1>9. removed' \subseteq Guilds \cup DirChannels /\ removed' \cap live = {}
  BY <1>1, <1>2, <1>5 DEF DirInv, DirTypes, RemovalsSeen
<1>10. \A x \in Things : dir'[x].gen >= dir[x].gen /\ (x \in prune => dir'[x].gen > dir[x].gen)
  BY <1>4, <1>6, <1>7
<1>11. \A x \in removed' \ removed : x \in Guilds \cup ChannelsOf(DM) => dir'[x].gen > dir[x].gen
  BY <1>1, <1>2, <1>5, <1>10 DEF Things
<1>. QED BY <1>2, <1>3, <1>6, <1>8, <1>9, <1>10, <1>11, GatewayKeeps

\* Every handler of the gateway keeps the invariant.
LEMMA EventKeeps ==
  ASSUME DirInv, HandleEvent
  PROVE  DirInv'
<1>. DEFINE e == Head(wire)
<1>1. e \in Event /\ wire' \in Seq(Event) /\ UNCHANGED <<loads, pulls, live>>
  BY DEF HandleEvent, DirInv, DirTypes
<1>2. \/ e.type = "upsert" /\ HandleUpsert(e.chan)
      \/ e.type = "channelDelete" /\ HandleChannelDelete(e.chan)
      \/ e.type = "threadDelete" /\ HandleThreadDelete(e.chan)
      \/ e.type = "guildDelete" /\ HandleGuildDelete(e.guild)
      \/ e.type = "guildCreate" /\ HandleGuildCreate(e)
      \/ e.type = "ready" /\ HandleReady(e.things)
  BY DEF HandleEvent
<1>. HIDE DEF e
<1>3. CASE e.type = "upsert" /\ HandleUpsert(e.chan)
  BY <1>1, <1>3, IngestKeeps DEF HandleUpsert
<1>4. CASE e.type = "channelDelete" /\ HandleChannelDelete(e.chan)
  <2>1. e.chan \in DirChannels
    BY <1>1, <1>4 DEF Event
  <2>. QED BY <1>1, <1>4, <2>1, ChannelDeleteKeeps
<1>5. CASE e.type = "threadDelete" /\ HandleThreadDelete(e.chan)
  <2>1. e.chan \in DirChannels /\ IsThread(e.chan)
    BY <1>1, <1>5 DEF Event
  <2>. QED BY <1>1, <1>5, <2>1, ThreadDeleteKeeps
<1>6. CASE e.type = "guildDelete" /\ HandleGuildDelete(e.guild)
  <2>1. e.guild \in Guilds
    BY <1>1, <1>6 DEF Event
  <2>. QED BY <1>1, <1>6, <2>1, GuildDeleteKeeps
<1>7. CASE e.type = "guildCreate" /\ HandleGuildCreate(e)
  <2>1. e \in [type: {"guildCreate"}, guild: Guilds, chans: SUBSET DirChannels]
    BY <1>1, <1>7 DEF Event
  <2>. QED BY <1>1, <1>7, <2>1, GuildCreateKeeps
<1>8. CASE e.type = "ready" /\ HandleReady(e.things)
  BY <1>1, <1>8, IngestKeeps DEF HandleReady
<1>. QED BY <1>2, <1>3, <1>4, <1>5, <1>6, <1>7, <1>8

\* What the server changes reaches the client as an event.
LEMMA ServerKeeps ==
  ASSUME DirInv, UNCHANGED Client, wire' \in Seq(Event), live' \subseteq Guilds \cup DirChannels,
         removed' \subseteq removed, removed' \cap live' = {}
  PROVE  DirInv'
BY DEF DirInv, Client, DirTypes, PullOwnsGate, PullsPast, RemovalsSeen, HistoryOwned, PendingKnown,
       InFlight, Acceptable, Known

\* What is emitted is an event.
LEMMA EmitTyped ==
  ASSUME DirInv, NEW e \in Event, Emit(e)
  PROVE  wire' \in Seq(Event)
BY DEF Emit, DirInv, DirTypes

\* And so is a snapshot of a guild.
LEMMA SnapshotTyped ==
  ASSUME NEW g \in Guilds, NEW things
  PROVE  Snapshot(g, things) \in Event
BY DEF Snapshot, Event, ChannelsOf

\* Every change on the server, and a reconnect, keeps the invariant.
LEMMA ServerStepKeeps ==
  ASSUME DirInv,
         \/ \E c \in DirChannels : ServerAdds(c) \/ ServerRemoves(c)
         \/ \E g \in Guilds : GuildJoined(g) \/ GuildLeft(g)
         \/ Reconnect
  PROVE  DirInv'
<1>. removed \cap live = {} /\ live \subseteq Guilds \cup DirChannels
  BY DEF DirInv, DirTypes, RemovalsSeen
<1>1. ASSUME NEW c \in DirChannels, ServerAdds(c) PROVE DirInv'
  <2>1. wire' \in Seq(Event)
    BY <1>1, EmitTyped DEF ServerAdds, Event
  <2>. QED BY <1>1, <2>1, ServerKeeps DEF ServerAdds
<1>2. ASSUME NEW c \in DirChannels, ServerRemoves(c) PROVE DirInv'
  <2>1. wire' \in Seq(Event)
    BY <1>2, EmitTyped DEF ServerRemoves, Event
  <2>. QED BY <1>2, <2>1, ServerKeeps DEF ServerRemoves
<1>3. ASSUME NEW g \in Guilds, GuildJoined(g) PROVE DirInv'
  <2>1. PICK cs \in SUBSET {c \in ChannelsOf(g) : ~ IsThread(c)} :
          /\ live' = live \cup {g} \cup cs
          /\ Emit(Snapshot(g, cs)) /\ removed' = removed \ ({g} \cup cs)
    BY <1>3 DEF GuildJoined
  <2>2. wire' \in Seq(Event)
    BY <2>1, EmitTyped, SnapshotTyped
  <2>3. cs \subseteq DirChannels
    BY DEF ChannelsOf
  <2>. QED BY <1>3, <2>1, <2>2, <2>3, ServerKeeps DEF GuildJoined
<1>4. ASSUME NEW g \in Guilds, GuildLeft(g) PROVE DirInv'
  <2>1. wire' \in Seq(Event)
    BY <1>4, EmitTyped DEF GuildLeft, Event
  <2>. QED BY <1>4, <2>1, ServerKeeps DEF GuildLeft
<1>5. ASSUME Reconnect PROVE DirInv'
  <2>. DEFINE own == Guilds \cap live
              n == Cardinality(own)
  <2>1. PICK part \in SUBSET live, order \in Bijection(1 .. n, own) :
          wire' = <<[type |-> "ready", things |-> part]>> \o [k \in 1 .. n |-> Snapshot(order[k], live)]
    BY <1>5 DEF Reconnect
  <2>2. n \in Nat
    BY FS_Subset, FS_CardinalityType, DirectoryAssumption
  <2>3. order \in [1 .. n -> own]
    BY DEF Bijection, Injection
  <2>. HIDE DEF n
  <2>4. \A k \in 1 .. n : Snapshot(order[k], live) \in Event
    BY <2>3, SnapshotTyped
  <2>5. [k \in 1 .. n |-> Snapshot(order[k], live)] \in Seq(Event)
    BY <2>2, <2>4
  <2>6. <<[type |-> "ready", things |-> part]>> \in Seq(Event)
    BY DEF Event
  <2>7. wire' \in Seq(Event)
    BY <2>1, <2>5, <2>6
  <2>. QED BY <1>5, <2>7, ServerKeeps DEF Reconnect
<1>. QED BY <1>1, <1>2, <1>3, <1>4, <1>5

Owns(p) == InFlight(p) /\ pulls[p].ver = gate.version

\* What an answer may hold: nothing the client has removed, unless its generation has moved.
Fits(pull) ==
  /\ pull.ver <= gate.version /\ \A x \in Things : pull.seen[x] <= dir[x].gen
  /\ \A x \in (pull.guilds \cup pull.dms) \cap removed : pull.seen[x] < dir[x].gen

\* A step of the pull p keeps the invariant if the gate stays its own, or nobody's.
LEMMA PullKeeps ==
  ASSUME DirInv, NEW p \in Pulls, NEW pull \in {Idle} \cup Pull, pulls' = [pulls EXCEPT ![p] = pull],
         pull # Idle => Fits(pull)',
         UNCHANGED <<hist, loads, live, removed, severed>>, wire' \in Seq(Event),
         dir' \in Entries, gate' \in GateType, gate'.version = gate.version,
         \A x \in Things : dir'[x].gen >= dir[x].gen,
         \A x \in Things : dir'[x] = dir[x] \/ ~ dir[x].known,
         \/ gate'.pending = gate.pending /\ (Owns(p) <=> Owns(p)')
         \/ (gate.pending => Owns(p)) /\ (gate'.pending <=> Owns(p)')
  PROVE  DirInv'
<1>1. DirTypes'
  BY DEF DirTypes, DirInv, Entries, GateType
<1>2. pulls'[p] = pull /\ \A q \in Pulls \ {p} : pulls'[q] = pulls[q]
  BY DEF DirInv, DirTypes
<1>3. \A q \in Pulls : InFlight(q) <=> pulls[q] # Idle
  BY DEF DirInv, DirTypes, InFlight, Idle, Pull
<1>4. \A q \in Pulls : InFlight(q)' <=> pulls'[q] # Idle
  BY <1>1 DEF DirTypes, InFlight, Idle, Pull
<1>5. ASSUME NEW q \in Pulls, InFlight(q)' PROVE Fits(pulls[q])'
  <2>1. CASE q = p
    BY <1>2, <1>4, <1>5, <2>1 DEF Fits
  <2>2. CASE q # p
    <3>1. InFlight(q) /\ pulls'[q] = pulls[q] /\ pulls[q] \in Pull
      BY <1>2, <1>3, <1>4, <1>5, <2>2 DEF DirInv, DirTypes
    <3>2. pulls[q].ver \in Nat /\ \A x \in Things : pulls[q].seen[x] \in Nat /\ dir[x].gen \in Nat /\ dir'[x].gen \in Nat
      BY <3>1 DEF Pull, DirInv, DirTypes, Entries
    <3>3. Fits(pulls[q])
      BY <3>1 DEF DirInv, PullsPast, RemovalsSeen, Fits
    <3>4. pulls[q].guilds \cup pulls[q].dms \subseteq Things
      BY <3>1 DEF Pull, Things, AllGuilds, ChannelsOf
    <3>. QED BY <3>1, <3>2, <3>3, <3>4 DEF Fits
  <2>. QED BY <2>1, <2>2
<1>6. PullsPast' /\ RemovalsSeen'
  BY <1>5 DEF PullsPast, RemovalsSeen, Fits, DirInv
<1>7. PullOwnsGate'
  <2>1. (gate.pending => Owners # {}) /\ \A q, r \in Owners : q = r /\ gate.pending
    BY OwnedNow DEF DirInv
  <2>2. \A q \in Pulls : q \in Owners <=> Owns(q)
    BY DEF Owners, Owns
  <2>3. \A q \in Pulls : q \in Owners' <=> Owns(q)'
    BY DEF Owners, Owns
  <2>4. \A q \in Pulls \ {p} : Owns(q)' <=> Owns(q)
    BY <1>2 DEF Owns, InFlight
  <2>5. Owners \subseteq Pulls /\ Owners' \subseteq Pulls
    BY DEF Owners
  <2>. HIDE DEF Owners, Owns
  <2>6. CASE gate'.pending = gate.pending /\ (Owns(p) <=> Owns(p)')
    <3>1. Owners' = Owners
      BY <2>2, <2>3, <2>4, <2>5, <2>6
    <3>. QED BY <1>1, <2>1, <2>6, <3>1, OwnedNext
  <2>7. CASE (gate.pending => Owns(p)) /\ (gate'.pending <=> Owns(p)')
    <3>1. \A q \in Pulls \ {p} : ~ Owns(q)
      BY <2>1, <2>2, <2>7
    <3>2. \A q \in Owners' : q = p
      BY <2>3, <2>4, <2>5, <3>1
    <3>3. gate'.pending => Owners' # {}
      BY <2>3, <2>7
    <3>4. \A q, r \in Owners' : q = r /\ gate'.pending
      BY <2>3, <2>7, <3>2
    <3>. QED BY <1>1, <3>3, <3>4, OwnedNext
  <2>. QED BY <2>6, <2>7
<1>8. HistoryOwned' /\ PendingKnown'
  <2> SUFFICES ASSUME NEW c \in DirChannels, hist[c].pending, c \notin severed
               PROVE  dir'[c].known /\ \E l \in loads : l.chan = c /\ Acceptable(l)'
    BY DEF HistoryOwned, PendingKnown, Known
  <2>1. dir[c].known /\ \E l \in loads : l.chan = c /\ Acceptable(l)
    BY DEF DirInv, HistoryOwned, PendingKnown, Known
  <2>2. dir'[c] = dir[c]
    BY <2>1 DEF Things
  <2>. QED BY <2>1, <2>2 DEF Acceptable
<1>. QED BY <1>1, <1>6, <1>7, <1>8 DEF DirInv

\* A new pull has seen the present and holds nothing yet.
LEMMA NewPullFits ==
  ASSUME DirInv, NEW attempt \in 0 .. MaxRetries, NEW pull, pull = NewPull(attempt),
         dir' = dir, gate'.version = gate.version
  PROVE  pull \in Pull /\ pull # Idle /\ Fits(pull)' /\ pull.phase = "asked" /\ pull.ver = gate.version
<1>. DEFINE seen == [x \in Things |-> dir[x].gen]
<1>1. seen \in [Things -> Nat] /\ gate.version \in Nat
  BY DEF DirInv, DirTypes
<1>2. pull = [phase |-> "asked", ver |-> gate.version, seen |-> seen, attempt |-> attempt,
              guilds |-> {}, dms |-> {}, failed |-> FALSE]
  BY DEF NewPull
<1>3. seen = [x \in Things |-> dir'[x].gen]
  OBVIOUS
<1>. HIDE DEF seen
<1>4. pull \in Pull /\ pull # Idle
  BY <1>1, <1>2 DEF Pull, Idle
<1>5. Fits(pull)'
  BY <1>1, <1>2, <1>3 DEF Fits
<1>. QED BY <1>2, <1>4, <1>5

\* A pull starts when nobody owns the gate, and owns it.
LEMMA LoadGuildsKeeps ==
  ASSUME DirInv, NEW p \in Pulls, LoadGuilds(p)
  PROVE  DirInv'
<1>. PICK pull : pull = NewPull(0)
  OBVIOUS
<1>1. /\ ~ gate.pending /\ pulls' = [pulls EXCEPT ![p] = pull]
      /\ UNCHANGED <<dir, hist, loads, live, wire, removed, severed>>
  BY DEF LoadGuilds, MayPull
<1>2. gate' \in GateType /\ gate'.version = gate.version /\ gate'.pending
  BY DEF LoadGuilds, DirInv, DirTypes, GateType
<1>3. 0 \in 0 .. MaxRetries
  BY DirectoryAssumption
<1>4. pull \in Pull /\ Fits(pull)' /\ pull.phase = "asked" /\ pull.ver = gate.version
  BY <1>1, <1>2, <1>3, NewPullFits
<1>5. Owns(p)'
  <2>1. pulls'[p] = pull
    BY <1>1 DEF DirInv, DirTypes
  <2>. QED BY <1>2, <1>4, <2>1 DEF Owns, InFlight
<1>6. wire' \in Seq(Event) /\ dir' \in Entries /\ \A x \in Things : dir'[x].gen >= dir[x].gen
  BY <1>1 DEF DirInv, DirTypes, Entries
<1>. QED BY <1>1, <1>2, <1>4, <1>5, <1>6, PullKeeps

\* An answer adds what exists, which the client has not removed.
LEMMA AnswerKeeps ==
  ASSUME DirInv, NEW p \in Pulls, InFlight(p), NEW pull \in Pull, pulls' = [pulls EXCEPT ![p] = pull],
         pull.ver = pulls[p].ver, pull.seen = pulls[p].seen, pull.phase # "idle",
         pull.guilds \cup pull.dms \subseteq live \cup pulls[p].guilds \cup pulls[p].dms,
         UNCHANGED <<dir, hist, gate, loads, live, wire, removed, severed>>
  PROVE  DirInv'
<1>1. Fits(pull)'
  <2>1. pull.ver <= gate.version /\ \A x \in Things : pull.seen[x] <= dir[x].gen
    BY DEF DirInv, PullsPast
  <2>2. \A x \in (pull.guilds \cup pull.dms) \cap removed : pull.seen[x] < dir[x].gen
    BY DEF DirInv, RemovalsSeen
  <2>. QED BY <2>1, <2>2 DEF Fits
<1>2. pulls'[p] = pull
  BY DEF DirInv, DirTypes
<1>3. Owns(p) <=> Owns(p)'
  BY <1>2 DEF Owns, InFlight
<1>4. /\ gate' \in GateType /\ gate'.version = gate.version /\ gate'.pending = gate.pending
      /\ wire' \in Seq(Event) /\ dir' \in Entries /\ \A x \in Things : dir'[x].gen >= dir[x].gen
  BY DEF DirInv, DirTypes, GateType, Entries
<1>. QED BY <1>1, <1>3, <1>4, PullKeeps

\* Both REST calls answer so.
LEMMA AnswersKeep ==
  ASSUME DirInv, NEW p \in Pulls, NEW ok \in BOOLEAN, GuildsAnswer(p, ok) \/ PrivateChannelsAnswer(p, ok)
  PROVE  DirInv'
<1>1. InFlight(p) /\ pulls[p] \in Pull
  BY DEF GuildsAnswer, PrivateChannelsAnswer, InFlight, DirInv, DirTypes, Idle
<1>2. CASE GuildsAnswer(p, ok)
  <2>. DEFINE pull == [pulls[p] EXCEPT !.phase = "half", !.failed = ~ ok, !.guilds = IF ok THEN live \cap Guilds ELSE {}]
  <2>1. pulls' = [pulls EXCEPT ![p] = pull]
    BY <1>2 DEF GuildsAnswer, DirInv, DirTypes
  <2>2. /\ pull \in Pull /\ pull.ver = pulls[p].ver /\ pull.seen = pulls[p].seen /\ pull.phase # "idle"
        /\ pull.guilds \subseteq live /\ pull.dms = pulls[p].dms
    BY <1>1 DEF Pull
  <2>3. UNCHANGED <<dir, hist, gate, loads, live, wire, removed, severed>>
    BY <1>2 DEF GuildsAnswer
  <2>4. pull.guilds \cup pull.dms \subseteq live \cup pulls[p].guilds \cup pulls[p].dms
    BY <2>2
  <2>. HIDE DEF pull
  <2>. QED BY <1>1, <2>1, <2>2, <2>3, <2>4, AnswerKeeps
<1>3. CASE PrivateChannelsAnswer(p, ok)
  <2>. DEFINE pull == [pulls[p] EXCEPT !.phase = "answered", !.failed = pulls[p].failed \/ ~ ok,
                                       !.dms = IF ok THEN live \cap ChannelsOf(DM) ELSE {}]
  <2>1. pulls' = [pulls EXCEPT ![p] = pull]
    BY <1>3 DEF PrivateChannelsAnswer, DirInv, DirTypes
  <2>2. /\ pull \in Pull /\ pull.ver = pulls[p].ver /\ pull.seen = pulls[p].seen /\ pull.phase # "idle"
        /\ pull.dms \subseteq live /\ pull.guilds = pulls[p].guilds
    <3>1. pulls[p].failed \in BOOLEAN
      BY <1>1 DEF Pull
    <3>. QED BY <1>1, <3>1 DEF Pull
  <2>3. UNCHANGED <<dir, hist, gate, loads, live, wire, removed, severed>>
    BY <1>3 DEF PrivateChannelsAnswer
  <2>4. pull.guilds \cup pull.dms \subseteq live \cup pulls[p].guilds \cup pulls[p].dms
    BY <2>2
  <2>. HIDE DEF pull
  <2>. QED BY <1>1, <2>1, <2>2, <2>3, <2>4, AnswerKeeps
<1>. QED BY <1>2, <1>3

\* A gate given back.
LEMMA FinishGives ==
  ASSUME DirInv, NEW ok \in BOOLEAN, Finish(ok)
  PROVE  gate' \in GateType /\ gate'.version = gate.version /\ ~ gate'.pending
<1>1. gate \in GateType /\ gate.loaded \in BOOLEAN
  BY DEF DirInv, DirTypes, GateType
<1>2. gate' = [gate EXCEPT !.pending = FALSE, !.loaded = gate.loaded \/ ok]
  BY DEF Finish
<1>. QED BY <1>1, <1>2 DEF GateType

\* The owner's completion gives the gate back, or keeps it for the retry.
LEMMA CompletePullKeeps ==
  ASSUME DirInv, NEW p \in Pulls, CompletePull(p)
  PROVE  DirInv'
<1>1. InFlight(p) /\ pulls[p] \in Pull
  BY DEF CompletePull, InFlight, DirInv, DirTypes, Idle
<1>2. UNCHANGED <<hist, loads, live, wire, removed, severed>> /\ wire' \in Seq(Event) /\ dir \in Entries
  BY DEF CompletePull, DirInv, DirTypes, Entries
<1>3. pulls' = [pulls EXCEPT ![p] = Idle] => ~ Owns(p)'
  BY DEF Owns, InFlight, Idle, DirInv, DirTypes
<1>4. CASE SnapshotCurrent(pulls[p]) /\ InstallDirectory(p)
  <2>1. /\ \A x \in Things : dir'[x].gen >= dir[x].gen /\ (dir'[x] = dir[x] \/ ~ dir[x].known)
        /\ dir' \in Entries
    BY <1>2, <1>4, UpsertedIs DEF InstallDirectory
  <2>2. pulls' = [pulls EXCEPT ![p] = Idle] /\ Finish(~ pulls[p].failed)
    BY <1>4 DEF InstallDirectory
  <2>3. gate' \in GateType /\ gate'.version = gate.version /\ ~ gate'.pending
    BY <2>2, FinishGives
  <2>4. Owns(p)
    BY <1>1, <1>4 DEF Owns, SnapshotCurrent
  <2>. QED BY <1>2, <1>3, <2>1, <2>2, <2>3, <2>4, PullKeeps
<1>5. CASE /\ pulls[p].ver # gate.version /\ pulls' = [pulls EXCEPT ![p] = Idle]
           /\ UNCHANGED <<dir, gate>>
  <2>1. ~ Owns(p) /\ ~ Owns(p)'
    BY <1>3, <1>5 DEF Owns
  <2>2. /\ gate' \in GateType /\ gate'.version = gate.version /\ gate'.pending = gate.pending
        /\ dir' \in Entries /\ \A x \in Things : dir'[x].gen >= dir[x].gen
    BY <1>5 DEF DirInv, DirTypes, GateType, Entries
  <2>. QED BY <1>2, <1>5, <2>1, <2>2, PullKeeps
<1>6. CASE pulls[p].ver = gate.version /\ Retry(p) /\ UNCHANGED dir
  <2>1. Owns(p)
    BY <1>1, <1>6 DEF Owns
  <2>2. dir' \in Entries /\ \A x \in Things : dir'[x].gen >= dir[x].gen
    BY <1>6 DEF DirInv, DirTypes, Entries
  <2>3. CASE StillToTry(pulls[p].attempt)
    <3>. PICK again : again = NewPull(pulls[p].attempt + 1)
      OBVIOUS
    <3>1. pulls' = [pulls EXCEPT ![p] = again]
      BY <1>6, <2>3 DEF Retry
    <3>2. gate' \in GateType /\ gate'.version = gate.version /\ gate'.pending
      BY <1>6, <2>3 DEF Retry, DirInv, DirTypes, GateType
    <3>3. pulls[p].attempt + 1 \in 0 .. MaxRetries
      BY <1>1, <2>3, DirectoryAssumption DEF Pull, StillToTry
    <3>4. again \in Pull /\ Fits(again)' /\ again.phase = "asked" /\ again.ver = gate.version
      BY <1>6, <3>2, <3>3, NewPullFits
    <3>5. Owns(p)'
      <4>1. pulls'[p] = again
        BY <3>1 DEF DirInv, DirTypes
      <4>. QED BY <3>2, <3>4, <4>1 DEF Owns, InFlight
    <3>. QED BY <1>2, <1>6, <2>1, <2>2, <3>1, <3>2, <3>4, <3>5, PullKeeps
  <2>4. CASE ~ StillToTry(pulls[p].attempt)
    <3>1. Finish(FALSE) /\ pulls' = [pulls EXCEPT ![p] = Idle]
      BY <1>6, <2>4 DEF Retry
    <3>2. gate' \in GateType /\ gate'.version = gate.version /\ ~ gate'.pending
      BY <3>1, FinishGives
    <3>. QED BY <1>2, <1>3, <1>6, <2>1, <2>2, <3>1, <3>2, PullKeeps
  <2>. QED BY <2>3, <2>4
<1>. QED BY <1>4, <1>5, <1>6 DEF CompletePull

\* A gate turns pending together with the load that may open it.
LEMMA LoadHistoryKeeps ==
  ASSUME DirInv, NEW c \in DirChannels, LoadHistory(c)
  PROVE  DirInv'
<1>. PICK load : load = [chan |-> c, gen |-> dir[c].gen, ver |-> hist[c].version]
  OBVIOUS
<1>1. /\ Known(c) /\ loads' = loads \cup {load}
      /\ UNCHANGED <<dir, gate, pulls, live, wire, removed, severed>>
  BY DEF LoadHistory
<1>2. DirTypes'
  <2>1. load \in [chan: DirChannels, gen: Nat, ver: Nat]
    BY DEF DirInv, DirTypes, Things
  <2>2. hist' \in [DirChannels -> [loaded: BOOLEAN, pending: BOOLEAN, version: Nat]]
    BY DEF LoadHistory, DirInv, DirTypes
  <2>. QED BY <1>1, <2>1, <2>2 DEF DirInv, DirTypes
<1>3. PullOwnsGate' /\ PullsPast' /\ RemovalsSeen'
  BY <1>1 DEF DirInv, PullOwnsGate, PullsPast, RemovalsSeen, InFlight
<1>4. \A d \in DirChannels : hist'[d].version = hist[d].version /\ (d # c => hist'[d] = hist[d])
  BY DEF LoadHistory, DirInv, DirTypes
<1>5. Acceptable(load)' /\ load.chan = c
  BY <1>1, <1>4 DEF Acceptable
<1>6. \A l \in loads : l.chan \in DirChannels /\ (Acceptable(l) => Acceptable(l)')
  BY <1>1, <1>4 DEF Acceptable, DirInv, DirTypes
<1>7. HistoryOwned' /\ PendingKnown'
  <2> SUFFICES ASSUME NEW d \in DirChannels, hist'[d].pending, d \notin severed
               PROVE  Known(d) /\ \E l \in loads' : l.chan = d /\ Acceptable(l)'
    BY <1>1 DEF HistoryOwned, PendingKnown, Known
  <2>1. CASE d = c
    <3>1. load \in loads'
      BY <1>1
    <3>. QED BY <1>1, <1>5, <2>1, <3>1
  <2>2. CASE d # c
    <3>1. hist[d].pending
      BY <1>4, <2>2
    <3>2. Known(d) /\ \E l \in loads : l.chan = d /\ Acceptable(l)
      BY <3>1 DEF DirInv, HistoryOwned, PendingKnown
    <3>. QED BY <1>1, <1>6, <3>2
  <2>. QED BY <2>1, <2>2
<1>. QED BY <1>2, <1>3, <1>7 DEF DirInv

\* A completion that the gate does not accept was not the one the gate waits for.
LEMMA CompleteHistoryKeeps ==
  ASSUME DirInv, NEW l \in loads, NEW ok \in BOOLEAN, CompleteHistory(l, ok)
  PROVE  DirInv'
<1>1. l.chan \in DirChannels /\ hist[l.chan] \in GateType /\ hist[l.chan].loaded \in BOOLEAN
  BY DEF DirInv, DirTypes, GateType
<1>. DEFINE opened == [hist[l.chan] EXCEPT !.pending = FALSE, !.loaded = hist[l.chan].loaded \/ ok]
<1>2. /\ loads' = loads \ {l} /\ UNCHANGED <<dir, gate, pulls, live, wire, removed, severed>>
      /\ hist' = IF Acceptable(l) THEN [hist EXCEPT ![l.chan] = opened] ELSE hist
  BY <1>1 DEF CompleteHistory, DirInv, DirTypes
<1>3. opened \in GateType /\ ~ opened.pending /\ opened.version = hist[l.chan].version
  BY <1>1 DEF GateType
<1>. HIDE DEF opened
<1>4. DirTypes'
  BY <1>1, <1>2, <1>3 DEF DirInv, DirTypes, GateType
<1>5. PullOwnsGate' /\ PullsPast' /\ RemovalsSeen'
  BY <1>2 DEF DirInv, PullOwnsGate, PullsPast, RemovalsSeen, InFlight
<1>6. \A c \in DirChannels : /\ hist'[c].version = hist[c].version
                             /\ hist'[c].pending => hist[c].pending /\ ~ (Acceptable(l) /\ l.chan = c)
  BY <1>1, <1>2, <1>3 DEF DirInv, DirTypes
<1>7. \A k \in loads : k.chan \in DirChannels /\ (Acceptable(k) => Acceptable(k)')
  BY <1>2, <1>6 DEF Acceptable, DirInv, DirTypes
<1>8. HistoryOwned' /\ PendingKnown'
  <2> SUFFICES ASSUME NEW c \in DirChannels, hist'[c].pending, c \notin severed
               PROVE  Known(c) /\ \E k \in loads' : k.chan = c /\ Acceptable(k)'
    BY <1>2 DEF HistoryOwned, PendingKnown, Known
  <2>1. hist[c].pending /\ ~ (Acceptable(l) /\ l.chan = c)
    BY <1>6
  <2>2. Known(c) /\ \E k \in loads : k.chan = c /\ Acceptable(k)
    BY <2>1 DEF DirInv, HistoryOwned, PendingKnown
  <2>. QED BY <1>2, <1>7, <2>1, <2>2
<1>. QED BY <1>4, <1>5, <1>8 DEF DirInv

\* The client starts knowing nothing.
LEMMA InitDir == DirInit => DirInv
<1> SUFFICES ASSUME DirInit PROVE DirInv
  OBVIOUS
<1>1. DirTypes
  <2>1. [type |-> "ready", things |-> Guilds \cup DirChannels] \in Event
    BY DEF Event
  <2>2. wire \in Seq(Event)
    BY <2>1 DEF DirInit
  <2>. QED BY <2>2 DEF DirInit, DirTypes, NewGate
<1>2. PullsPast /\ RemovalsSeen /\ HistoryOwned /\ PendingKnown
  BY DEF DirInit, PullsPast, RemovalsSeen, HistoryOwned, PendingKnown, InFlight, Idle, NewGate
<1>3. {p \in Pulls : InFlight(p) /\ pulls[p].ver = gate.version} = {} /\ ~ gate.pending
  BY DEF DirInit, InFlight, Idle, NewGate
<1>4. PullOwnsGate
  BY <1>3, FS_EmptySet DEF PullOwnsGate
<1>. QED BY <1>1, <1>2, <1>4 DEF DirInv

\* Every step keeps the invariant.
LEMMA DirStep == DirInv /\ [DirNext]_dirVars => DirInv'
<1> SUFFICES ASSUME DirInv, [DirNext]_dirVars PROVE DirInv'
  OBVIOUS
<1>1. CASE HandleEvent
  BY <1>1, EventKeeps
<1>2. ASSUME NEW p \in Pulls, LoadGuilds(p) \/ PullStep(p) PROVE DirInv'
  BY <1>2, LoadGuildsKeeps, AnswersKeep, CompletePullKeeps DEF PullStep
<1>3. ASSUME NEW c \in DirChannels, LoadHistory(c) PROVE DirInv'
  BY <1>3, LoadHistoryKeeps
<1>4. ASSUME NEW l \in loads, NEW ok \in BOOLEAN, CompleteHistory(l, ok) PROVE DirInv'
  BY <1>4, CompleteHistoryKeeps
<1>5. CASE UNCHANGED dirVars
  BY <1>5 DEF dirVars, DirInv, DirTypes, PullOwnsGate, PullsPast, RemovalsSeen, HistoryOwned, PendingKnown,
              InFlight, Acceptable, Known
<1>. QED BY <1>1, <1>2, <1>3, <1>4, <1>5, ServerStepKeeps DEF DirNext

\* A pull that owns the gate gives it back, the past is past, and every removal has moved a
\* generation that the pulls in flight have seen: for any guilds, channels and threads, any
\* pulls and retries, and any number of changes and reconnects.
THEOREM DirectoryInvariance == DirSpec => []DirInv
BY InitDir, DirStep, PTL DEF DirSpec

\* A pull installs an answer only if every generation is the one it saw: what it would bring
\* back has another.
LEMMA StepNoStale ==
  ASSUME DirInv, [DirNext]_dirVars
  PROVE  pulls' # pulls => \A x \in removed : dir'[x].known => dir[x].known
<1> SUFFICES ASSUME pulls' # pulls, NEW x \in removed, dir'[x].known, ~ dir[x].known PROVE FALSE
  OBVIOUS
<1>1. PICK p \in Pulls : CompletePull(p)
  <2>1. \E p \in Pulls : LoadGuilds(p) \/ PullStep(p)
    BY DEF DirNext, dirVars, ServerAdds, ServerRemoves, LoadHistory, GuildJoined, GuildLeft, Reconnect,
           HandleEvent, CompleteHistory, Client
  <2>2. \A p \in Pulls : LoadGuilds(p) => dir' = dir
    BY DEF LoadGuilds
  <2>3. \A p \in Pulls : \A ok \in BOOLEAN : GuildsAnswer(p, ok) \/ PrivateChannelsAnswer(p, ok) => dir' = dir
    BY DEF GuildsAnswer, PrivateChannelsAnswer
  <2>. QED BY <2>1, <2>2, <2>3 DEF PullStep
<1>2. InFlight(p) /\ pulls[p] \in Pull
  BY <1>1 DEF CompletePull, InFlight, DirInv, DirTypes, Idle
<1>3. SnapshotCurrent(pulls[p]) /\ InstallDirectory(p)
  BY <1>1 DEF CompletePull
<1>4. x \in Guilds \cup DirChannels /\ x \in Things /\ x # DM
  BY DirectoryAssumption DEF DirInv, DirTypes, Things, AllGuilds
<1>5. x \in pulls[p].guilds \cup UNION {WithGuild(c) : c \in pulls[p].dms}
  BY <1>3, <1>4 DEF InstallDirectory, Upserted
<1>6. x \in (pulls[p].guilds \cup pulls[p].dms) \cap removed
  BY <1>4, <1>5 DEF WithGuild
<1>7. pulls[p].seen[x] < dir[x].gen
  BY <1>2, <1>6 DEF DirInv, RemovalsSeen
<1>8. pulls[p].seen[x] = dir[x].gen /\ dir[x].gen \in Nat
  BY <1>3, <1>4 DEF SnapshotCurrent, DirInv, DirTypes
<1>. QED BY <1>7, <1>8

\* Its run's property: a pending gate always has its opener, and nothing removed comes back
\* with an answer that is older than the removal.
THEOREM GatesStayKept == DirSpec => GatesKept
<1>1. DirInv => PullOwnsGate /\ HistoryOwned
  BY DEF DirInv
<1>2. DirInv /\ [DirNext]_dirVars
        => [pulls' # pulls => \A x \in removed : dir'[x].known => dir[x].known]_dirVars
  BY StepNoStale
<1>. QED BY <1>1, <1>2, DirectoryInvariance, PTL DEF DirSpec, GatesKept, NoStaleDirectory

=============================================================================
