----------------------------- MODULE LoginProofs -----------------------------
(***************************************************************************)
(* Safety of the login and of the browser it drives, for any callers,      *)
(* closers and number of commands.                                         *)
(***************************************************************************)
EXTENDS BiDi, Login, TLAPS

-----------------------------------------------------------------------------
(* The browser session                                                     *)

LEMMA InitBidi == BidiInit => BidiIInv
<1> SUFFICES ASSUME BidiInit PROVE BidiIInv
  OBVIOUS
<1> USE DEF BidiInit, Idle
<1>1. BidiTypes
  <2>1. inbox \in Seq(Nat) /\ wire \subseteq Nat
    <3>1. inbox = <<>> /\ wire = {}
      OBVIOUS
    <3>. QED BY ONLY <3>1
  <2>2. reader \in [at: {"none", "read", "deliver", "ended"}, id: Nat, to: SUBSET Nat]
    OBVIOUS
  <2>3. next \in Nat /\ gate \in Callers \cup {None} /\ owned \in BOOLEAN
    OBVIOUS
  <2>4. call \in [Callers -> Calls]
    <3>1. Idle \in Calls
      BY DEF Calls
    <3>. QED BY <3>1
  <2>5. closer \in [Closers -> [at: {"idle", "socket", "kill", "remove", "done"}, ids: SUBSET Nat, owns: BOOLEAN]]
    OBVIOUS
  <2>. QED BY <2>1, <2>2, <2>3, <2>4, <2>5 DEF BidiTypes
<1>2. OwedIds = {} /\ \A k \in Closers : Taken(k) = {}
  BY DEF OwedIds, Taken
<1>3. OneWriter
  BY <1>2 DEF OneWriter
<1>4. \A c \in Callers : Replied(c)
  BY DEF Replied
<1>5. KilledFirst
  BY DEF KilledFirst, ProfileOutlives
<1>. QED BY <1>1, <1>3, <1>4, <1>5 DEF BidiIInv

\* A command that a step does not touch stays as it was: what is owed after the
\* step was owed before, or is the id of a new command.
LEMMA OthersKept ==
  ASSUME BidiIInv, NEW d \in Callers, call'[d] = call[d], gate' = gate \/ gate # d,
         next' \in Nat, next' >= next, OwedIds' \subseteq OwedIds \cup {next + 1}
  PROVE  Replied(d)'
BY DEF BidiIInv, BidiTypes, Replied

\* The writers of a set of ids append one reply to the commands of these ids that
\* still wait, and owe them nothing afterwards.
LEMMA Answers ==
  ASSUME BidiIInv, NEW ids \in SUBSET OwedIds, NEW v \in Nat, v = 0 \/ ids \subseteq {v},
         call' = [c \in Callers |-> IF call[c].id \in ids /\ call[c].at \in {"write", "wait"}
                                    THEN [call[c] EXCEPT !.replies = Append(@, v)] ELSE call[c]],
         OwedIds' \subseteq OwedIds \ ids, UNCHANGED <<next, gate>>
  PROVE  call' \in [Callers -> Calls] /\ \A c \in Callers : Replied(c)'
<1> USE DEF BidiIInv
<1>1. ASSUME NEW c \in Callers PROVE call'[c] \in Calls /\ Replied(c)'
  <2>1. call[c] \in Calls /\ Replied(c)
    BY DEF BidiTypes
  <2>2. CASE call[c].id \in ids /\ call[c].at \in {"write", "wait"}
    <3>1. call[c].replies = <<>>
      BY <2>1, <2>2 DEF Replied
    <3>2. call'[c] = [call[c] EXCEPT !.replies = <<v>>]
      BY <2>2, <3>1
    <3>3. <<v>> \in Seq(Nat) /\ Head(<<v>>) = v /\ Len(<<v>>) = 1
      OBVIOUS
    <3>4. /\ call'[c] \in Calls /\ call'[c].at = call[c].at /\ call'[c].id = call[c].id
          /\ call'[c].replies = <<v>>
      BY <2>1, <3>2, <3>3 DEF Calls
    <3>5. call[c].id \notin OwedIds' /\ v \in {0, call[c].id}
      BY <2>2
    <3>6. Replied(c)'
      BY <2>1, <2>2, <3>3, <3>4, <3>5 DEF Replied
    <3>. QED BY <3>4, <3>6
  <2>3. CASE ~ (call[c].id \in ids /\ call[c].at \in {"write", "wait"})
    <3>1. call'[c] = call[c]
      BY <2>3
    <3>2. next' \in Nat /\ next' >= next /\ gate' = gate
      BY DEF BidiTypes
    <3>. QED BY <2>1, <3>1, <3>2, OthersKept
  <2>. QED BY <2>2, <2>3
<1>. QED BY <1>1

\* A command asks for the gate, gets it, sees its reply, returns it.
LEMMA CommandBidi ==
  ASSUME BidiIInv, NEW c \in Callers, Command(c) \/ TakeGate(c) \/ Answered(c) \/ Finish(c)
  PROVE  BidiIInv'
<1> USE DEF BidiIInv
<1>1. /\ \A d \in Callers \ {c} : call'[d] = call[d]
      /\ UNCHANGED <<next, pending, wire, inbox, reader, closer, owned, fox, profile>>
  BY DEF Command, TakeGate, Answered, Finish, Return, machine, BidiTypes
<1>2. OwedIds' = OwedIds /\ OneWriter' /\ KilledFirst'
  BY <1>1 DEF OneWriter, OwedIds, Taken, KilledFirst, ProfileOutlives
<1>3. call[c] \in Calls /\ Replied(c)
  BY DEF BidiTypes
<1>4. call' = [call EXCEPT ![c] = call'[c]] /\ call'[c] \in Calls /\ Replied(c)'
  <2>1. CASE Command(c)
    <3>0. [Idle EXCEPT !.at = "gate"] = [at |-> "gate", id |-> 0, replies |-> <<>>]
      BY DEF Idle
    <3>1. call' = [call EXCEPT ![c] = [at |-> "gate", id |-> 0, replies |-> <<>>]]
      BY <2>1, <3>0 DEF Command
    <3>2. [at |-> "gate", id |-> 0, replies |-> <<>>] \in Calls
      BY DEF Calls
    <3>. QED BY <3>1, <3>2 DEF BidiTypes, Replied
  <2>2. CASE TakeGate(c)
    <3>1. /\ call' = [call EXCEPT ![c] = [@ EXCEPT !.at = "start"]]
          /\ call[c].at = "gate" /\ gate' = c
      BY <2>2 DEF TakeGate, Return
    <3>2. [call[c] EXCEPT !.at = "start"] \in Calls
      BY <1>3 DEF Calls
    <3>. QED BY <1>3, <3>1, <3>2 DEF BidiTypes, Replied, Calls
  <2>3. CASE Answered(c)
    <3>1. /\ call' = [call EXCEPT ![c] = [@ EXCEPT !.at = IF Head(call[c].replies) = 0 THEN "idle" ELSE "ok"]]
          /\ call[c].at = "wait" /\ call[c].replies # <<>>
      BY <2>3 DEF Answered, Return
    <3>2. \A at \in {"idle", "ok"} : [call[c] EXCEPT !.at = at] \in Calls
      BY <1>3 DEF Calls
    <3>. QED BY <1>3, <3>1, <3>2 DEF BidiTypes, Replied, Calls
  <2>4. CASE Finish(c)
    <3>1. call' = [call EXCEPT ![c] = [@ EXCEPT !.at = "idle"]]
      BY <2>4 DEF Finish, Return
    <3>2. [call[c] EXCEPT !.at = "idle"] \in Calls
      BY <1>3 DEF Calls
    <3>. QED BY <1>3, <3>1, <3>2 DEF BidiTypes, Replied, Calls
  <2>. QED BY <2>1, <2>2, <2>3, <2>4
<1>5. BidiTypes'
  <2>1. gate' \in Callers \cup {None}
    BY DEF Command, TakeGate, Answered, Finish, BidiTypes
  <2>. QED BY <1>1, <1>4, <2>1 DEF BidiTypes
<1>6. \A d \in Callers \ {c} : Replied(d)'
  <2>1. \A d \in Callers \ {c} : gate' = gate \/ gate # d
    BY BidiAssumption, <1>3 DEF Command, TakeGate, Answered, Finish, Replied
  <2>. QED BY <1>1, <1>2, <1>5, <2>1, OthersKept DEF BidiTypes
<1>. QED BY <1>2, <1>4, <1>5, <1>6

\* A command registers, under the lock: a new id, which nobody owes yet.
LEMMA RegisterBidi ==
  ASSUME BidiIInv, NEW c \in Callers, Register(c)
  PROVE  BidiIInv'
<1> USE DEF BidiIInv
<1>1. UNCHANGED <<wire, inbox, closer, owned, fox, profile>> /\ call[c].at = "start"
  BY DEF Register, machine
<1>2. call[c] \in Calls /\ Replied(c) /\ gate = c /\ call[c].replies = <<>>
  BY <1>1 DEF BidiTypes, Replied
<1>3. KilledFirst'
  BY <1>1 DEF KilledFirst, ProfileOutlives
<1>4. CASE ~attached
  <2>1. /\ call' = [call EXCEPT ![c] = [@ EXCEPT !.at = "idle"]] /\ gate' = None
        /\ UNCHANGED <<next, pending, reader>>
    BY <1>4 DEF Register, Return
  <2>2. [call[c] EXCEPT !.at = "idle"] \in Calls
    BY <1>2 DEF Calls
  <2>3. BidiTypes'
    BY <1>1, <2>1, <2>2 DEF BidiTypes
  <2>4. OwedIds' = OwedIds /\ OneWriter'
    BY <1>1, <2>1 DEF OneWriter, OwedIds, Taken
  <2>5. Replied(c)'
    BY <1>2, <2>1 DEF BidiTypes, Replied, Calls
  <2>6. ASSUME NEW d \in Callers \ {c} PROVE Replied(d)'
    <3>1. call'[d] = call[d] /\ gate # d
      BY <1>2, <2>1 DEF BidiTypes
    <3>. QED BY <2>1, <2>4, <3>1, OthersKept DEF BidiTypes
  <2>. QED BY <1>3, <2>3, <2>4, <2>5, <2>6
<1>5. CASE attached
  <2>1. /\ call' = [call EXCEPT ![c] = [@ EXCEPT !.at = "write", !.id = next + 1]]
        /\ next' = next + 1 /\ gate' = gate
        /\ pending' = [i \in DOMAIN pending \cup {next + 1} |-> IF i = next + 1 THEN c ELSE pending[i]]
        /\ reader' = IF reader.at = "none" THEN [reader EXCEPT !.at = "read"] ELSE reader
    BY <1>5 DEF Register
  <2>2. [call[c] EXCEPT !.at = "write", !.id = next + 1] \in Calls
    <3>1. next + 1 \in Nat
      BY DEF BidiTypes
    <3>. QED BY <1>2, <3>1 DEF Calls
  <2>3. /\ reader' \in [at: {"none", "read", "deliver", "ended"}, id: Nat, to: SUBSET Nat]
        /\ reader'.id = reader.id /\ reader'.to = reader.to
    BY <2>1 DEF BidiTypes
  <2>4. BidiTypes'
    <3>1. next' \in Nat /\ gate' \in Callers \cup {None} /\ owned' \in BOOLEAN
      BY <1>1, <2>1 DEF BidiTypes
    <3>2. call' \in [Callers -> Calls]
      BY <2>1, <2>2 DEF BidiTypes
    <3>3. inbox' \in Seq(Nat) /\ wire' \subseteq Nat
      BY <1>1 DEF BidiTypes
    <3>. QED BY <1>1, <2>3, <3>1, <3>2, <3>3 DEF BidiTypes
  <2>5. /\ DOMAIN pending' = DOMAIN pending \cup {next + 1}
        /\ \A k \in Closers : Taken(k)' = Taken(k)
    BY <1>1, <2>1 DEF Taken
  <2>6. OwedIds' = OwedIds \cup {next + 1} /\ next + 1 \notin OwedIds
    BY <2>3, <2>5 DEF OwedIds, OneWriter, BidiTypes
  <2>7. OneWriter'
    <3>1. OwedIds' \subseteq 1 .. next'
      BY <2>1, <2>6 DEF OneWriter, BidiTypes
    <3>2. reader'.to \subseteq {reader'.id} /\ reader'.to \cap DOMAIN pending' = {}
      BY <2>3, <2>5, <2>6 DEF OneWriter, OwedIds
    <3>3. \A k \in Closers :
            /\ Taken(k)' \cap DOMAIN pending' = {} /\ Taken(k)' \cap reader'.to = {}
            /\ \A l \in Closers \ {k} : Taken(k)' \cap Taken(l)' = {}
      BY <2>3, <2>5, <2>6 DEF OneWriter, OwedIds
    <3>. QED BY <3>1, <3>2, <3>3 DEF OneWriter
  <2>8. Replied(c)'
    <3>1. /\ call'[c].at = "write" /\ call'[c].id = next + 1 /\ call'[c].replies = <<>>
      BY <1>2, <2>1 DEF BidiTypes, Calls
    <3>. QED BY <1>2, <2>1, <3>1 DEF Replied, BidiTypes
  <2>9. ASSUME NEW d \in Callers \ {c} PROVE Replied(d)'
    <3>1. call'[d] = call[d] /\ gate' = gate /\ next' \in Nat /\ next' >= next
      BY <2>1 DEF BidiTypes
    <3>. QED BY <2>6, <3>1, OthersKept
  <2>. QED BY <1>3, <2>4, <2>7, <2>8, <2>9
<1>. QED BY <1>4, <1>5

\* A command is written, or fails to be, or is given up: what was owed to it may
\* leave pending, and nothing else changes.
LEMMA LeavesBidi ==
  ASSUME BidiIInv, NEW c \in Callers, Write(c) \/ Expire(c)
  PROVE  BidiIInv'
<1> USE DEF BidiIInv
<1>1. UNCHANGED <<next, inbox, reader, closer, owned, fox, profile>>
  BY DEF Write, Expire, machine
<1>2. call[c] \in Calls /\ Replied(c)
  BY DEF BidiTypes
<1>3. PICK at \in {"idle", "wait"} :
        /\ call' = [call EXCEPT ![c] = [@ EXCEPT !.at = at]]
        /\ at = "wait" => call[c].at = "write" /\ gate' = gate
        /\ gate' = gate \/ (gate' = None /\ (gate = c \/ call[c].at = "write"))
  <2>1. CASE Write(c) /\ socket
    BY <2>1 DEF Write, Return
  <2>2. CASE Write(c) /\ ~socket
    BY <2>2 DEF Write, Return
  <2>3. CASE Expire(c)
    <3>1. call' = [call EXCEPT ![c] = [@ EXCEPT !.at = "idle"]]
      BY <2>3 DEF Expire, Return
    <3>2. gate' = gate \/ (gate' = None /\ gate = c)
      BY <2>3 DEF Expire
    <3>. QED BY <3>1, <3>2
  <2>. QED BY <2>1, <2>2, <2>3
<1>4. pending' = pending \/ pending' = Drop(c)
  BY DEF Write, Expire
<1>5. wire' \subseteq Nat
  BY <1>2 DEF Write, Expire, Calls, BidiTypes
<1>6. [call[c] EXCEPT !.at = at] \in Calls
  BY <1>2 DEF Calls
<1>7. BidiTypes'
  BY <1>1, <1>3, <1>5, <1>6 DEF BidiTypes
<1>8. DOMAIN pending' \subseteq DOMAIN pending /\ \A k \in Closers : Taken(k)' = Taken(k)
  BY <1>1, <1>4 DEF Drop, Taken
<1>9. OwedIds' \subseteq OwedIds
  BY <1>1, <1>8 DEF OwedIds
<1>10. OneWriter'
  BY <1>1, <1>8, <1>9 DEF OneWriter
<1>11. Replied(c)'
  <2>1. /\ call'[c].at = at /\ call'[c].id = call[c].id /\ call'[c].replies = call[c].replies
    BY <1>2, <1>3 DEF BidiTypes, Calls
  <2>. QED BY <1>1, <1>2, <1>3, <1>9, <2>1 DEF Replied
<1>12. ASSUME NEW d \in Callers \ {c} PROVE Replied(d)'
  <2>1. call'[d] = call[d] /\ (gate' = gate \/ gate # d)
    BY <1>2, <1>3 DEF BidiTypes, Replied
  <2>. QED BY <1>1, <1>9, <2>1, OthersKept DEF BidiTypes
<1>13. KilledFirst'
  BY <1>1 DEF KilledFirst, ProfileOutlives
<1>. QED BY <1>7, <1>10, <1>11, <1>12, <1>13

\* What a command holds stays its own when less is owed.
LEMMA CommandsKept ==
  ASSUME BidiIInv, UNCHANGED <<call, gate, next>>, OwedIds' \subseteq OwedIds
  PROVE  \A c \in Callers : Replied(c)'
<1>1. next' \in Nat /\ next' >= next
  BY DEF BidiIInv, BidiTypes
<1>. QED BY <1>1, OthersKept

\* The browser answers, the socket is lost, a Close kills the browser and
\* removes its profile: no command is touched.
LEMMA FirefoxBidi ==
  ASSUME BidiIInv, (\E id \in wire : Browser(id)) \/ Lost \/ (\E k \in Closers : Kill(k) \/ RemoveProfile(k))
  PROVE  BidiIInv'
<1> USE DEF BidiIInv
<1>1. UNCHANGED <<call, gate, next, pending, reader, owned>>
  BY DEF Browser, Lost, Kill, RemoveProfile, machine
<1>2. inbox' \in Seq(Nat) /\ wire' \subseteq Nat
  <2>1. ASSUME NEW id \in wire, Browser(id) PROVE inbox' \in Seq(Nat) /\ wire' \subseteq Nat
    <3>1. inbox' = Append(inbox, id) /\ wire' = wire \ {id} /\ id \in Nat /\ inbox \in Seq(Nat) /\ wire \subseteq Nat
      BY <2>1 DEF Browser, BidiTypes
    <3>. QED BY ONLY <3>1
  <2>2. ASSUME UNCHANGED <<inbox, wire>> PROVE inbox' \in Seq(Nat) /\ wire' \subseteq Nat
    BY <2>2 DEF BidiTypes
  <2>. QED BY <2>1, <2>2 DEF Lost, Kill, RemoveProfile
<1>3. /\ closer' \in [Closers -> [at: {"idle", "socket", "kill", "remove", "done"}, ids: SUBSET Nat, owns: BOOLEAN]]
      /\ (\A k \in Closers : Taken(k)' = Taken(k)) /\ KilledFirst'
  <2>1. ASSUME UNCHANGED <<closer, owned, fox, profile>>
        PROVE  /\ closer' \in [Closers -> [at: {"idle", "socket", "kill", "remove", "done"}, ids: SUBSET Nat, owns: BOOLEAN]]
               /\ (\A k \in Closers : Taken(k)' = Taken(k)) /\ KilledFirst'
    BY <2>1 DEF BidiTypes, Taken, KilledFirst, ProfileOutlives
  <2>2. ASSUME NEW k \in Closers, Kill(k)
        PROVE  /\ closer' \in [Closers -> [at: {"idle", "socket", "kill", "remove", "done"}, ids: SUBSET Nat, owns: BOOLEAN]]
               /\ (\A l \in Closers : Taken(l)' = Taken(l)) /\ KilledFirst'
    <3>1. /\ closer' = [closer EXCEPT ![k] = [@ EXCEPT !.at = "remove"]]
          /\ closer[k].at = "kill" /\ fox' = (fox /\ ~closer[k].owns) /\ profile' = profile
      BY <2>2 DEF Kill
    <3>. QED BY <3>1 DEF BidiTypes, Taken, KilledFirst, ProfileOutlives
  <2>3. ASSUME NEW k \in Closers, RemoveProfile(k)
        PROVE  /\ closer' \in [Closers -> [at: {"idle", "socket", "kill", "remove", "done"}, ids: SUBSET Nat, owns: BOOLEAN]]
               /\ (\A l \in Closers : Taken(l)' = Taken(l)) /\ KilledFirst'
    <3>1. /\ closer' = [closer EXCEPT ![k] = [@ EXCEPT !.at = "done"]]
          /\ closer[k].at = "remove" /\ profile' = (profile /\ ~closer[k].owns) /\ fox' = fox
      BY <2>3 DEF RemoveProfile
    <3>. QED BY <3>1 DEF BidiTypes, Taken, KilledFirst, ProfileOutlives
  <2>. QED BY <2>1, <2>2, <2>3 DEF Browser, Lost, machine
<1>4. BidiTypes'
  BY <1>1, <1>2, <1>3 DEF BidiTypes
<1>5. OwedIds' = OwedIds /\ OneWriter'
  BY <1>1, <1>3 DEF OwedIds, OneWriter
<1>. QED BY <1>1, <1>3, <1>4, <1>5, CommandsKept

\* The reader takes an answer off the socket, and its command out of pending.
LEMMA TakeBidi ==
  ASSUME BidiIInv, Take
  PROVE  BidiIInv'
<1> USE DEF BidiIInv
<1>1. UNCHANGED <<call, gate, next, wire, closer, owned, fox, profile>>
  BY DEF Take, machine
<1>2. Head(inbox) \in Nat /\ inbox' \in Seq(Nat)
  <2>1. inbox \in Seq(Nat) /\ inbox # <<>> /\ inbox' = Tail(inbox)
    BY DEF Take, BidiTypes
  <2>. QED BY ONLY <2>1
<1>3. /\ reader' = [at |-> "deliver", id |-> Head(inbox), to |-> {Head(inbox)} \cap DOMAIN pending]
      /\ DOMAIN pending' = DOMAIN pending \ {Head(inbox)}
  BY DEF Take
<1>4. BidiTypes'
  BY <1>1, <1>2, <1>3 DEF BidiTypes
<1>5. \A k \in Closers : Taken(k)' = Taken(k)
  BY <1>1 DEF Taken
<1>6. OwedIds' \subseteq OwedIds /\ OneWriter'
  BY <1>1, <1>3, <1>5 DEF OwedIds, OneWriter
<1>7. KilledFirst'
  BY <1>1 DEF KilledFirst, ProfileOutlives
<1>. QED BY <1>1, <1>4, <1>6, <1>7, CommandsKept

\* The reader writes the reply.
LEMMA DeliverBidi ==
  ASSUME BidiIInv, Deliver
  PROVE  BidiIInv'
<1> USE DEF BidiIInv
<1>1. UNCHANGED <<gate, next, pending, wire, inbox, closer, owned, fox, profile>>
  BY DEF Deliver, machine
<1>2. /\ reader' \in [at: {"none", "read", "deliver", "ended"}, id: Nat, to: SUBSET Nat]
      /\ reader'.to = {}
  BY DEF Deliver, BidiTypes
<1>3. /\ reader.to \subseteq OwedIds /\ reader.id \in Nat /\ reader.to \subseteq {reader.id}
      /\ \A k \in Closers : Taken(k)' = Taken(k)
  BY <1>1 DEF OwedIds, BidiTypes, OneWriter, Taken
<1>4. OwedIds' \subseteq OwedIds \ reader.to /\ OneWriter'
  BY <1>1, <1>2, <1>3 DEF OwedIds, OneWriter
<1>5. call' \in [Callers -> Calls] /\ \A c \in Callers : Replied(c)'
  <2>1. call' = [c \in Callers |-> IF call[c].id \in reader.to /\ call[c].at \in {"write", "wait"}
                                   THEN [call[c] EXCEPT !.replies = Append(@, reader.id)] ELSE call[c]]
    BY DEF Deliver
  <2>. QED BY <1>1, <1>3, <1>4, <2>1, Answers
<1>6. BidiTypes'
  BY <1>1, <1>2, <1>5 DEF BidiTypes
<1>7. KilledFirst'
  BY <1>1 DEF KilledFirst, ProfileOutlives
<1>. QED BY <1>4, <1>5, <1>6, <1>7

\* The reader finds the socket closed: unless a Close has been here, it fails
\* the commands that wait.
LEMMA ReaderFailsBidi ==
  ASSUME BidiIInv, ReaderFails
  PROVE  BidiIInv'
<1> USE DEF BidiIInv
<1>1. UNCHANGED <<gate, next, wire, inbox, closer, owned, fox, profile>>
  BY DEF ReaderFails, machine
<1>2. /\ reader' \in [at: {"none", "read", "deliver", "ended"}, id: Nat, to: SUBSET Nat]
      /\ reader'.to = reader.to /\ reader'.id = reader.id
  BY DEF ReaderFails, BidiTypes
<1>3. \A k \in Closers : Taken(k)' = Taken(k)
  BY <1>1 DEF Taken
<1>4. KilledFirst'
  BY <1>1 DEF KilledFirst, ProfileOutlives
<1>5. CASE attached
  <2>1. call' = Fail(DOMAIN pending) /\ pending' = <<>>
    BY <1>5 DEF ReaderFails
  <2>2. DOMAIN pending \subseteq OwedIds /\ DOMAIN pending' = {}
    BY <2>1 DEF OwedIds
  <2>3. OwedIds' \subseteq OwedIds \ DOMAIN pending /\ OneWriter'
    BY <1>1, <1>2, <1>3, <2>2 DEF OwedIds, OneWriter
  <2>4. call' \in [Callers -> Calls] /\ \A c \in Callers : Replied(c)'
    BY <1>1, <2>1, <2>2, <2>3, Answers DEF Fail
  <2>5. BidiTypes'
    BY <1>1, <1>2, <2>4 DEF BidiTypes
  <2>. QED BY <1>4, <2>3, <2>4, <2>5
<1>6. CASE ~attached
  <2>1. UNCHANGED <<call, pending>>
    BY <1>6 DEF ReaderFails
  <2>2. BidiTypes'
    BY <1>1, <1>2, <2>1 DEF BidiTypes
  <2>3. OwedIds' \subseteq OwedIds /\ OneWriter'
    BY <1>1, <1>2, <1>3, <2>1 DEF OwedIds, OneWriter
  <2>. QED BY <1>1, <1>4, <2>1, <2>2, <2>3, CommandsKept
<1>. QED BY <1>5, <1>6

\* A Close takes what waits, under the lock, then closes the socket and fails it.
LEMMA CloseBidi ==
  ASSUME BidiIInv, NEW k \in Closers, Detach(k) \/ CloseSocket(k)
  PROVE  BidiIInv'
<1> USE DEF BidiIInv
<1>1. UNCHANGED <<gate, next, wire, inbox, reader, fox, profile>>
  BY DEF Detach, CloseSocket, machine
<1>2. DOMAIN pending \subseteq Nat
  BY DEF OneWriter, OwedIds, BidiTypes
<1>3. CASE Detach(k)
  <2>1. /\ closer[k].at = "idle" /\ call' = call /\ pending' = <<>>
        /\ closer' = [closer EXCEPT ![k] = [at |-> "socket", ids |-> DOMAIN pending, owns |-> owned]]
    BY <1>3 DEF Detach
  <2>2. /\ closer' \in [Closers -> [at: {"idle", "socket", "kill", "remove", "done"}, ids: SUBSET Nat, owns: BOOLEAN]]
        /\ KilledFirst' /\ DOMAIN pending' = {}
    BY <1>1, <1>2, <2>1 DEF BidiTypes, KilledFirst, ProfileOutlives
  <2>3. /\ Taken(k) = {} /\ Taken(k)' = DOMAIN pending
        /\ \A l \in Closers \ {k} : Taken(l)' = Taken(l)
    BY <2>1 DEF BidiTypes, Taken
  <2>4. OwedIds' \subseteq OwedIds /\ OneWriter'
    BY <1>1, <2>2, <2>3 DEF OwedIds, OneWriter
  <2>5. owned' \in BOOLEAN
    BY <1>3 DEF Detach
  <2>6. BidiTypes'
    BY <1>1, <2>1, <2>2, <2>5 DEF BidiTypes
  <2>. QED BY <1>1, <2>1, <2>2, <2>4, <2>6, CommandsKept
<1>4. CASE CloseSocket(k)
  <2>1. /\ closer[k].at = "socket" /\ call' = Fail(closer[k].ids) /\ pending' = pending
        /\ closer' = [closer EXCEPT ![k] = [@ EXCEPT !.at = "kill"]]
    BY <1>4 DEF CloseSocket
  <2>2. /\ closer' \in [Closers -> [at: {"idle", "socket", "kill", "remove", "done"}, ids: SUBSET Nat, owns: BOOLEAN]]
        /\ KilledFirst'
    BY <1>1, <2>1 DEF BidiTypes, KilledFirst, ProfileOutlives
  <2>3. /\ Taken(k) = closer[k].ids /\ Taken(k)' = {} /\ closer[k].ids \subseteq OwedIds
        /\ \A l \in Closers \ {k} : Taken(l)' = Taken(l)
    BY <2>1 DEF BidiTypes, Taken, OwedIds
  <2>4. OwedIds' \subseteq OwedIds \ closer[k].ids /\ OneWriter'
    BY <1>1, <2>1, <2>3 DEF OwedIds, OneWriter
  <2>5. call' \in [Callers -> Calls] /\ \A c \in Callers : Replied(c)'
    BY <1>1, <2>1, <2>3, <2>4, Answers DEF Fail
  <2>6. owned' \in BOOLEAN
    BY <1>4 DEF CloseSocket, machine, BidiTypes
  <2>7. BidiTypes'
    BY <1>1, <2>2, <2>5, <2>6 DEF BidiTypes
  <2>. QED BY <2>2, <2>4, <2>5, <2>7
<1>. QED BY <1>3, <1>4

LEMMA NextBidi == BidiIInv /\ [BidiNext]_bidiVars => BidiIInv'
<1> SUFFICES ASSUME BidiIInv, [BidiNext]_bidiVars PROVE BidiIInv'
  OBVIOUS
<1>1. ASSUME NEW c \in Callers, Command(c) PROVE BidiIInv'
  BY <1>1, CommandBidi
<1>2. ASSUME NEW c \in Callers, Step(c) PROVE BidiIInv'
  BY <1>2, CommandBidi, RegisterBidi, LeavesBidi DEF Step
<1>3. ASSUME NEW c \in Callers, Expire(c) PROVE BidiIInv'
  BY <1>3, LeavesBidi
<1>4. ASSUME NEW id \in wire, Browser(id) PROVE BidiIInv'
  BY <1>4, FirefoxBidi
<1>5. CASE Take
  BY <1>5, TakeBidi
<1>6. CASE Deliver
  BY <1>6, DeliverBidi
<1>7. CASE ReaderFails
  BY <1>7, ReaderFailsBidi
<1>8. CASE Lost
  BY <1>8, FirefoxBidi
<1>9. ASSUME NEW k \in Closers, Detach(k) PROVE BidiIInv'
  BY <1>9, CloseBidi
<1>10. ASSUME NEW k \in Closers, CloseStep(k) PROVE BidiIInv'
  BY <1>10, CloseBidi, FirefoxBidi DEF CloseStep
<1>11. CASE UNCHANGED bidiVars
  <2>1. UNCHANGED <<call, gate, next, pending, wire, inbox, reader, closer, owned, fox, profile>>
    BY <1>11 DEF bidiVars, machine
  <2>2. BidiTypes' /\ OwedIds' = OwedIds /\ OneWriter' /\ KilledFirst'
    BY <2>1 DEF BidiIInv, BidiTypes, OwedIds, Taken, OneWriter, KilledFirst, ProfileOutlives
  <2>. QED BY <2>1, <2>2, CommandsKept DEF BidiIInv
<1>. QED BY <1>1, <1>2, <1>3, <1>4, <1>5, <1>6, <1>7, <1>8, <1>9, <1>10, <1>11 DEF BidiNext

\* The inductive invariant of the browser session holds.
THEOREM BrowserInvariance == BidiSpec => []BidiIInv
BY InitBidi, NextBidi, PTL DEF BidiSpec

\* A command gets its own reply and just one, whatever is given up, lost or closed
\* meanwhile, and the profile outlives the browser that uses it (captcha/bidi.go).
THEOREM BrowserSafety == BidiSpec => []BrowserSafe
<1>1. BidiIInv => BrowserSafe
  BY DEF BidiIInv, BrowserSafe, OwnReply, OneReply, Replied, KilledFirst
<1>. QED BY <1>1, BrowserInvariance, PTL

-----------------------------------------------------------------------------
(* The login                                                               *)

LEMMA InitLogin == LoginInit => LoginIInv
<1> SUFFICES ASSUME LoginInit PROVE LoginIInv
  OBVIOUS
<1>1. posts = <<>> /\ Prompts = {}
  BY DEF LoginInit, Prompts
<1>2. posts \in Seq(Closures)
  <2>. QED BY ONLY <1>1
<1>3. /\ ra = [at |-> "dial", mode |-> Nothing, err |-> FALSE]
      /\ answer = Nothing /\ ~canceled /\ ~firefox /\ ~conn
      /\ panel = [status |-> "progress", captcha |-> "", image |-> FALSE, session |-> FALSE,
                  prompt |-> FALSE, asked |-> FALSE]
  BY DEF LoginInit, Blank
<1>4. canceled \in BOOLEAN /\ firefox \in BOOLEAN /\ conn \in BOOLEAN
  BY DEF LoginInit
<1>5. LoginTypes
  BY <1>2, <1>3, <1>4 DEF LoginTypes
<1>6. AskedOnce /\ NothingLeft
  BY <1>1, <1>3, LoginAssumption DEF AskedOnce, NothingLeft, At
<1>. QED BY <1>5, <1>6 DEF LoginIInv

\* What Append and Tail do to a queue.
LEMMA QueueFacts ==
  ASSUME NEW S, NEW q \in Seq(S)
  PROVE  /\ DOMAIN q = 1 .. Len(q) /\ Len(q) \in Nat
         /\ \A e \in S : /\ Append(q, e) \in Seq(S) /\ Len(Append(q, e)) = Len(q) + 1
                         /\ Append(q, e)[Len(q) + 1] = e
                         /\ \A i \in 1 .. Len(q) : Append(q, e)[i] = q[i]
         /\ q # <<>> => /\ Len(q) >= 1 /\ Head(q) = q[1] /\ Tail(q) \in Seq(S) /\ Len(Tail(q)) = Len(q) - 1
                        /\ \A i \in 1 .. Len(q) - 1 : Tail(q)[i] = q[i + 1]
OBVIOUS

\* A closure that is posted, other than the prompt, leaves the prompts where they are.
LEMMA PostKept ==
  ASSUME LoginTypes, NEW kind \in Closures, kind # "prompt", Accept(kind) \/ UNCHANGED posts
  PROVE  posts' \in Seq(Closures) /\ Prompts' = Prompts
<1>1. posts \in Seq(Closures)
  BY DEF LoginTypes
<1>2. CASE posts' = Append(posts, kind)
  <2>1. posts' \in Seq(Closures)
    BY <1>1, <1>2, QueueFacts
  <2>2. /\ DOMAIN posts = 1 .. Len(posts) /\ DOMAIN posts' = 1 .. Len(posts) + 1 /\ Len(posts) \in Nat
        /\ posts'[Len(posts) + 1] = kind /\ \A i \in 1 .. Len(posts) : posts'[i] = posts[i]
    BY <1>1, <1>2, <2>1, QueueFacts
  <2>. QED BY <2>1, <2>2 DEF Prompts
<1>3. CASE posts' = posts
  BY <1>1, <1>3 DEF Prompts
<1>. QED BY <1>2, <1>3 DEF Accept

\* A step that asks nothing and answers nothing keeps the invariant when the login
\* does not start over, does not stop waiting and leaves nothing behind.
LEMMA QuietLogin ==
  ASSUME LoginIInv, UNCHANGED <<panel, answer>>, posts' \in Seq(Closures), Prompts' = Prompts,
         firefox' \in BOOLEAN, conn' \in BOOLEAN, canceled' \in BOOLEAN, canceled => canceled',
         DOMAIN ra' = {"at", "mode", "err"},
         ra'.at \in {"dial", "read", "exchange"} => ra.at \in {"dial", "read", "exchange"},
         At("choosing") => ra'.at = "choosing" \/ canceled' \/ answer # "open",
         ra'.at = "ended" => ~firefox' /\ ~conn'
  PROVE  LoginIInv'
<1>1. LoginTypes'
  BY DEF LoginIInv, LoginTypes
<1>2. NothingLeft'
  BY DEF NothingLeft, At
<1>3. AskedOnce'
  BY DEF LoginIInv, AskedOnce, At
<1>. QED BY <1>1, <1>2, <1>3 DEF LoginIInv

\* The UI goroutine runs a closure; the prompt is asked when its own is run.
LEMMA RunPostLogin ==
  ASSUME LoginIInv, RunPost
  PROVE  LoginIInv'
<1>1. /\ posts \in Seq(Closures) /\ posts # <<>> /\ posts' = Tail(posts)
      /\ panel' = Draws(Head(posts)) /\ UNCHANGED <<ra, conn, answer, firefox>>
      /\ canceled' = (canceled \/ Head(posts) = "logged in")
  BY DEF LoginIInv, LoginTypes, RunPost
<1>2. /\ posts' \in Seq(Closures) /\ Head(posts) = posts[1] /\ Len(posts) \in Nat /\ Len(posts) >= 1
      /\ DOMAIN posts = 1 .. Len(posts) /\ DOMAIN posts' = 1 .. Len(posts) - 1
      /\ \A i \in 1 .. Len(posts) - 1 : posts'[i] = posts[i + 1]
  <2>1. posts' \in Seq(Closures)
    BY <1>1, QueueFacts
  <2>. QED BY <1>1, <2>1, QueueFacts
<1>3. /\ DOMAIN panel' = {"status", "captcha", "image", "session", "prompt", "asked"}
      /\ panel'.asked = (panel.asked \/ Head(posts) = "prompt")
      /\ panel'.prompt = (panel.prompt \/ Head(posts) = "prompt")
  <2>1. /\ DOMAIN panel = {"status", "captcha", "image", "session", "prompt", "asked"}
        /\ panel.asked \in BOOLEAN /\ panel.prompt \in BOOLEAN
    BY DEF LoginIInv, LoginTypes
  <2>2. CASE Head(posts) = "prompt"
    <3>1. panel' = [panel EXCEPT !.prompt = TRUE, !.asked = TRUE, !.status = "progress"]
      BY <1>1, <2>2 DEF Draws
    <3>. QED BY <2>1, <2>2, <3>1
  <2>3. CASE Head(posts) = "session"
    <3>1. panel' = [panel EXCEPT !.session = TRUE, !.image = TRUE, !.captcha = "solve it"]
      BY <1>1, <2>3 DEF Draws
    <3>. QED BY <2>1, <2>3, <3>1
  <2>4. CASE Head(posts) = "window"
    <3>1. panel' = [panel EXCEPT !.session = FALSE, !.captcha = "in firefox", !.status = "in firefox"]
      BY <1>1, <2>4 DEF Draws
    <3>. QED BY <2>1, <2>4, <3>1
  <2>5. CASE Head(posts) = "frame"
    <3>1. panel' = [panel EXCEPT !.image = TRUE]
      BY <1>1, <2>5 DEF Draws
    <3>. QED BY <2>1, <2>5, <3>1
  <2>6. CASE Head(posts) \notin {"prompt", "session", "window", "frame"}
    <3>1. panel' = [panel EXCEPT !.status = Head(posts)]
      BY <1>1, <2>6 DEF Draws
    <3>. QED BY <2>1, <2>6, <3>1
  <2>. QED BY <2>2, <2>3, <2>4, <2>5, <2>6
<1>4. LoginTypes'
  BY <1>1, <1>2, <1>3 DEF LoginIInv, LoginTypes
<1>5. /\ \A i \in Prompts' : i + 1 \in Prompts /\ i \in Nat /\ i >= 1
      /\ Head(posts) = "prompt" => 1 \in Prompts
  BY <1>2 DEF Prompts
<1>6. (\A i, j \in Prompts' : i = j) /\ (panel'.asked => panel'.prompt /\ Prompts' = {})
  <2>1. /\ \A i, j \in Prompts : i = j
        /\ panel.asked => panel.prompt /\ Prompts = {}
    BY DEF LoginIInv, AskedOnce
  <2>2. ASSUME NEW i \in Prompts', NEW j \in Prompts' PROVE i = j
    <3>1. i + 1 = j + 1 /\ i \in Nat /\ j \in Nat
      BY <1>5, <2>1
    <3>. QED BY <3>1
  <2>3. ASSUME Head(posts) = "prompt", NEW i \in Prompts' PROVE FALSE
    <3>1. i + 1 = 1 /\ i \in Nat /\ i >= 1
      BY <1>5, <2>1, <2>3
    <3>. QED BY <3>1
  <2>4. panel.asked => Prompts' = {}
    BY <1>5, <2>1
  <2>. QED BY <1>3, <2>1, <2>2, <2>3, <2>4
<1>7. /\ ra.at \in {"dial", "read", "exchange"} => Prompts' = {} /\ ~panel'.asked
      /\ panel'.asked \/ Prompts' # {} => answer = "open"
  BY <1>3, <1>5 DEF LoginIInv, AskedOnce
<1>8. AskedOnce'
  BY <1>1, <1>6, <1>7 DEF LoginIInv, AskedOnce, At
<1>9. NothingLeft'
  BY <1>1 DEF LoginIInv, NothingLeft, At
<1>. QED BY <1>4, <1>8, <1>9 DEF LoginIInv

\* The user chooses how to answer, or gives up: the prompt is gone with its channel's room.
LEMMA SelectModeLogin ==
  ASSUME LoginIInv, NEW m \in Modes \cup {"closed"}, SelectMode(m)
  PROVE  LoginIInv'
<1>1. /\ panel.asked /\ answer' = m /\ m # "open" /\ UNCHANGED <<ra, conn, canceled, firefox, posts>>
      /\ panel' = [panel EXCEPT !.prompt = FALSE, !.asked = FALSE]
  BY LoginAssumption DEF SelectMode
<1>2. /\ DOMAIN panel' = {"status", "captcha", "image", "session", "prompt", "asked"}
      /\ panel'.asked = FALSE /\ panel'.prompt = FALSE
  BY <1>1 DEF LoginIInv, LoginTypes
<1>3. LoginTypes'
  BY <1>1, <1>2 DEF LoginIInv, LoginTypes
<1>4. Prompts' = {}
  BY <1>1 DEF LoginIInv, AskedOnce, Prompts
<1>5. AskedOnce'
  BY <1>1, <1>2, <1>4 DEF LoginIInv, AskedOnce, At
<1>6. NothingLeft'
  BY <1>1 DEF LoginIInv, NothingLeft, At
<1>. QED BY <1>3, <1>5, <1>6 DEF LoginIInv

\* The ticket's exchange ends in a token, an error, or the one prompt of the login.
LEMMA ExchangeLogin ==
  ASSUME LoginIInv, Exchange
  PROVE  LoginIInv'
<1>1. /\ ra.at = "exchange" /\ Prompts = {} /\ ~panel.asked /\ DOMAIN ra = {"at", "mode", "err"}
      /\ UNCHANGED <<panel, canceled, conn, firefox>>
  BY DEF Exchange, At, LoginIInv, AskedOnce, LoginTypes, screen
<1>2. CASE UNCHANGED <<posts, answer>> /\ (Go("deliver") \/ Give(TRUE))
  <2>1. /\ ra' = [ra EXCEPT !.at = "deliver"] \/ ra' = [ra EXCEPT !.at = "unwind", !.err = TRUE]
    BY <1>2 DEF Go, Give
  <2>2. DOMAIN ra' = {"at", "mode", "err"} /\ ra'.at \in {"deliver", "unwind"}
    BY <1>1, <2>1
  <2>3. posts' \in Seq(Closures) /\ Prompts' = Prompts
    BY <1>2 DEF LoginIInv, LoginTypes, Prompts
  <2>. QED BY <1>1, <1>2, <2>2, <2>3, QuietLogin DEF LoginIInv, LoginTypes, At
<1>3. CASE Go("choosing") /\ answer' = "open" /\ Accept("prompt")
  <2>1. DOMAIN ra' = {"at", "mode", "err"} /\ ra'.at = "choosing"
    BY <1>1, <1>3 DEF Go
  <2>2. posts \in Seq(Closures) /\ "prompt" \in Closures
    <3>1. posts \in Seq(Closures)
      BY DEF LoginIInv, LoginTypes
    <3>2. "prompt" \in Closures
      BY DEF Closures
    <3>. QED BY <3>1, <3>2
  <2>3. posts' \in Seq(Closures) /\ \A i, j \in Prompts' : i = j
    <3>1. CASE posts' = posts
      BY <1>1, <2>2, <3>1 DEF Prompts
    <3>2. CASE posts' = Append(posts, "prompt")
      <4>1. posts' \in Seq(Closures)
        BY <2>2, <3>2, QueueFacts
      <4>2. /\ DOMAIN posts = 1 .. Len(posts) /\ DOMAIN posts' = 1 .. Len(posts) + 1 /\ Len(posts) \in Nat
            /\ \A i \in 1 .. Len(posts) : posts'[i] = posts[i]
        BY <2>2, <3>2, <4>1, QueueFacts
      <4>3. Prompts' \subseteq {Len(posts) + 1}
        BY <1>1, <4>2 DEF Prompts
      <4>. QED BY <4>1, <4>3
    <3>. QED BY <1>3, <3>1, <3>2 DEF Accept
  <2>4. LoginTypes'
    BY <1>1, <2>1, <2>3 DEF LoginIInv, LoginTypes
  <2>5. AskedOnce'
    BY <1>1, <1>3, <2>1, <2>3 DEF AskedOnce, At
  <2>6. NothingLeft'
    BY <2>1 DEF NothingLeft, At
  <2>. QED BY <2>4, <2>5, <2>6 DEF LoginIInv
<1>. QED BY <1>2, <1>3 DEF Exchange
\* The screen's own steps: a pasted token, Ctrl+C, the loop that leaves and ends.
LEMMA ScreenLogin ==
  ASSUME LoginIInv, Paste \/ Abort \/ Leave \/ LoopEnds
  PROVE  LoginIInv'
<1>1. /\ UNCHANGED <<panel, answer, posts, ra, firefox, conn>>
      /\ canceled' = canceled \/ canceled' = TRUE
  BY DEF Paste, Abort, Leave, LoopEnds, screen
<1>2. posts' \in Seq(Closures) /\ Prompts' = Prompts
  BY <1>1 DEF LoginIInv, LoginTypes, Prompts
<1>3. /\ firefox' \in BOOLEAN /\ conn' \in BOOLEAN /\ canceled' \in BOOLEAN /\ (canceled => canceled')
      /\ DOMAIN ra' = {"at", "mode", "err"}
  BY <1>1 DEF LoginIInv, LoginTypes
<1>. QED BY <1>1, <1>2, <1>3, QuietLogin DEF LoginIInv, NothingLeft, At

\* The connection and the heartbeat: neither asks anything.
LEMMA WireLogin ==
  ASSUME LoginIInv, Dial \/ CloseConn \/ (\E c \in BOOLEAN : ReadFails(c)) \/ HeartStops
  PROVE  LoginIInv'
<1>1. UNCHANGED <<panel, answer, posts, firefox, canceled>>
  BY DEF Dial, CloseConn, ReadFails, HeartStops, screen
<1>2. /\ posts' \in Seq(Closures) /\ Prompts' = Prompts
      /\ firefox' \in BOOLEAN /\ canceled' \in BOOLEAN /\ (canceled => canceled')
      /\ DOMAIN ra = {"at", "mode", "err"} /\ conn \in BOOLEAN
  BY <1>1 DEF LoginIInv, LoginTypes, Prompts
<1>3. CASE Dial /\ conn' = TRUE /\ Go("read")
  <2>1. DOMAIN ra' = {"at", "mode", "err"} /\ ra'.at = "read" /\ ra.at = "dial"
    BY <1>2, <1>3 DEF Dial, Go, At
  <2>. QED BY <1>1, <1>2, <1>3, <2>1, QuietLogin DEF At
<1>4. CASE UNCHANGED conn /\ \E e \in BOOLEAN : Give(e) /\ ra.at \in {"dial", "read"}
  <2>1. DOMAIN ra' = {"at", "mode", "err"} /\ ra'.at = "unwind" /\ ra.at \in {"dial", "read"}
    BY <1>2, <1>4 DEF Give
  <2>. QED BY <1>1, <1>2, <1>4, <2>1, QuietLogin DEF At
<1>5. CASE ra' = ra /\ (conn' = conn \/ conn' = FALSE)
  <2>1. ra.at = "ended" => ~firefox /\ ~conn
    BY DEF LoginIInv, NothingLeft, At
  <2>2. conn' \in BOOLEAN /\ (ra'.at = "ended" => ~firefox' /\ ~conn')
    <3>1. firefox' = firefox /\ ra' = ra
      BY <1>1, <1>5
    <3>2. CASE conn' = conn
      BY <1>2, <2>1, <3>1, <3>2
    <3>3. CASE conn' = FALSE
      BY <2>1, <3>1, <3>3
    <3>. QED BY <1>5, <3>2, <3>3
  <2>3. DOMAIN ra' = {"at", "mode", "err"} /\ ra'.at = ra.at
    BY <1>2, <1>5
  <2>. QED BY <1>1, <1>2, <2>2, <2>3, QuietLogin DEF At
<1>6. ASSUME Dial PROVE LoginIInv'
  <2>1. \/ conn' = TRUE /\ Go("read")
        \/ Give(TRUE) /\ UNCHANGED conn /\ ra.at = "dial"
    BY <1>6 DEF Dial, At
  <2>. QED BY <1>3, <1>4, <1>6, <2>1
<1>7. ASSUME NEW c \in BOOLEAN, ReadFails(c) PROVE LoginIInv'
  <2>1. (~c /\ ~canceled) \in BOOLEAN
    BY <1>7
  <2>. QED BY <1>4, <1>7, <2>1 DEF ReadFails, At
<1>8. ASSUME CloseConn \/ HeartStops PROVE LoginIInv'
  BY <1>5, <1>8 DEF CloseConn, HeartStops
<1>. QED BY <1>6, <1>7, <1>8

\* The gateway's frames: a line on the screen at most, and a step towards the ticket.
LEMMA FrameLogin ==
  ASSUME LoginIInv, (\E k \in DOMAIN Frames : Frame(k)) \/ CancelFrame
  PROVE  LoginIInv'
<1>1. UNCHANGED <<panel, answer, firefox, canceled, conn>> /\ ra.at = "read"
  BY DEF Frame, CancelFrame, screen, At
<1>2. /\ Accept("progress") \/ Accept("refused") \/ UNCHANGED posts
      /\ ra' = ra \/ Go("exchange") \/ (\E e \in BOOLEAN : Give(e))
  BY DEF Frame, CancelFrame
<1>3. posts' \in Seq(Closures) /\ Prompts' = Prompts
  <2>1. LoginTypes /\ "progress" \in Closures /\ "refused" \in Closures
    BY DEF LoginIInv, Closures
  <2>. QED BY <1>2, <2>1, PostKept
<1>4. /\ firefox' \in BOOLEAN /\ conn' \in BOOLEAN /\ canceled' \in BOOLEAN /\ (canceled => canceled')
      /\ DOMAIN ra = {"at", "mode", "err"}
  BY <1>1 DEF LoginIInv, LoginTypes
<1>5. DOMAIN ra' = {"at", "mode", "err"} /\ ra'.at \in {"read", "exchange", "unwind"}
  BY <1>1, <1>2, <1>4 DEF Go, Give
<1>. QED BY <1>1, <1>3, <1>4, <1>5, QuietLogin DEF At

\* The choice arrives, Firefox is launched, the challenge is shown and polled.
LEMMA CaptchaLogin ==
  ASSUME LoginIInv, AwaitMode \/ LaunchFirefox \/ RenderChallenge \/ Poll
  PROVE  LoginIInv'
<1>1. UNCHANGED <<panel, answer, canceled, conn>> /\ (firefox' = firefox \/ firefox' = TRUE)
  BY DEF AwaitMode, LaunchFirefox, RenderChallenge, Poll, screen
<1>2. /\ Accept("progress") \/ Accept("window") \/ Accept("session") \/ Accept("frame") \/ UNCHANGED posts
  BY DEF AwaitMode, LaunchFirefox, RenderChallenge, Poll
<1>3. posts' \in Seq(Closures) /\ Prompts' = Prompts
  <2>1. LoginTypes /\ {"progress", "window", "session", "frame"} \subseteq Closures
    BY DEF LoginIInv, Closures
  <2>. QED BY <1>2, <2>1, PostKept
<1>4. /\ firefox' \in BOOLEAN /\ conn' \in BOOLEAN /\ canceled' \in BOOLEAN /\ (canceled => canceled')
      /\ DOMAIN ra = {"at", "mode", "err"}
  BY <1>1 DEF LoginIInv, LoginTypes
<1>5. /\ ra.at \in {"choosing", "launch", "challenge", "poll"}
      /\ \/ ra' = ra /\ ra.at = "poll"
         \/ \E at \in {"challenge", "poll", "deliver"} : Go(at) /\ ra.at # "choosing"
         \/ Give(TRUE)
         \/ ra' = [ra EXCEPT !.at = "launch", !.mode = answer]
  BY DEF AwaitMode, LaunchFirefox, RenderChallenge, Poll, At
<1>6. DOMAIN ra' = {"at", "mode", "err"} /\ ra'.at \in {"launch", "challenge", "poll", "deliver", "unwind"}
  BY <1>4, <1>5 DEF Go, Give
<1>7. ra.at = "choosing" => canceled' \/ answer # "open"
  BY <1>1, LoginAssumption DEF AwaitMode, LaunchFirefox, RenderChallenge, Poll, At
<1>. QED BY <1>1, <1>3, <1>4, <1>5, <1>6, <1>7, QuietLogin DEF At

\* The token is delivered; the deferred closes run.
LEMMA EndLogin ==
  ASSUME LoginIInv, DeliverToken \/ Unwind
  PROVE  LoginIInv'
<1>1. /\ UNCHANGED <<panel, answer, canceled>> /\ firefox' = FALSE
      /\ conn' = conn \/ conn' = FALSE
      /\ ra.at \in {"deliver", "unwind"}
  BY DEF DeliverToken, Unwind, screen, At
<1>2. Accept("logged in") \/ Accept("error") \/ UNCHANGED posts
  BY DEF DeliverToken, Unwind
<1>3. posts' \in Seq(Closures) /\ Prompts' = Prompts
  <2>1. LoginTypes /\ {"logged in", "error"} \subseteq Closures
    BY DEF LoginIInv, Closures
  <2>. QED BY <1>2, <2>1, PostKept
<1>4. /\ firefox' \in BOOLEAN /\ conn' \in BOOLEAN /\ canceled' \in BOOLEAN /\ (canceled => canceled')
      /\ DOMAIN ra = {"at", "mode", "err"}
  BY <1>1 DEF LoginIInv, LoginTypes
<1>5. CASE DeliverToken
  <2>1. DOMAIN ra' = {"at", "mode", "err"} /\ ra'.at = "unwind"
    BY <1>4, <1>5 DEF DeliverToken, Give
  <2>. QED BY <1>1, <1>3, <1>4, <2>1, QuietLogin DEF At
<1>6. CASE Unwind
  <2>1. ra' = [ra EXCEPT !.at = "ended", !.err = ra.err /\ ~canceled] /\ conn' = FALSE
    BY <1>6 DEF Unwind
  <2>2. DOMAIN ra' = {"at", "mode", "err"} /\ ra'.at = "ended"
    BY <1>4, <2>1
  <2>. QED BY <1>1, <1>3, <1>4, <2>1, <2>2, QuietLogin DEF At
<1>. QED BY <1>5, <1>6

LEMMA NextLogin == LoginIInv /\ [LoginNext]_loginVars => LoginIInv'
<1> SUFFICES ASSUME LoginIInv, [LoginNext]_loginVars PROVE LoginIInv'
  OBVIOUS
<1>1. CASE RunPost
  BY <1>1, RunPostLogin
<1>2. CASE Paste \/ Abort \/ Leave \/ LoopEnds
  BY <1>2, ScreenLogin
<1>3. ASSUME NEW m \in Modes \cup {"closed"}, SelectMode(m) PROVE LoginIInv'
  BY <1>3, SelectModeLogin
<1>4. CASE RemoteAuth
  BY <1>4, WireLogin, FrameLogin, ExchangeLogin, CaptchaLogin, EndLogin DEF RemoteAuth
<1>5. CASE UNCHANGED loginVars
  <2>1. UNCHANGED <<canceled, posts, panel, ra, conn, answer, firefox>>
    BY <1>5 DEF loginVars
  <2>. QED BY <2>1 DEF LoginIInv, LoginTypes, Prompts, AskedOnce, NothingLeft, At
<1>. QED BY <1>1, <1>2, <1>3, <1>4, <1>5 DEF LoginNext

\* The inductive invariant of the login holds.
THEOREM LoginInvariance == LoginSpec => []LoginIInv
BY InitLogin, NextLogin, PTL DEF LoginSpec

\* The prompt on the screen belongs to the login that waits for its answer, and has room
\* for it, and a login that is over leaves neither a Firefox nor a connection
\* (ui/qr.go, ui/qr_remoteauth.go).
THEOREM LoginSafety == LoginSpec => []LoginSafe
<1>1. LoginIInv => LoginSafe
  BY DEF LoginIInv, LoginSafe, PromptBelongs, AskedOnce
<1>. QED BY <1>1, LoginInvariance, PTL
=============================================================================
