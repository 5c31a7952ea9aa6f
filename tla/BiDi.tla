-------------------------------- MODULE BiDi --------------------------------
(***************************************************************************)
(* The Firefox session of the CAPTCHA step: captcha/bidi.go.               *)
(*                                                                         *)
(* Commands go out one at a time, over a socket one reader reads; a reply  *)
(* finds its command by its id.  A command can be abandoned by its         *)
(* context, the connection can fail, and Close may come at any moment.     *)
(***************************************************************************)
EXTENDS Naturals, Sequences, FiniteSets

CONSTANTS
  Callers, \* goroutines that send commands
  Closers, \* goroutines that call Close
  MaxId,   \* bound: commands sent
  None     \* no holder of the gate

ASSUME BidiAssumption == None \notin Callers

VARIABLES
  attached, \* s.conn is set
  socket,   \* the socket is open
  gate,     \* the caller that holds the command gate, or None
  call,     \* the commands: where each is, its id, the replies in its channel
  next,     \* the last id used
  pending,  \* s.pending: ids that wait for a reply, and whose they are
  wire,     \* commands the browser has received and not answered
  inbox,    \* answers on the socket
  reader,   \* the read loop, and the reply channels it is about to write to
  closer,   \* each Close: where it is, and what it took from the session
  owned,    \* the session still holds its process and its profile
  fox,      \* the Firefox process has not been waited for
  profile   \* its temporary profile exists

machine == <<owned, fox, profile>>
bidiVars == <<attached, socket, gate, call, next, pending, wire, inbox, reader, closer, machine>>

Idle == [at |-> "idle", id |-> 0, replies |-> <<>>]

\* A command ends in "idle"; "ok" is passed through so that its reply is seen.
Return(c, at) == [call EXCEPT ![c].at = at]

\* What a command puts back and takes with it: the gate, and its place in pending.
Drop(c) == [i \in DOMAIN pending \ {call[c].id} |-> pending[i]]

\* A failure, 0, for the commands of a set of ids.
Fail(ids) ==
  [c \in Callers |-> IF call[c].id \in ids /\ call[c].at \in {"write", "wait"}
                     THEN [call[c] EXCEPT !.replies = Append(@, 0)] ELSE call[c]]

(* ------------------------------- a command ----------------------------- *)

Command(c) ==
  /\ call[c].at = "idle" /\ next < MaxId
  /\ call' = [call EXCEPT ![c] = [Idle EXCEPT !.at = "gate"]]
  /\ UNCHANGED <<attached, socket, gate, next, pending, wire, inbox, reader, closer, machine>>

TakeGate(c) ==
  /\ call[c].at = "gate" /\ gate = None /\ gate' = c
  /\ call' = Return(c, "start")
  /\ UNCHANGED <<attached, socket, next, pending, wire, inbox, reader, closer, machine>>

\* Under the lock: no connection, no command; the first starts the reader.
Register(c) ==
  /\ call[c].at = "start"
  /\ IF ~attached
     THEN /\ gate' = None /\ call' = Return(c, "idle") /\ UNCHANGED <<next, pending, reader>>
     ELSE /\ next < MaxId /\ next' = next + 1
          /\ pending' = [i \in DOMAIN pending \cup {next + 1} |-> IF i = next + 1 THEN c ELSE pending[i]]
          /\ reader' = IF reader.at = "none" THEN [reader EXCEPT !.at = "read"] ELSE reader
          /\ call' = [call EXCEPT ![c].at = "write", ![c].id = next + 1]
          /\ UNCHANGED gate
  /\ UNCHANGED <<attached, socket, wire, inbox, closer, machine>>

Write(c) ==
  /\ call[c].at = "write"
  /\ IF socket
     THEN /\ wire' = wire \cup {call[c].id} /\ call' = Return(c, "wait")
          /\ UNCHANGED <<pending, gate>>
     ELSE /\ pending' = Drop(c) /\ gate' = None /\ call' = Return(c, "idle")
          /\ UNCHANGED wire
  /\ UNCHANGED <<attached, socket, next, inbox, reader, closer, machine>>

Answered(c) ==
  /\ call[c].at = "wait" /\ call[c].replies # <<>>
  /\ gate' = None
  /\ call' = Return(c, IF Head(call[c].replies) = 0 THEN "idle" ELSE "ok")
  /\ UNCHANGED <<attached, socket, next, pending, wire, inbox, reader, closer, machine>>

Finish(c) ==
  /\ call[c].at = "ok" /\ call' = Return(c, "idle")
  /\ UNCHANGED <<attached, socket, gate, next, pending, wire, inbox, reader, closer, machine>>

\* The caller's context, or the fifteen seconds of the command, run out.
Expire(c) ==
  /\ call[c].at \in {"gate", "start", "write", "wait"}
  /\ gate' = IF gate = c THEN None ELSE gate
  /\ pending' = IF call[c].at \in {"write", "wait"} THEN Drop(c) ELSE pending
  /\ call' = Return(c, "idle")
  /\ UNCHANGED <<attached, socket, next, wire, inbox, reader, closer, machine>>

(* ------------------------------- the reader ---------------------------- *)

\* The browser answers in any order, or never.
Browser(id) ==
  /\ id \in wire /\ socket
  /\ wire' = wire \ {id} /\ inbox' = Append(inbox, id)
  /\ UNCHANGED <<attached, socket, gate, call, next, pending, reader, closer, machine>>

\* Mutant: the answer goes to a command that waits, whatever its id.
TakeAny ==
  /\ reader.at = "read" /\ socket /\ inbox # <<>> /\ inbox' = Tail(inbox)
  /\ \E i \in DOMAIN pending \cup {Head(inbox)} :
       /\ DOMAIN pending # {} => i \in DOMAIN pending
       /\ pending' = [j \in DOMAIN pending \ {i} |-> pending[j]]
       /\ reader' = [reader EXCEPT !.at = "deliver", !.id = Head(inbox),
                                   !.to = {i} \cap DOMAIN pending]
  /\ UNCHANGED <<attached, socket, gate, call, next, wire, closer, machine>>

\* Under the lock: the command leaves pending, and nobody else will answer it.
Take ==
  /\ reader.at = "read" /\ socket /\ inbox # <<>> /\ inbox' = Tail(inbox)
  /\ LET id == Head(inbox)
     IN /\ reader' = [at |-> "deliver", id |-> id, to |-> {id} \cap DOMAIN pending]
        /\ pending' = [i \in DOMAIN pending \ {id} |-> pending[i]]
  /\ UNCHANGED <<attached, socket, gate, call, next, wire, closer, machine>>

\* The channel belongs to that command alone: a later one has another.
Deliver ==
  /\ reader.at = "deliver"
  /\ call' = [c \in Callers |->
                IF call[c].id \in reader.to /\ call[c].at \in {"write", "wait"}
                THEN [call[c] EXCEPT !.replies = Append(@, reader.id)] ELSE call[c]]
  /\ reader' = [reader EXCEPT !.at = "read", !.to = {}]
  /\ UNCHANGED <<attached, socket, gate, next, pending, wire, inbox, closer, machine>>

\* failConnection: if Close has been here, it answers the commands itself.
ReaderFails ==
  /\ reader.at = "read" /\ ~socket
  /\ reader' = [reader EXCEPT !.at = "ended"]
  /\ IF attached
     THEN attached' = FALSE /\ call' = Fail(DOMAIN pending) /\ pending' = <<>>
     ELSE UNCHANGED <<attached, call, pending>>
  /\ UNCHANGED <<socket, gate, next, wire, inbox, closer, machine>>

\* Firefox dies, or its end of the socket goes.
Lost ==
  /\ socket /\ socket' = FALSE
  /\ UNCHANGED <<attached, gate, call, next, pending, wire, inbox, reader, closer, machine>>

(* --------------------------------- Close ------------------------------- *)

\* Mutant: Close takes the connection and leaves the waiting commands behind.
DetachConn(k) ==
  /\ closer[k].at = "idle"
  /\ closer' = [closer EXCEPT ![k] = [at |-> "socket", ids |-> {}, owns |-> owned]]
  /\ attached' = FALSE /\ owned' = FALSE
  /\ UNCHANGED <<socket, gate, call, next, pending, wire, inbox, reader, fox, profile>>

\* Under the lock: everything the session owns is taken, once.
Detach(k) ==
  /\ closer[k].at = "idle"
  /\ closer' = [closer EXCEPT ![k] = [at |-> "socket", ids |-> DOMAIN pending, owns |-> owned]]
  /\ attached' = FALSE /\ pending' = <<>> /\ owned' = FALSE
  /\ UNCHANGED <<socket, gate, call, next, wire, inbox, reader, fox, profile>>

CloseSocket(k) ==
  /\ closer[k].at = "socket"
  /\ socket' = FALSE /\ call' = Fail(closer[k].ids)
  /\ closer' = [closer EXCEPT ![k].at = "kill"]
  /\ UNCHANGED <<attached, gate, next, pending, wire, inbox, reader, machine>>

\* Kill and Wait, by the Close that took the process.
Kill(k) ==
  /\ closer[k].at = "kill"
  /\ fox' = (fox /\ ~closer[k].owns)
  /\ closer' = [closer EXCEPT ![k].at = "remove"]
  /\ UNCHANGED <<attached, socket, gate, call, next, pending, wire, inbox, reader, owned, profile>>

RemoveProfile(k) ==
  /\ closer[k].at = "remove"
  /\ profile' = (profile /\ ~closer[k].owns)
  /\ closer' = [closer EXCEPT ![k].at = "done"]
  /\ UNCHANGED <<attached, socket, gate, call, next, pending, wire, inbox, reader, owned, fox>>

(* ---------------------------- specification ---------------------------- *)

BidiInit ==
  /\ attached = TRUE /\ socket = TRUE /\ gate = None
  /\ call = [c \in Callers |-> Idle] /\ next = 0 /\ pending = <<>>
  /\ wire = {} /\ inbox = <<>> /\ reader = [at |-> "none", id |-> 0, to |-> {}]
  /\ closer = [k \in Closers |-> [at |-> "idle", ids |-> {}, owns |-> FALSE]]
  /\ owned = TRUE /\ fox = TRUE /\ profile = TRUE

Step(c) == TakeGate(c) \/ Register(c) \/ Write(c) \/ Answered(c) \/ Finish(c)
CloseStep(k) == CloseSocket(k) \/ Kill(k) \/ RemoveProfile(k)

BidiNext ==
  \/ \E c \in Callers : Command(c) \/ Step(c) \/ Expire(c)
  \/ \E id \in wire : Browser(id)
  \/ Take \/ Deliver \/ ReaderFails \/ Lost
  \/ \E k \in Closers : Detach(k) \/ CloseStep(k)

\* Goroutines run; no context need run out, and the browser need not answer.
BidiFairness ==
  /\ \A c \in Callers : WF_bidiVars(Register(c) \/ Write(c) \/ Answered(c) \/ Finish(c))
  /\ \A k \in Closers : WF_bidiVars(CloseStep(k))
  /\ WF_bidiVars(Take \/ Deliver \/ ReaderFails)

BidiSpec == BidiInit /\ [][BidiNext]_bidiVars /\ BidiFairness

(* ------------------------------ properties ----------------------------- *)

\* A command that succeeds has the answer to itself, not a late answer to one
\* that was given up (bidi.go:452, readLoop).
OwnReply == \A c \in Callers : call[c].at = "ok" => Head(call[c].replies) = call[c].id

\* A reply channel holds one reply and gets at most one, so neither the reader
\* nor Close ever blocks on a command that has gone (bidi.go:352, 452, 474).
OneReply == \A c \in Callers : Len(call[c].replies) <= 1

\* The profile is removed only after the process has ended (bidi.go, Close).
ProfileOutlives == ~profile => ~fox

Calls == [at: {"idle", "gate", "start", "write", "wait", "ok"}, id: Nat, replies: Seq(Nat)]

BidiTypes ==
  /\ next \in Nat /\ gate \in Callers \cup {None} /\ owned \in BOOLEAN
  /\ call \in [Callers -> Calls]
  /\ inbox \in Seq(Nat) /\ wire \subseteq Nat
  /\ reader \in [at: {"none", "read", "deliver", "ended"}, id: Nat, to: SUBSET Nat]
  /\ closer \in [Closers -> [at: {"idle", "socket", "kill", "remove", "done"}, ids: SUBSET Nat, owns: BOOLEAN]]

\* The ids a Close has taken and not failed yet.
Taken(k) == IF closer[k].at = "socket" THEN closer[k].ids ELSE {}

\* The ids somebody may still write a reply for: the reader or the end of the
\* connection, the reader that has the answer in its hands, or a Close.
OwedIds == DOMAIN pending \cup reader.to \cup UNION {Taken(k) : k \in Closers}

\* Every id in use is owed by one writer at most, and is not from the future.
OneWriter ==
  /\ OwedIds \subseteq 1 .. next
  /\ reader.to \subseteq {reader.id} /\ reader.to \cap DOMAIN pending = {}
  /\ \A k \in Closers :
       /\ Taken(k) \cap DOMAIN pending = {} /\ Taken(k) \cap reader.to = {}
       /\ \A l \in Closers \ {k} : Taken(k) \cap Taken(l) = {}

\* A command that holds a reply is owed no other one, and the reply is its own.
Replied(c) ==
  /\ call[c].at \in {"start", "write", "wait"} => gate = c
  /\ call[c].at \in {"gate", "start"} => call[c].replies = <<>>
  /\ call[c].at \in {"write", "wait"} => call[c].id \in 1 .. next
  /\ call[c].at \in {"write", "wait"} /\ call[c].replies # <<>> =>
       call[c].id \notin OwedIds /\ Head(call[c].replies) \in {0, call[c].id}
  /\ call[c].at = "ok" => Head(call[c].replies) = call[c].id
  /\ Len(call[c].replies) <= 1

\* The Close that took the process removes the profile after it has waited for it.
KilledFirst ==
  /\ ProfileOutlives
  /\ \A k \in Closers : closer[k].at \in {"remove", "done"} /\ closer[k].owns => ~fox

\* The inductive invariant behind BrowserSafe.
BidiIInv == BidiTypes /\ OneWriter /\ (\A c \in Callers : Replied(c)) /\ KilledFirst

\* The browser session is safe: a command gets its own reply and just one, and
\* the profile outlives the browser that uses it (captcha/bidi.go).
BrowserSafe == OwnReply /\ OneReply /\ ProfileOutlives

\* Close interrupts every command: none waits for its fifteen seconds, or for
\* a browser that will not answer (bidi.go:345, "Close never waits behind a
\* command", and the reverse).
CloseReturns ==
  (\E k \in Closers : closer[k].at # "idle") ~>
    (\A c \in Callers : call[c].at \in {"idle", "gate"}) /\ (\E k \in Closers : closer[k].at = "done")
=============================================================================
