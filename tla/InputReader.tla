---------------------------- MODULE InputReader ----------------------------
(***************************************************************************)
(* From terminal bytes to input events: the incremental parser             *)
(* (tui/input/parser.go) and the two goroutines that feed it               *)
(* (tui/input/reader.go), one that reads the terminal and one that parses, *)
(* waits out a lone ESC and hands events to the app.                       *)
(*                                                                         *)
(* A byte is one of ESC, "[", "O", a letter that ends a sequence with a    *)
(* meaning ("A") or none ("x"), the whole parameter of the paste brackets  *)
(* ("200", "201"), "~", and the two bytes of one rune ("lead", "cont").    *)
(***************************************************************************)
EXTENDS Integers, SequencesExt

CONSTANTS
  Inputs,  \* what the terminal may send: sequences of keys, chords and pastes,
           \* each with its bytes and the events it stands for
  ReadMax, \* bound: the bytes of one read (256 in the code)
  Cap,     \* the capacity of the events channel (32 in the code)
  None

VARIABLES
  units,   \* the units of this run
  sent,    \* the bytes the terminal reader has read
  held,    \* the chunk it has read and not passed on, or None
  chunk,   \* the chunks channel, which holds one
  pc,      \* the parsing goroutine: at the "select", in parse(false) or parse(true)
           \* ("feed", "flush"), "sending", or "closed"
  p,       \* the parser
  out,     \* the events to send
  last,    \* the parsing goroutine ends after what it sends
  timer,   \* the ESC timer is armed
  queue,   \* the events channel
  got,     \* the events the app has taken
  expired, \* the timer has cut the input at least once
  quit     \* the context is cancelled
vars == <<units, sent, held, chunk, pc, p, out, last, timer, queue, got, expired, quit>>

ESC == "esc"
wire == FlattenSeq([i \in DOMAIN units |-> units[i].bytes])
Expected == FlattenSeq([i \in DOMAIN units |-> units[i].events])
Key(b, alt) == [kind |-> "key", key |-> b, alt |-> alt]
Finals == {"[", "O", "A", "x", "~"}
Opening == <<ESC, "[", "200", "~">>
Closing == <<ESC, "[", "201", "~">>

(* ------------------------------- the parser ---------------------------- *)

NewParser == [buf |-> <<>>, out |-> <<>>, pasting |-> FALSE, paste |-> <<>>]

From(s, i) == SubSeq(s, i, Len(s))
Emit(q, n, evs) == [q EXCEPT !.buf = From(@, n + 1), !.out = @ \o evs]
More(q) == [q |-> q, more |-> TRUE]
Wait(q) == [q |-> q, more |-> FALSE]

longestSuffixPrefix(s) ==
  LET fits(n) == n <= Len(s) /\ From(s, Len(s) - n + 1) = SubSeq(Closing, 1, n)
  IN CHOOSE n \in 0..(Len(Closing) - 1) : fits(n) /\ \A k \in (n + 1)..(Len(Closing) - 1) : ~fits(k)

\* The text goes on to the closing bracket; what may be its beginning is kept.
parsePaste(q, flush) ==
  LET ends == {i \in 1..Len(q.buf) : IsPrefix(Closing, From(q.buf, i))}
      i == CHOOSE i \in ends : \A j \in ends : i <= j
      keep == IF flush THEN 0 ELSE longestSuffixPrefix(q.buf)
      cut == Len(q.buf) - keep
  IN IF ends # {}
     THEN More([q EXCEPT !.buf = From(@, i + Len(Closing)), !.pasting = FALSE, !.paste = <<>>,
                         !.out = Append(@, [kind |-> "paste", text |-> q.paste \o SubSeq(q.buf, 1, i - 1)])])
     ELSE [q |-> [q EXCEPT !.paste = @ \o SubSeq(q.buf, 1, cut), !.buf = From(@, cut + 1)], more |-> flush]

\* A control byte, a rune, or a byte that is none and is dropped.
parsePlain(q, alt, flush) ==
  LET byte == q.buf[1]
  IN CASE byte = "lead" /\ Len(q.buf) = 1 -> IF flush THEN More(Emit(q, 1, <<>>)) ELSE Wait(q)
       [] byte = "lead" /\ Len(q.buf) > 1 -> IF q.buf[2] = "cont" THEN More(Emit(q, 2, <<Key("wide", alt)>>))
                                          ELSE More(Emit(q, 1, <<>>))
       [] byte = "cont" -> More(Emit(q, 1, <<>>))
       [] OTHER -> More(Emit(q, 1, <<Key(byte, alt)>>))

\* What a complete control sequence means: paste brackets, keys, or nothing.
Meaning(q, seq, final) ==
  IF <<ESC, "[">> \o seq \o <<final>> = Opening THEN [q EXCEPT !.pasting = TRUE]
  ELSE IF final = "A" THEN [q EXCEPT !.out = Append(@, Key("up", FALSE))]
  ELSE q

\* Mutant: a sequence that is not complete is given up at once.
CSINeverWaits(q, flush) ==
  LET ends == {i \in 3..Len(q.buf) : q.buf[i] \in Finals}
      e == CHOOSE i \in ends : \A j \in ends : i <= j
  IN IF ends = {} THEN More([q EXCEPT !.buf = <<>>])
     ELSE More(Meaning(Emit(q, e, <<>>), SubSeq(q.buf, 3, e - 1), q.buf[e]))

parseCSI(q, flush) ==
  LET ends == {i \in 3..Len(q.buf) : q.buf[i] \in Finals}
      e == CHOOSE i \in ends : \A j \in ends : i <= j
  IN IF ends = {} THEN IF flush THEN More([q EXCEPT !.buf = <<>>]) ELSE Wait(q)
     ELSE More(Meaning(Emit(q, e, <<>>), SubSeq(q.buf, 3, e - 1), q.buf[e]))

parseSS3(q, flush) ==
  IF Len(q.buf) < 3 THEN IF flush THEN More([q EXCEPT !.buf = <<>>]) ELSE Wait(q)
  ELSE More(Emit(q, 3, IF q.buf[3] = "A" THEN <<Key("up", FALSE)>> ELSE <<>>))

parseEscape(q, flush) ==
  IF Len(q.buf) = 1 THEN IF flush THEN More(Emit(q, 1, <<Key(ESC, FALSE)>>)) ELSE Wait(q)
  ELSE CASE q.buf[2] = "[" -> parseCSI(q, flush)
         [] q.buf[2] = "O" -> parseSS3(q, flush)
         [] OTHER -> parsePlain([q EXCEPT !.buf = Tail(@)], TRUE, TRUE)

Turn(q, flush) ==
  CASE q.pasting -> parsePaste(q, flush)
    [] ~q.pasting /\ q.buf = <<>> -> Wait(q)
    [] ~q.pasting /\ q.buf # <<>> /\ Head(q.buf) = ESC -> parseEscape(q, flush)
    [] OTHER -> parsePlain(q, FALSE, flush)

\* Mutant: an ESC within a paste starts the timer too.
EscapeAnywhere(q) == q.buf = <<ESC>>

pendingEscape(q) == q.buf = <<ESC>> /\ ~q.pasting

(* ----------------------------- the goroutines -------------------------- *)

\* The terminal is read in pieces; its end, or an error, is a chunk of its own.
Read(n) ==
  /\ held = None /\ ~quit /\ sent + n <= Len(wire)
  /\ held' = SubSeq(wire, sent + 1, sent + n) /\ sent' = sent + n
  /\ UNCHANGED <<units, chunk, pc, p, out, last, timer, queue, got, expired, quit>>

HangUp ==
  /\ held = None /\ ~quit /\ sent = Len(wire) /\ held' = <<>> /\ sent' = sent + 1
  /\ UNCHANGED <<units, chunk, pc, p, out, last, timer, queue, got, expired, quit>>

Pass ==
  /\ held # None /\ chunk = None /\ chunk' = held /\ held' = None
  /\ UNCHANGED <<units, sent, pc, p, out, last, timer, queue, got, expired, quit>>

\* Feed of a chunk, or the Flush of the input's end.
Parse ==
  /\ pc = "select" /\ chunk # None /\ chunk' = None
  /\ IF chunk = <<>> THEN pc' = "flush" /\ last' = TRUE /\ UNCHANGED <<p, timer>>
     ELSE pc' = "feed" /\ p' = [p EXCEPT !.buf = @ \o chunk] /\ timer' = FALSE /\ UNCHANGED last
  /\ UNCHANGED <<units, sent, held, out, queue, got, expired, quit>>

\* The ESC timer fires, even when the rest of the sequence is already waiting.
Expire ==
  /\ pc = "select" /\ timer /\ timer' = FALSE /\ expired' = TRUE /\ pc' = "flush"
  /\ UNCHANGED <<units, sent, held, chunk, p, out, last, queue, got, quit>>

\* parse: turn after turn while a turn asks for it; then what was decoded is sent.
Loop ==
  /\ pc \in {"feed", "flush"}
  /\ \E t \in {Turn(p, pc = "flush")} :
       IF t.more THEN p' = t.q /\ UNCHANGED <<out, pc, timer>>
       ELSE /\ p' = [t.q EXCEPT !.out = <<>>, !.buf = IF pc = "flush" THEN <<>> ELSE @]
            /\ out' = t.q.out
            /\ pc' = IF out' # <<>> THEN "sending" ELSE IF last THEN "closed" ELSE "select"
            /\ timer' = (pc = "feed" /\ pendingEscape(t.q))
  /\ UNCHANGED <<units, sent, held, chunk, last, queue, got, expired, quit>>

\* One event at a time, as the channel has room.
Send ==
  /\ pc = "sending" /\ Len(queue) < Cap
  /\ queue' = Append(queue, Head(out)) /\ out' = Tail(out)
  /\ pc' = IF Len(out) > 1 THEN "sending" ELSE IF last THEN "closed" ELSE "select"
  /\ UNCHANGED <<units, sent, held, chunk, p, last, timer, got, expired, quit>>

\* The context ends the wait for input and the wait for room alike.
Stop ==
  /\ quit /\ pc \in {"select", "sending"} /\ pc' = "closed"
  /\ UNCHANGED <<units, sent, held, chunk, p, out, last, timer, queue, got, expired, quit>>

\* The app takes events until it quits.
Take ==
  /\ ~quit /\ queue # <<>> /\ got' = Append(got, Head(queue)) /\ queue' = Tail(queue)
  /\ UNCHANGED <<units, sent, held, chunk, pc, p, out, last, timer, expired, quit>>

Quit ==
  /\ ~quit /\ quit' = TRUE
  /\ UNCHANGED <<units, sent, held, chunk, pc, p, out, last, timer, queue, got, expired>>

Init ==
  /\ units \in Inputs /\ sent = 0 /\ held = None /\ chunk = None /\ pc = "select" /\ p = NewParser
  /\ out = <<>> /\ last = FALSE /\ timer = FALSE /\ queue = <<>> /\ got = <<>> /\ expired = FALSE /\ quit = FALSE

Next == (\E n \in 1..ReadMax : Read(n)) \/ HangUp \/ Pass \/ Parse \/ Loop \/ Expire \/ Send \/ Stop \/ Take \/ Quit

\* The goroutines run, the timer fires, the app takes what comes.
Fairness ==
  /\ WF_vars(\E n \in 1..ReadMax : Read(n)) /\ WF_vars(Pass) /\ WF_vars(Parse) /\ WF_vars(Loop) /\ WF_vars(Expire)
  /\ WF_vars(Send) /\ WF_vars(Stop) /\ WF_vars(Take)

Spec == Init /\ [][Next]_vars /\ Fairness

(* ------------------------------ properties ----------------------------- *)

Delivered == got \o queue \o out \o p.out
Ended == held = <<>> \/ chunk = <<>> \/ last
AltWide == \E i \in 1..(Len(wire) - 1) : wire[i] = ESC /\ wire[i + 1] = "lead"

\* However the input is cut into reads, the app gets the events of what was typed,
\* in order and all of them, while no timer has run out and no Alt chord of a
\* multi-byte rune was typed.
CutsDoNotShow ==
  ~expired /\ ~quit /\ ~AltWide =>
    /\ IsPrefix(Delivered, Expected)
    /\ pc = "select" /\ sent = Len(wire) /\ held = None /\ chunk = None /\ p.buf = <<>> => Delivered = Expected

\* A paste arrives whole and as itself, whatever timers run out.
PasteWhole ==
  \A i \in DOMAIN Delivered : Delivered[i].kind = "paste" => Delivered[i] \in ToSet(Expected)

\* A terminal that ends, or an app that quits, ends the reader, unless the input
\* ends within a paste.
ReaderEnds == (quit \/ Ended) ~> (pc = "closed" \/ (last /\ p.pasting))

\* The timer waits out a lone ESC alone (reader.go:179): a control sequence that was
\* begun, which is what Alt+[ and Alt+O send, waits for a byte that ends it, and
\* keeps what is typed before that byte, an Escape included.
Begun(s) == Len(s) > 1 /\ s[1] = ESC /\ s[2] \in {"[", "O"} /\ \A i \in 3 .. Len(s) : s[i] \notin Finals

\* What is typed reaches the app, a lone Escape after its timeout: the parser keeps
\* nothing for ever but the text of a paste that does not end and a control
\* sequence that does not, with which what was typed must end.
NothingHeld == <>[](quit \/ p.pasting \/ p.buf = <<>> \/ (Begun(p.buf) /\ IsSuffix(p.buf, wire)))

\* "Reader owns an input stream and publishes decoded events until its context is
\* canceled or the stream ends" (reader.go:25): the reader ends in every case.
StreamEnds == Ended ~> (pc = "closed")
=============================================================================
