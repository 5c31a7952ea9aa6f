-------------------------------- MODULE Login --------------------------------
(***************************************************************************)
(* The login screen: ui/login.go, ui/qr.go and ui/qr_remoteauth.go.        *)
(*                                                                         *)
(* The UI goroutine owns the panel and runs what the remote-auth goroutine *)
(* posts; that goroutine follows Discord's protocol, asks how to answer a  *)
(* CAPTCHA, and runs a Firefox for it (BiDi).  A pasted token, Ctrl+C and  *)
(* a finished login all cancel the same context.                           *)
(***************************************************************************)
EXTENDS Naturals, Sequences, SequencesExt

CONSTANTS
  Modes, \* "tui" and "browser"
  Nothing   \* no token, no channel

ASSUME LoginAssumption == Nothing \notin Modes /\ {"open", "closed"} \cap (Modes \cup {Nothing}) = {}

VARIABLES
  ui,       \* the loop: "run", "drain" (posts refused), "done"
  canceled, \* loginCtx
  posts,    \* closures the loop has not run
  panel,    \* QRPanel
  token,    \* the token RunLogin returns
  stage,    \* the last frame the gateway has sent
  ra,       \* remoteAuth: where it is, its mode, whether it failed
  conn,     \* its websocket is open
  heart,    \* its heartbeat goroutine runs
  answer,   \* the channel of waitForCaptchaMode: Nothing, "open", a mode, "closed"
  firefox       \* a Firefox session is open

loginVars == <<ui, canceled, posts, panel, token, stage, ra, conn, heart, answer, firefox>>
screen == <<ui, panel, token>>

Frames == <<"hello", "nonce_proof", "pending_remote_init", "pending_ticket", "pending_login">>

\* The lines on the panel that the properties tell apart.
Blank == [status |-> "progress", captcha |-> "", image |-> FALSE, session |-> FALSE,
          prompt |-> FALSE, asked |-> FALSE]

Accept(kind) == posts' = IF ui = "run" THEN Append(posts, kind) ELSE posts

(* ---------------------------- the UI goroutine ------------------------- *)

\* What each posted closure does to the panel.
Draws(kind) ==
  CASE kind = "prompt"  -> [panel EXCEPT !.prompt = TRUE, !.asked = TRUE, !.status = "progress"]
    [] kind = "session" -> [panel EXCEPT !.session = TRUE, !.image = TRUE, !.captcha = "solve it"]
    [] kind = "window"  -> [panel EXCEPT !.session = FALSE, !.captcha = "in firefox", !.status = "in firefox"]
    [] kind = "frame"   -> [panel EXCEPT !.image = TRUE]
    [] OTHER            -> [panel EXCEPT !.status = kind]

RunPost ==
  /\ ui \in {"run", "drain"} /\ posts # <<>>
  /\ posts' = Tail(posts)
  /\ panel' = Draws(Head(posts))
  /\ token' = IF Head(posts) = "logged in" THEN "remote" ELSE token
  /\ canceled' = (canceled \/ Head(posts) = "logged in")
  /\ UNCHANGED <<ui, stage, ra, conn, heart, answer, firefox>>

\* setToken, from the token field; an event can still come before Leave.
Paste ==
  /\ ui = "run"
  /\ token' = "pasted" /\ canceled' = TRUE
  /\ UNCHANGED <<ui, posts, panel, stage, ra, conn, heart, answer, firefox>>

\* Ctrl+C, or the context of RunLogin.
Abort ==
  /\ ui = "run" /\ ~canceled
  /\ canceled' = TRUE
  /\ UNCHANGED <<screen, posts, stage, ra, conn, heart, answer, firefox>>

\* Mutant: the prompt goes and its channel stays.
ChooseOnly(m) ==
  /\ ui = "run" /\ panel.prompt /\ panel.asked
  /\ panel' = [panel EXCEPT !.prompt = FALSE]
  /\ answer' = m
  /\ UNCHANGED <<ui, canceled, token, posts, stage, ra, conn, heart, firefox>>

\* selectMode: Enter, or a click on a choice; "closed" for Esc.
SelectMode(m) ==
  /\ ui = "run" /\ panel.prompt /\ panel.asked
  /\ panel' = [panel EXCEPT !.prompt = FALSE, !.asked = FALSE]
  /\ answer' = m
  /\ UNCHANGED <<ui, canceled, token, posts, stage, ra, conn, heart, firefox>>

\* The loop sees the context; from here posts are refused.
Leave ==
  /\ ui = "run" /\ canceled
  /\ ui' = "drain"
  /\ UNCHANGED <<canceled, posts, panel, token, stage, ra, conn, heart, answer, firefox>>

LoopEnds ==
  /\ ui = "drain" /\ posts = <<>>
  /\ ui' = "done"
  /\ UNCHANGED <<canceled, posts, panel, token, stage, ra, conn, heart, answer, firefox>>

(* ------------------------------ remote auth ---------------------------- *)

At(pc) == ra.at = pc
Go(pc) == ra' = [ra EXCEPT !.at = pc]

\* An error, or nil, on its way out of run; the deferred closes come first.
Give(err) == ra' = [ra EXCEPT !.at = "unwind", !.err = err]

Dial ==
  /\ At("dial")
  /\ \/ ~canceled /\ conn' = TRUE /\ Go("read")
     \/ Give(TRUE) /\ UNCHANGED conn
  /\ UNCHANGED <<screen, canceled, posts, stage, heart, answer, firefox>>

\* The goroutine that waits for the context and closes the connection.
CloseConn ==
  /\ canceled /\ conn /\ conn' = FALSE
  /\ UNCHANGED <<screen, canceled, posts, stage, ra, heart, answer, firefox>>

\* ReadMessage fails: an error, unless it is a close or the login is over.
ReadFails(closed) ==
  /\ At("read")
  /\ Give(~closed /\ ~canceled)
  /\ UNCHANGED <<screen, canceled, posts, stage, conn, heart, answer, firefox>>

\* A frame and its handler; a frame it cannot use ends the login.
Frame(k) ==
  /\ At("read") /\ conn /\ k = stage + 1 /\ k \in DOMAIN Frames
  /\ stage' = k
  /\ heart' = (heart \/ Frames[k] = "hello")
  /\ \/ Give(TRUE) /\ UNCHANGED posts
     \/ /\ Frames[k] = "pending_login" /\ Go("exchange") /\ UNCHANGED posts
     \/ /\ Frames[k] # "pending_login"
        /\ IF Frames[k] = "nonce_proof" THEN UNCHANGED posts ELSE Accept("progress")
        /\ UNCHANGED ra
  /\ UNCHANGED <<screen, canceled, conn, answer, firefox>>

\* The phone refuses.
CancelFrame ==
  /\ At("read") /\ conn /\ stage >= 3
  /\ Accept("refused") /\ Give(FALSE)
  /\ UNCHANGED <<screen, canceled, stage, conn, heart, answer, firefox>>

\* A failed write or the context ends the heartbeat.
HeartStops ==
  /\ heart /\ (canceled \/ ~conn)
  /\ heart' = FALSE
  /\ UNCHANGED <<screen, canceled, posts, stage, ra, conn, answer, firefox>>

\* exchangeTicket: a token, an error, or a CAPTCHA.
Exchange ==
  /\ At("exchange")
  /\ \/ Go("deliver") /\ UNCHANGED <<posts, answer>>
     \/ Give(TRUE) /\ UNCHANGED <<posts, answer>>
     \/ Go("choosing") /\ answer' = "open" /\ Accept("prompt")
  /\ UNCHANGED <<screen, canceled, stage, conn, heart, firefox>>

\* waitForCaptchaMode.
AwaitMode ==
  /\ At("choosing")
  /\ \/ answer \in Modes /\ ra' = [ra EXCEPT !.at = "launch", !.mode = answer] /\ Accept("progress")
     \/ answer = "closed" /\ Give(TRUE) /\ UNCHANGED posts
     \/ canceled /\ Give(TRUE) /\ UNCHANGED posts
  /\ UNCHANGED <<screen, canceled, stage, conn, heart, answer, firefox>>

\* LaunchFirefox closes what it started when it fails.
LaunchFirefox ==
  /\ At("launch")
  /\ \/ firefox' = TRUE /\ Go("challenge")
     \/ Give(TRUE) /\ UNCHANGED firefox
  /\ UNCHANGED <<screen, canceled, posts, stage, conn, heart, answer>>

\* RenderChallenge and the first screenshot.
RenderChallenge ==
  /\ At("challenge")
  /\ \/ Go("poll") /\ Accept(IF ra.mode = "browser" THEN "window" ELSE "session")
     \/ Give(TRUE) /\ UNCHANGED posts
  /\ UNCHANGED <<screen, canceled, stage, conn, heart, answer, firefox>>

\* Every 250 ms: a picture, the answer if there is one, and its exchange.
\* Bound: a picture is posted when none is waiting.
Poll ==
  /\ At("poll")
  /\ \/ Go("deliver") /\ UNCHANGED posts
     \/ Give(TRUE) /\ UNCHANGED posts
     \/ ra.mode # "browser" /\ "frame" \notin Range(posts) /\ Accept("frame") /\ UNCHANGED ra
  /\ UNCHANGED <<screen, canceled, stage, conn, heart, answer, firefox>>

\* The token is posted after solveCaptcha's deferred Close.
DeliverToken ==
  /\ At("deliver")
  /\ firefox' = FALSE
  /\ Accept("logged in") /\ Give(FALSE)
  /\ UNCHANGED <<screen, canceled, stage, conn, heart, answer>>

\* The deferred closes, then runRemoteAuth's report.
Unwind ==
  /\ At("unwind")
  /\ firefox' = FALSE /\ conn' = FALSE
  /\ ra' = [ra EXCEPT !.at = "ended", !.err = ra.err /\ ~canceled]
  /\ IF ra.err /\ ~canceled THEN Accept("error") ELSE UNCHANGED posts
  /\ UNCHANGED <<screen, canceled, stage, heart, answer>>

(* ---------------------------- specification ---------------------------- *)

LoginInit ==
  /\ ui = "run" /\ canceled = FALSE /\ posts = <<>> /\ panel = Blank /\ token = Nothing
  /\ stage = 0 /\ ra = [at |-> "dial", mode |-> Nothing, err |-> FALSE]
  /\ conn = FALSE /\ heart = FALSE /\ answer = Nothing /\ firefox = FALSE

RemoteAuth ==
  \/ Dial \/ CloseConn \/ (\E c \in BOOLEAN : ReadFails(c)) \/ (\E k \in DOMAIN Frames : Frame(k))
  \/ CancelFrame \/ HeartStops \/ Exchange \/ AwaitMode \/ LaunchFirefox \/ RenderChallenge
  \/ Poll \/ DeliverToken \/ Unwind

LoginNext ==
  \/ RunPost \/ Paste \/ Abort \/ Leave \/ LoopEnds
  \/ \E m \in Modes \cup {"closed"} : SelectMode(m)
  \/ RemoteAuth

\* The loop runs and the goroutines run; a call with the context returns when it
\* is canceled, and a read when the connection is closed.  The exchange of the
\* ticket (qr_remoteauth.go:307) has neither a context nor a timeout: no fairness.
LoginFairness ==
  /\ WF_loginVars(RunPost) /\ WF_loginVars(Leave) /\ WF_loginVars(LoopEnds)
  /\ WF_loginVars(Unwind) /\ WF_loginVars(CloseConn) /\ WF_loginVars(DeliverToken) /\ WF_loginVars(HeartStops)
  /\ WF_loginVars(AwaitMode)
  /\ WF_loginVars(canceled /\ ~conn /\ ReadFails(TRUE))
  /\ WF_loginVars(canceled /\ (Dial \/ LaunchFirefox \/ RenderChallenge))
  /\ SF_loginVars(canceled /\ Poll /\ ra'.at # "poll")

LoginSpec == LoginInit /\ [][LoginNext]_loginVars /\ LoginFairness

(* ------------------------------ properties ----------------------------- *)

\* A prompt on the screen is one the login waits for, and its channel has room:
\* the keystroke that answers it never blocks the UI goroutine, and a second
\* one finds no channel (qr.go:179 selectMode, 206 Esc).
PromptBelongs ==
  panel.asked => answer = "open" /\ panel.prompt /\ (At("choosing") \/ canceled)

\* When the login is over no Firefox and no connection is left, whichever step
\* failed (qr_remoteauth.go:83, 359).
NothingLeft == At("ended") => ~firefox /\ ~conn

\* What the login posts to the screen.
Closures == {"progress", "refused", "prompt", "session", "window", "frame", "logged in", "error"}

LoginTypes ==
  /\ canceled \in BOOLEAN /\ firefox \in BOOLEAN /\ conn \in BOOLEAN
  /\ posts \in Seq(Closures)
  /\ DOMAIN panel = {"status", "captcha", "image", "session", "prompt", "asked"}
  /\ panel.prompt \in BOOLEAN /\ panel.asked \in BOOLEAN
  /\ DOMAIN ra = {"at", "mode", "err"}

Prompts == {i \in DOMAIN posts : posts[i] = "prompt"}

\* The login asks once, after the ticket: the prompt is still to be drawn, or is
\* drawn, or is answered, and until then its channel is open.
AskedOnce ==
  /\ ra.at \in {"dial", "read", "exchange"} => Prompts = {} /\ ~panel.asked
  /\ panel.asked \/ Prompts # {} => answer = "open"
  /\ answer = "open" => At("choosing") \/ canceled
  /\ \A i, j \in Prompts : i = j
  /\ panel.asked => panel.prompt /\ Prompts = {}

\* The inductive invariant behind LoginSafe.
LoginIInv == LoginTypes /\ AskedOnce /\ NothingLeft

\* The login is safe: a prompt belongs to the login that waits for its answer,
\* and a login that is over leaves no Firefox and no connection
\* (ui/qr.go, ui/qr_remoteauth.go).
LoginSafe == PromptBelongs /\ NothingLeft

\* A canceled login closes the screen, the connection and its heartbeat, and ends
\* with its prompt answered and its Firefox gone, unless the server never answers
\* the exchange of the ticket (qr.go:173, qr_remoteauth.go:87).
LoginUnwinds ==
  /\ canceled ~> (ui = "done" /\ ~conn /\ ~heart)
  /\ <>[]At("exchange") \/ (canceled ~> (ui = "done" /\ At("ended") /\ ~firefox))

\* A token that was posted while the screen ran is the result, even if the user
\* quits at the same moment (login.go:45, the loop's last drain).
TokenDelivered == (\E i \in DOMAIN posts : posts[i] = "logged in") ~> token # Nothing

=============================================================================
