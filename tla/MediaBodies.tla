---------------------------- MODULE MediaBodies ----------------------------
(***************************************************************************)
(* Inline media of the transcript: ui/chatview_media.go, the two caches of *)
(* ui/chatview_transcript.go over it, and media/fetch.go.                  *)
(*                                                                         *)
(* A frame renders the messages of the active channel.  A body that shows  *)
(* a URL starts its fetch (a bounded queue, a few workers, a closure back  *)
(* on the UI goroutine), and is memoized with the revision of every media  *)
(* state it read; over the bodies lies a cache of the whole transcript,    *)
(* keyed by an epoch that every change of a media state must bump.  States *)
(* nobody read in a render are swept when there are too many.              *)
(***************************************************************************)
EXTENDS Naturals, FiniteSets, SequencesExt

CONSTANTS
  Channels,  \* channels
  MsgsOf,    \* the messages of each, oldest first
  UrlsOf,    \* the media of each message, in drawing order
  Gifs,      \* URLs asked for with all their frames
  QueueSize, \* media.concurrent: queued fetches
  Workers,   \* concurrent fetches
  MaxStates, \* maxMediaStates
  MaxRev,    \* bound: edits of a message
  None       \* no state, no cached body

Msgs == UNION {ToSet(MsgsOf[c]) : c \in Channels}
Urls == UNION {ToSet(UrlsOf[m]) : m \in Msgs}

VARIABLES
  chan,    \* the active channel
  rev,     \* the store's revision of each message
  media,   \* the load state of each URL, or None
  count,   \* mediaLoadingCount
  jobs,    \* the job queue
  work,    \* URLs the workers fetch
  posts,   \* closures with a result, for the UI goroutine
  bodies,  \* the memoized bodies
  trans,   \* the cached transcript: what it shows, and whether it still matches
  dirty,   \* a frame is due
  pass,    \* the render under way: its place, the states it read, whether it can be reused
  open,    \* until CloseMedia
  evicted  \* history: URLs whose state was ever swept

vars == <<chan, rev, media, count, jobs, work, posts, bodies, trans, dirty, pass, open, evicted>>

State == [loading : BOOLEAN, img : {"none", "still", "frame"}, err : BOOLEAN,
          idx : {0, 1}, rev : {0, 1}]

Loading == [loading |-> TRUE, img |-> "none", err |-> FALSE, idx |-> 0, rev |-> 0]

animated(s) == s.img = "frame"

\* mediaLinesVideo: what a body draws for a URL in this state.
mediaLines(s) ==
  CASE s = None -> "label"
    [] s # None /\ s.err -> "failed"
    [] s # None /\ ~s.err /\ s.img = "none" -> "spinner"
    [] s # None /\ s.img = "still" -> "image"
    [] OTHER -> IF s.idx = 0 THEN "frame 0" ELSE "frame 1"

(* ------------------------------- a render ------------------------------ *)

\* The cached lines are used while nothing they were made from has changed.
Unchanged == trans.valid /\ trans.chan = chan /\ \A m \in ToSet(MsgsOf[chan]) : trans.rev[m] = rev[m]

Blank == [m \in Msgs |-> [u \in ToSet(UrlsOf[m]) |-> "label"]]

\* A frame that reuses the cached transcript draws no body at all.
Draw ==
  /\ dirty /\ pass = None /\ dirty' = FALSE
  /\ IF Unchanged THEN UNCHANGED <<pass, trans>>
     ELSE /\ pass' = [at |-> 1, touched |-> {}, stable |-> TRUE]
          /\ trans' = [valid |-> FALSE, chan |-> chan, rev |-> rev, shown |-> Blank]
  /\ UNCHANGED <<chan, rev, media, count, jobs, work, posts, bodies, open, evicted>>

Current == MsgsOf[chan][pass.at]

cachedBody(m) ==
  /\ bodies[m] # None
  /\ bodies[m].rev = rev[m]
  /\ \A u \in DOMAIN bodies[m].deps : media[u] # None /\ media[u].rev = bodies[m].deps[u]

\* ensureMedia for the URLs of a body: one that has no state is queued and
\* gets one; a saturated queue leaves none behind, so that a later frame retries.
ensureMedia(m) ==
  LET missing == SelectSeq(UrlsOf[m], LAMBDA u : media[u] = None)
      free    == QueueSize - Len(jobs)
  IN IF ~open THEN <<>> ELSE SubSeq(missing, 1, IF free < Len(missing) THEN free ELSE Len(missing))

\* recordMediaDep: the revision read, and 0 for a state that is missing.
DepRev(s) == IF s = None THEN 0 ELSE s.rev

Memoize(m, med, look) ==
  bodies' = [bodies EXCEPT ![m] = [rev |-> rev[m], look |-> look,
                                   deps |-> [u \in DOMAIN look |-> DepRev(med[u])]]]

Moving(m, med) == \E u \in ToSet(UrlsOf[m]) : med[u] # None /\ (med[u].loading \/ animated(med[u]))

\* A body that shows a spinner or an animation is not memoized: it moves.
storeBody(m, med, look) ==
  IF Moving(m, med) THEN UNCHANGED bodies ELSE Memoize(m, med, look)

Show(m, look, touched, stable) ==
  /\ trans' = [trans EXCEPT !.shown[m] = look]
  /\ pass' = [pass EXCEPT !.at = @ + 1, !.touched = @ \cup touched, !.stable = @ /\ stable]

renderBody(m) ==
  \E started \in {ensureMedia(m)} :
  \E med \in {[u \in Urls |-> IF u \in ToSet(started) THEN Loading ELSE media[u]]} :
  \E look \in {[u \in ToSet(UrlsOf[m]) |-> mediaLines(med[u])]} :
    /\ media' = med /\ jobs' = jobs \o started /\ count' = count + Len(started)
    /\ storeBody(m, med, look)
    /\ Show(m, look, {u \in ToSet(UrlsOf[m]) : med[u] # None}, ~Moving(m, med))

\* One message of a render; the workers go on beside it.
RenderMessage ==
  /\ pass # None /\ pass.at <= Len(MsgsOf[chan])
  /\ IF cachedBody(Current)
     THEN /\ Show(Current, bodies[Current].look, DOMAIN bodies[Current].deps, TRUE)
          /\ UNCHANGED <<media, count, jobs, bodies>>
     ELSE renderBody(Current)
  /\ UNCHANGED <<chan, rev, work, posts, dirty, open, evicted>>

States == {u \in Urls : media[u] # None}

sweepMedia(touched) ==
  IF Cardinality(States) <= MaxStates THEN {}
  ELSE {u \in States \ touched : ~media[u].loading}

\* The epoch is recorded before the sweep, which bumps it.
EndRender ==
  /\ pass # None /\ pass.at > Len(MsgsOf[chan]) /\ pass' = None
  /\ \E gone \in {sweepMedia(pass.touched)} :
       /\ media' = [u \in Urls |-> IF u \in gone THEN None ELSE media[u]]
       /\ evicted' = evicted \cup gone
       /\ trans' = [trans EXCEPT !.valid = pass.stable /\ gone = {}]
  /\ UNCHANGED <<chan, rev, count, jobs, work, posts, bodies, dirty, open>>

(* ----------------------------- what changes ---------------------------- *)

\* What the UI goroutine does between two frames.
UI == pass = None /\ UNCHANGED <<media, count, jobs, work, posts, pass, open, evicted>>

SwitchChannel(c) ==
  /\ open /\ c # chan /\ chan' = c /\ dirty' = TRUE
  /\ UNCHANGED <<rev, bodies, trans>> /\ UI

UpdateMessage(m) ==
  /\ open /\ rev[m] < MaxRev /\ rev' = [rev EXCEPT ![m] = @ + 1] /\ dirty' = TRUE
  /\ UNCHANGED <<chan, bodies, trans>> /\ UI

\* A theme, a resize, a fold: every memoized body is dropped.
invalidateBodies ==
  /\ open /\ bodies' = [m \in Msgs |-> None] /\ trans' = [trans EXCEPT !.valid = FALSE] /\ dirty' = TRUE
  /\ UNCHANGED <<chan, rev>> /\ UI

Visible == UNION {ToSet(UrlsOf[m]) : m \in ToSet(MsgsOf[chan])}

\* A tick moves the visible animations on, and redraws a visible spinner.
Tick ==
  /\ open /\ ~dirty /\ pass = None
  /\ \E u \in Visible :
       \/ /\ media[u] # None /\ animated(media[u])
          /\ media' = [media EXCEPT ![u].idx = 1 - @]
       \/ /\ media[u] # None /\ media[u].loading /\ UNCHANGED media
  /\ dirty' = TRUE
  /\ UNCHANGED <<chan, rev, count, jobs, work, posts, bodies, trans, pass, open, evicted>>

(* ------------------------------- fetching ------------------------------ *)

mediaWorker ==
  /\ open /\ jobs # <<>> /\ Cardinality(work) < Workers
  /\ jobs' = Tail(jobs) /\ work' = work \cup {Head(jobs)}
  /\ UNCHANGED <<chan, rev, media, count, posts, bodies, trans, dirty, pass, open, evicted>>

\* Fetcher: raw bytes from the disk cache or the network, decoded within the
\* limits, or an error; a GIF of one frame is a still image.
getRaw == {"bytes", "none"}
Decode(raw) == IF raw = "none" THEN {"none"} ELSE {"still", "none"}
DecodeGIF(raw) == IF raw = "none" THEN {"none"} ELSE {"frame", "still", "none"}
Fetch == UNION {Decode(raw) : raw \in getRaw}
FetchGIF == UNION {DecodeGIF(raw) : raw \in getRaw}

\* An animation that cannot be fetched is fetched as a still image.  Nothing
\* is posted once the view is closed.
fetchMedia(url) ==
  /\ url \in work /\ work' = work \ {url}
  /\ \E img \in (IF url \in Gifs THEN FetchGIF \ {"none"} ELSE {}) \cup Fetch :
       posts' = IF open THEN posts \cup {[url |-> url, img |-> img]} ELSE posts
  /\ UNCHANGED <<chan, rev, media, count, jobs, bodies, trans, dirty, pass, open, evicted>>

\* Its closure, or deliverFrames; after CloseMedia it does nothing.
deliver(p) ==
  /\ p \in posts /\ pass = None /\ posts' = posts \ {p}
  /\ IF open /\ (media[p.url] # None \/ p.img = "frame")
     THEN /\ media' = [media EXCEPT ![p.url] = [loading |-> FALSE, img |-> p.img, err |-> p.img = "none",
                                                idx |-> 0,
                                                rev |-> IF @ = None THEN 1 ELSE @.rev + 1]]
          /\ count' = (IF media[p.url] # None /\ media[p.url].loading THEN count - 1 ELSE count)
          /\ trans' = [trans EXCEPT !.valid = FALSE] /\ dirty' = TRUE
     ELSE UNCHANGED <<media, count, trans, dirty>>
  /\ UNCHANGED <<chan, rev, jobs, work, bodies, pass, open, evicted>>

\* Workers stop at their next look at the context; queued jobs are abandoned.
CloseMedia ==
  /\ open /\ pass = None /\ open' = FALSE
  /\ UNCHANGED <<chan, rev, media, count, jobs, work, posts, bodies, trans, dirty, pass, evicted>>

(* ---------------------------- specification ---------------------------- *)

Init ==
  /\ chan \in Channels /\ rev = [m \in Msgs |-> 0]
  /\ media = [u \in Urls |-> None] /\ count = 0
  /\ jobs = <<>> /\ work = {} /\ posts = {}
  /\ bodies = [m \in Msgs |-> None]
  /\ trans = [valid |-> FALSE, chan |-> chan, rev |-> rev,
              shown |-> Blank]
  /\ dirty = TRUE /\ pass = None /\ open = TRUE /\ evicted = {}

Next ==
  \/ Draw \/ RenderMessage \/ EndRender \/ invalidateBodies \/ Tick \/ mediaWorker \/ CloseMedia
  \/ \E c \in Channels : SwitchChannel(c)
  \/ \E m \in Msgs : UpdateMessage(m)
  \/ \E u \in Urls : fetchMedia(u)
  \/ \E p \in posts : deliver(p)

\* The loop keeps drawing and running closures; workers and requests, which
\* have a timeout, come to an end.
Fairness ==
  /\ WF_vars(Draw \/ RenderMessage \/ EndRender) /\ WF_vars(mediaWorker) /\ WF_vars(\E p \in posts : deliver(p))
  /\ \A u \in Urls : WF_vars(fetchMedia(u))

Spec == Init /\ [][Next]_vars /\ Fairness

(* ------------------------------ properties ----------------------------- *)

\* While the view is open, a URL is being fetched exactly when its state says
\* so, by one job and no more, and the counter that keeps the spinner alive
\* counts those states (chatview_media.go:247, 327, chatview_transcript.go:363).
OneFetch ==
  open =>
    /\ \A u \in Urls :
         Cardinality({i \in DOMAIN jobs : jobs[i] = u}) + Cardinality({u} \cap work)
           + Cardinality({p \in posts : p.url = u})
         = IF media[u] # None /\ media[u].loading THEN 1 ELSE 0
    /\ count = Cardinality({u \in Urls : media[u] # None /\ media[u].loading})

\* With no frame due, the transcript shows every medium as its state is, as
\* far as that state was never swept; a message that met a full queue may keep
\* its label until another message's fetch of the URL has ended
\* (chatview_transcript.go:218).
ShownCurrent ==
  ~dirty /\ pass = None /\ open =>
    \A m \in ToSet(MsgsOf[chan]) : \A u \in ToSet(UrlsOf[m]) \ evicted :
      LET s == media[u]
      IN trans.shown[m][u] = mediaLines(s) \/ (trans.shown[m][u] = "label" /\ s # None /\ s.loading)

\* A full queue is no dead end: a medium on screen that could not be queued is
\* asked for again once a fetch has ended (chatview_media.go:271).
Retried ==
  \A u \in Urls : (u \in Visible /\ media[u] = None) ~> (media[u] # None \/ u \notin Visible \/ ~open)

=============================================================================
