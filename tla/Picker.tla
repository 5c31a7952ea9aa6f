------------------------------- MODULE Picker -------------------------------
(***************************************************************************)
(* The emoji, GIF and sticker picker (ui/picker.go) and the inline one     *)
(* (ui/inline_picker.go, which has the same thumbnails and only one tab):  *)
(* the rows for a query, the thumbnails that workers fetch through a small *)
(* queue, the GIF searches that are answered in any order, and the closing *)
(* that waits for the workers on the UI goroutine.                         *)
(***************************************************************************)
EXTENDS Integers, SequencesExt, FiniteSets

CONSTANTS
  Catalog,   \* the custom emoji, in the order of the guilds, by their media URLs
  Queries,   \* what can be typed; the empty query is one of them
  Empty,     \* the empty query
  Matches,   \* which of the catalog each query matches
  MaxRows,   \* maxPickerResults
  MaxThumbs, \* maxPickerThumbnailLoad
  QueueSize, \* QueuedFetches
  Workers,   \* the media workers: ConcurrentFetches of them
  MaxInputs, \* bound: what the user does
  None

VARIABLES
  tab, query,  \* what is shown: "custom" or "gif", and what was typed
  favorites,   \* the emoji put first
  media,       \* each URL: absent, "loading" or "done"
  jobs,        \* mediaJobs
  working,     \* what each worker fetches, None, or "gone"
  posts,       \* the fetched URLs posted to the UI goroutine
  state,       \* "open", "closing" or "closed"
  gifQuery,    \* the last query searched for
  gifResults,  \* the query the GIFs shown were found for, or None
  searches,    \* the searches in flight
  inputs       \* how much the user has done
vars == <<tab, query, favorites, media, jobs, working, posts, state, gifQuery, gifResults, searches, inputs>>

(* -------------------------------- the rows ----------------------------- *)

\* appendMatches and prioritizeFavorites: the favorites first, the catalog's order otherwise.
Filtered(q, favs) ==
  LET found == SelectSeq(Catalog, LAMBDA u : u \in Matches[q])
      rows == SelectSeq(found, LAMBDA u : u \in favs) \o SelectSeq(found, LAMBDA u : u \notin favs)
  IN SubSeq(rows, 1, IF Len(rows) < MaxRows THEN Len(rows) ELSE MaxRows)

\* The rows that may load a thumbnail.
Thumbnails(t, q, favs) ==
  LET rows == Filtered(q, favs)
  IN IF t # "custom" THEN <<>> ELSE SubSeq(rows, 1, IF Len(rows) < MaxThumbs THEN Len(rows) ELSE MaxThumbs)

\* emojiImage for every such row: queued, or forgotten when the queue is full.
Load(m, t, q, favs) ==
  LET wanted == SelectSeq(Thumbnails(t, q, favs), LAMBDA u : m[u] = None)
      room == QueueSize - Len(jobs)
      queued == SubSeq(wanted, 1, IF Len(wanted) < room THEN Len(wanted) ELSE room)
  IN /\ jobs' = jobs \o queued
     /\ media' = [u \in DOMAIN m |-> IF u \in ToSet(queued) THEN "loading" ELSE m[u]]

\* searchGIFs: a search is started unless it is the last one started.
Search(t, q) ==
  IF t = "gif" /\ q # Empty /\ q # gifQuery
  THEN gifQuery' = q /\ searches' = searches \cup {[n |-> inputs, query |-> q]}
  ELSE UNCHANGED <<gifQuery, searches>>

\* refilter, which every change of the picker ends with.
Refilter(m, t, q, favs) ==
  /\ tab' = t /\ query' = q /\ favorites' = favs /\ Load(m, t, q, favs) /\ Search(t, q)

(* -------------------------------- the user ----------------------------- *)

Input ==
  /\ state = "open" /\ inputs < MaxInputs /\ inputs' = inputs + 1
  /\ UNCHANGED <<working, posts, state, gifResults>>

Type(q) == Input /\ q # query /\ Refilter(media, tab, q, favorites)
SetTab(t) == Input /\ t # tab /\ Refilter(media, t, query, favorites)
ToggleFavorite(u) ==
  /\ Input /\ tab = "custom" /\ u \in ToSet(Filtered(query, favorites))
  /\ Refilter(media, tab, query, IF u \in favorites THEN favorites \ {u} ELSE favorites \cup {u})

\* Close, from Esc or a pick: the context is cancelled and the workers are waited for.
Close ==
  /\ state = "open" /\ state' = "closing"
  /\ UNCHANGED <<tab, query, favorites, media, jobs, working, posts, gifQuery, gifResults, searches, inputs>>
Closed ==
  /\ state = "closing" /\ \A w \in Workers : working[w] = "gone"
  /\ state' = "closed"
  /\ UNCHANGED <<tab, query, favorites, media, jobs, working, posts, gifQuery, gifResults, searches, inputs>>

(* ------------------------------- the workers --------------------------- *)

Kept == UNCHANGED <<tab, query, favorites, media, state, gifQuery, gifResults, searches, inputs>>

\* mediaWorker: a job is dropped when the context is cancelled.
Take(w) ==
  /\ working[w] = None /\ jobs # <<>> /\ jobs' = Tail(jobs)
  /\ working' = [working EXCEPT ![w] = IF state = "open" THEN Head(jobs) ELSE "gone"]
  /\ UNCHANGED posts /\ Kept

Fetched(w) ==
  /\ working[w] \notin {None, "gone"} /\ working' = [working EXCEPT ![w] = None]
  /\ posts' = IF state = "open" THEN Append(posts, working[w]) ELSE posts
  /\ UNCHANGED jobs /\ Kept

Leave(w) ==
  /\ state # "open" /\ working[w] = None /\ working' = [working EXCEPT ![w] = "gone"]
  /\ UNCHANGED <<jobs, posts>> /\ Kept

(* ---------------------------- the UI goroutine ------------------------- *)

\* A fetched thumbnail, or its failure, reaches the picker.
Arrive ==
  /\ posts # <<>> /\ state # "closing" /\ posts' = Tail(posts)
  /\ IF state = "open" THEN Refilter([media EXCEPT ![Head(posts)] = "done"], tab, query, favorites)
     ELSE UNCHANGED <<tab, query, favorites, media, jobs, gifQuery, searches>>
  /\ UNCHANGED <<working, state, gifResults, inputs>>

\* Mutant: the answer is taken whatever is typed by now.
AnswerAnyway(s, ok) ==
  /\ s \in searches /\ state # "closing" /\ searches' = searches \ {s}
  /\ gifResults' = IF ok /\ tab = "gif" THEN s.query ELSE gifResults
  /\ UNCHANGED <<tab, query, favorites, media, jobs, working, posts, state, gifQuery, inputs>>

\* The answer of a search: taken if the picker still shows what was searched for.
Answer(s, ok) ==
  /\ s \in searches /\ state # "closing" /\ searches' = searches \ {s}
  /\ gifResults' = IF ok /\ tab = "gif" /\ query = s.query THEN s.query ELSE gifResults
  /\ UNCHANGED <<tab, query, favorites, media, jobs, working, posts, state, gifQuery, inputs>>

\* NewPicker, SetGIFSearch, SetFavorites, SetMedia.
Init ==
  /\ tab = "custom" /\ query = Empty /\ favorites = {} /\ state = "open"
  /\ jobs = SubSeq(Thumbnails("custom", Empty, {}), 1, QueueSize)
  /\ media = [u \in ToSet(Catalog) |-> IF u \in ToSet(jobs) THEN "loading" ELSE None]
  /\ working = [w \in Workers |-> None] /\ posts = <<>>
  /\ gifQuery = Empty /\ gifResults = None /\ searches = {} /\ inputs = 0

Next ==
  \/ \E q \in Queries : Type(q)
  \/ \E t \in {"custom", "gif"} : SetTab(t)
  \/ \E u \in ToSet(Catalog) : ToggleFavorite(u)
  \/ Close \/ Closed \/ Arrive
  \/ \E w \in Workers : Take(w) \/ Fetched(w) \/ Leave(w)
  \/ \E s \in searches, ok \in BOOLEAN : Answer(s, ok)

\* Workers run, a fetch ends, and the UI goroutine runs what is posted.
Fairness ==
  /\ WF_vars(Arrive) /\ WF_vars(Closed)
  /\ \A w \in Workers : WF_vars(Take(w)) /\ WF_vars(Fetched(w)) /\ WF_vars(Leave(w))

Spec == Init /\ [][Next]_vars /\ Fairness

(* ------------------------------ properties ----------------------------- *)

Wanted(u) == state = "open" /\ u \in ToSet(Thumbnails(tab, query, favorites))

\* A row that may have a thumbnail gets it, or is no longer shown, also when the
\* queue was full as it asked.
ThumbnailsArrive == \A u \in ToSet(Catalog) : Wanted(u) ~> (media[u] = "done" \/ ~Wanted(u))

\* Closing the picker does not leave the UI goroutine waiting.
CloseReturns == (state = "closing") ~> (state = "closed")

\* GIFs found for one query are never put in the place of those for the query typed since.
NoStaleGIFs == [][gifResults' # gifResults => gifResults' = query']_vars
=============================================================================
