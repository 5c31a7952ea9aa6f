------------------------------- MODULE Forum -------------------------------
(***************************************************************************)
(* The posts of one forum: the threads the gateway tells of and the pages  *)
(* of archived ones the user asks for (app/threads.go, the thread handlers *)
(* of app/app_gateway_state.go, store/channels.go), the forum's own        *)
(* metadata (app/app_directory.go) and the list that shows the posts       *)
(* (ui/forumview.go).                                                      *)
(*                                                                         *)
(* Events arrive in order, but the answer of a request is a snapshot taken *)
(* at any moment between and applied at any later one. Without a connection*)
(* events are lost; a new session begins with the list of active threads.  *)
(* Access to the forum may be withdrawn and given back.                    *)
(***************************************************************************)
EXTENDS Integers, SequencesExt, FiniteSetsExt

CONSTANTS
  Threads,     \* the posts, as the numbers of their ids
  Limit,       \* archivedPageLimit
  MaxChanges,  \* bound: the changes at the server
  MaxRequests, \* bound: the requests of the user
  None

VARIABLES
  srv,       \* what each thread is at the server: "none", "active", "deleted" or archived, with its stamp
  access,    \* the account may see the forum
  clock,     \* how much has changed at the server
  connected, \* the gateway session is alive
  wire,      \* the events that have not been handled
  store,     \* what the client has each thread for, or None
  known,     \* the client knows the forum
  gen,       \* the generation of the forum's lifetime
  gate,      \* archivedGate of the forum: loaded, pending, version
  cursor,    \* archivedBefore: the stamp the next page comes before, or None
  pages,     \* requests for archived pages, and their answers
  meta,      \* forumMetaPending: the generation asked for, or None
  metas,     \* the generations of the metadata requests in flight
  asked,     \* how many requests there were
  rows,      \* the threads the forum view lists
  missed     \* the threads that changed while there was no one to tell
vars == <<srv, access, clock, connected, wire, store, known, gen, gate, cursor, pages, meta, metas, asked, rows, missed>>

server == <<srv, access, clock, connected, missed>>
Archived(s) == s.is = "archived"

(* ------------------------------- the server ---------------------------- *)

Tell(ev, t) ==
  IF connected /\ access THEN wire' = Append(wire, ev) /\ UNCHANGED missed
  ELSE UNCHANGED wire /\ missed' = missed \cup {t}

\* A post is made, archived, opened again or deleted.
ServerChanges(t, is) ==
  /\ clock < MaxChanges /\ clock' = clock + 1
  /\ <<srv[t].is, is>> \in {<<"none", "active">>, <<"active", "archived">>, <<"archived", "active">>,
                            <<"active", "deleted">>, <<"archived", "deleted">>}
  /\ srv' = [srv EXCEPT ![t] = [is |-> is, at |-> clock + 1]]
  /\ Tell(IF is = "deleted" THEN [kind |-> "delete", thread |-> t] ELSE [kind |-> "upsert", thread |-> t, is |-> is], t)
  /\ UNCHANGED <<access, connected, store, known, gen, gate, cursor, pages, meta, metas, asked, rows>>

Active == {t \in Threads : srv[t].is = "active"}
Sync == [kind |-> "sync", active |-> Active]

\* Access to the forum goes and comes back, with the list of its active posts.
AccessChanges ==
  /\ connected /\ clock < MaxChanges /\ clock' = clock + 1 /\ access' = ~access
  /\ wire' = wire \o IF access THEN <<[kind |-> "gone"]>> ELSE <<[kind |-> "back"], Sync>>
  /\ UNCHANGED <<srv, connected, missed, store, known, gen, gate, cursor, pages, meta, metas, asked, rows>>

\* What is on its way when the connection breaks is lost.
Disconnect ==
  /\ connected /\ access /\ clock < MaxChanges /\ clock' = clock + 1 /\ connected' = FALSE
  /\ missed' = missed \cup {wire[i].thread : i \in {k \in DOMAIN wire : wire[k].kind \in {"upsert", "delete"}}}
  /\ wire' = <<>>
  /\ UNCHANGED <<srv, access, store, known, gen, gate, cursor, pages, meta, metas, asked, rows>>

Reconnect ==
  /\ ~connected /\ connected' = TRUE /\ wire' = <<[kind |-> "back"], Sync>>
  /\ UNCHANGED <<srv, access, clock, missed, store, known, gen, gate, cursor, pages, meta, metas, asked, rows>>

(* ------------------------------- the gates ----------------------------- *)

Invalidated(g) == [loaded |-> FALSE, pending |-> FALSE, version |-> g.version + 1]

\* finishArchivedLoad: only the last page counts as loaded.
finishArchivedLoad(g, ok, more) == [g EXCEPT !.pending = FALSE, !.loaded = @ \/ (ok /\ ~more)]

\* Threads and ArchivedThreads of the store, the one list under the other.
Listed(s) == [t \in Threads |-> IF s[t] \in {"active", "archived"} THEN s[t] ELSE None]

\* onChange: refreshForum rebuilds the view from the store, if it has the forum.
Changed(s, k) == rows' = IF k THEN Listed(s) ELSE rows

(* ------------------------------ the handlers --------------------------- *)

HandleUpsert(ev) ==
  /\ ev.kind = "upsert" /\ store' = [store EXCEPT ![ev.thread] = ev.is] /\ Changed(store', known)
  /\ UNCHANGED <<known, gen, gate, cursor, meta>>

\* handleThreadDelete also forgets the pages of the parent.
HandleThreadDelete(ev) ==
  /\ ev.kind = "delete" /\ store' = [store EXCEPT ![ev.thread] = None] /\ Changed(store', known)
  /\ gate' = Invalidated(gate) /\ cursor' = None
  /\ UNCHANGED <<known, gen, meta>>

\* SyncActiveThreads: an active thread that is not listed goes, archived ones stay.
HandleSync(ev) ==
  /\ ev.kind = "sync"
  /\ store' = [t \in Threads |-> IF t \in ev.active THEN "active" ELSE IF store[t] = "active" THEN None ELSE store[t]]
  /\ Changed(store', known) /\ UNCHANGED <<known, gen, gate, cursor, meta>>

\* handleChannelDelete: the forum goes with its threads.
HandleGone(ev) ==
  /\ ev.kind = "gone" /\ store' = [t \in Threads |-> None] /\ Changed(store', FALSE)
  /\ known' = FALSE /\ gen' = gen + 1 /\ gate' = Invalidated(gate) /\ cursor' = None /\ meta' = None

HandleBack(ev) ==
  /\ ev.kind = "back" /\ known' = TRUE /\ gen' = IF known THEN gen ELSE gen + 1
  /\ Changed(store, TRUE) /\ UNCHANGED <<store, gate, cursor, meta>>

Handle ==
  /\ wire # <<>> /\ wire' = Tail(wire)
  /\ LET ev == Head(wire)
     IN HandleUpsert(ev) \/ HandleThreadDelete(ev) \/ HandleSync(ev) \/ HandleGone(ev) \/ HandleBack(ev)
  /\ UNCHANGED <<server, pages, metas, asked>>

(* ------------------------------ the requests --------------------------- *)

\* LoadArchivedThreads, from the opening of the forum or the row at its foot.
LoadArchivedThreads ==
  /\ known /\ ~gate.loaded /\ ~gate.pending /\ asked < MaxRequests /\ asked' = asked + 1
  /\ gate' = [gate EXCEPT !.pending = TRUE]
  /\ pages' = pages \cup {[n |-> asked, version |-> gate.version, gen |-> gen, before |-> cursor, answer |-> None]}
  /\ UNCHANGED <<server, wire, store, known, gen, cursor, meta, metas, rows>>

\* The server's page: the newest of the archived threads before the cursor.
Page(before) ==
  LET old == {t \in Threads : Archived(srv[t]) /\ (before # None => srv[t].at < before)}
      newer(t) == Cardinality({u \in old : srv[u].at > srv[t].at})
      page == {t \in old : newer(t) < Limit}
  IN [threads |-> page, more |-> page # old, next |-> IF page = {} THEN None ELSE Min({srv[t].at : t \in page})]

Answer(r) ==
  /\ r.answer = None /\ connected /\ access
  /\ pages' = (pages \ {r}) \cup {[r EXCEPT !.answer = Page(r.before)]}
  /\ UNCHANGED <<server, wire, store, known, gen, gate, cursor, meta, metas, asked, rows>>

\* archivedLoadCurrent, and the generation of the forum.
Current(r) == r.gen = gen /\ r.version = gate.version

\* The posted completion of a page.
Complete(r) ==
  /\ r.answer # None /\ pages' = pages \ {r}
  /\ IF Current(r)
     THEN /\ store' = [t \in Threads |-> IF t \in r.answer.threads THEN "archived" ELSE store[t]]
          /\ gate' = finishArchivedLoad(gate, TRUE, r.answer.more)
          /\ cursor' = IF r.answer.more THEN r.answer.next ELSE cursor
          /\ Changed(store', known)
     ELSE UNCHANGED <<store, gate, cursor, rows>>
  /\ UNCHANGED <<server, wire, known, gen, meta, metas, asked>>

\* Mutant: a failure leaves the request pending.
FailPends(r) ==
  /\ r.answer = None /\ pages' = pages \ {r}
  /\ UNCHANGED <<server, wire, store, known, gen, gate, cursor, meta, metas, asked, rows>>

Fail(r) ==
  /\ r.answer = None /\ pages' = pages \ {r}
  /\ gate' = IF Current(r) THEN finishArchivedLoad(gate, FALSE, FALSE) ELSE gate
  /\ UNCHANGED <<server, wire, store, known, gen, cursor, meta, metas, asked, rows>>

LoadForumMetadata ==
  /\ known /\ meta = None /\ asked < MaxRequests /\ asked' = asked + 1
  /\ meta' = gen /\ metas' = metas \cup {gen}
  /\ UNCHANGED <<server, wire, store, known, gen, gate, cursor, pages, rows>>

\* The answer, or the failure, of a metadata request.
MetadataAnswer(g) ==
  /\ g \in metas /\ metas' = metas \ {g}
  /\ IF g = gen /\ meta = g
     THEN meta' = None /\ \/ known' = TRUE /\ gen' = (IF known THEN gen ELSE gen + 1) /\ Changed(store, TRUE)
                          \/ UNCHANGED <<known, gen, rows>>
     ELSE UNCHANGED <<meta, known, gen, rows>>
  /\ UNCHANGED <<server, wire, store, gate, cursor, pages, asked>>

Init ==
  /\ srv \in [Threads -> {[is |-> "none", at |-> 0], [is |-> "active", at |-> 0]} \cup {[is |-> "archived", at |-> 0 - n] : n \in Threads}]
  /\ \A t \in Threads : Archived(srv[t]) => srv[t].at = 0 - t
  /\ access = TRUE /\ clock = 0 /\ connected = TRUE /\ wire = <<Sync>>
  /\ store = [t \in Threads |-> None] /\ known = TRUE /\ gen = 1
  /\ gate = [loaded |-> FALSE, pending |-> FALSE, version |-> 0] /\ cursor = None
  /\ pages = {} /\ meta = None /\ metas = {} /\ asked = 0 /\ rows = store /\ missed = {}

Next ==
  \/ \E t \in Threads, is \in {"active", "archived", "deleted"} : ServerChanges(t, is)
  \/ AccessChanges \/ Disconnect \/ Reconnect \/ Handle
  \/ LoadArchivedThreads \/ LoadForumMetadata
  \/ \E r \in pages : Answer(r) \/ Complete(r) \/ Fail(r)
  \/ \E g \in metas : MetadataAnswer(g)

\* Every request is answered or fails, every event on the wire is handled.
Fairness ==
  /\ WF_vars(Handle)
  /\ WF_vars(\E r \in pages : Complete(r) \/ Fail(r)) /\ WF_vars(\E g \in metas : MetadataAnswer(g))

Spec == Init /\ [][Next]_vars /\ Fairness

(* ------------------------------ properties ----------------------------- *)

Told(t) == t \notin missed /\ wire = <<>>

\* A post whose deletion the client has been told of is not listed again, whatever
\* page was in flight.
NoGhost ==
  \A t \in Threads : Told(t) /\ srv[t].is = "deleted" => store[t] = None /\ (known => rows[t] = None)

\* A forum that says there are no more archived posts lists them all, but for
\* those that changed while the client was not told.
ArchivedComplete ==
  gate.loaded => \A t \in Threads : Told(t) /\ Archived(srv[t]) /\ known /\ access => rows[t] # None

\* Nothing brings the forum back once its removal is handled.
StaysGone == wire = <<>> /\ connected => known = access

\* A page asked for does not stay pending, so the next one can be asked for; nor
\* does the forum's metadata.
PagesEnd == gate.pending ~> ~gate.pending
MetadataEnds == (meta # None) ~> (meta = None)
=============================================================================
