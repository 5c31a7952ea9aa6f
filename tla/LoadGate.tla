------------------------------ MODULE LoadGate ------------------------------
(***************************************************************************)
(* The gate in front of one resource that is fetched over REST: a          *)
(* channel's history, a guild's roles, channels or threads, a channel's    *)
(* archived threads (internal/app/resource_gate.go), and the loaders that  *)
(* go through it.  A loader takes the gate's version when it begins; its   *)
(* completion counts only if the version is still the same.  Deleting the  *)
(* resource, or learning it from the gateway, moves the version on.        *)
(*                                                                         *)
(* A completion checks the version and then calls finish without one       *)
(* (finishHistoryLoad, finishRoleLoad, ...).  Both run in one closure on   *)
(* the UI goroutine, as every version change does, so they are one step.   *)
(***************************************************************************)
EXTENDS Naturals

CONSTANTS
  Loaders,    \* goroutines that may load the resource
  MaxVersion  \* bound on the gate's version

VARIABLES
  gate,   \* the key's entries in loadGate's maps
  token   \* per loader: the version it began under, or Idle

vars == <<gate, token>>

Gate == [loaded: BOOLEAN, pending: BOOLEAN, exhausted: BOOLEAN, version: Nat]

NewGate == [loaded |-> FALSE, pending |-> FALSE, exhausted |-> FALSE, version |-> 0]

Idle == [running |-> FALSE, version |-> 0]

Token == [running: BOOLEAN, version: Nat]

Running(l) == token[l].running

Current(l) == Running(l) /\ token[l].version = gate.version

Init ==
  /\ gate = NewGate
  /\ token = [l \in Loaders |-> Idle]

-----------------------------------------------------------------------------

Take(l) ==
  /\ ~ Running(l)
  /\ gate' = [gate EXCEPT !.pending = TRUE]
  /\ token' = [token EXCEPT ![l] = [running |-> TRUE, version |-> gate.version]]

MayBegin == ~ gate.loaded /\ ~ gate.pending

Begin(l) == MayBegin /\ Take(l)

BeginOlder(l) == ~ gate.pending /\ ~ gate.exhausted /\ Take(l)

\* beginOlder and finishOlder in one closure: there is nothing to page.
Exhaust ==
  /\ ~ gate.pending /\ ~ gate.exhausted
  /\ gate' = [gate EXCEPT !.exhausted = TRUE]
  /\ UNCHANGED token

\* The loader's completion: a stale one leaves the gate alone, a current one
\* gives it back and may mark the resource loaded, exhausted, or both.
Finish(l, loaded, exhausted) ==
  /\ Running(l)
  /\ token' = [token EXCEPT ![l] = Idle]
  /\ IF Current(l)
     THEN gate' = [gate EXCEPT !.pending = FALSE, !.loaded = @ \/ loaded,
                               !.exhausted = @ \/ exhausted]
     ELSE UNCHANGED gate

\* The gateway delivered the resource (GUILD_CREATE, THREAD_LIST_SYNC).
MarkLoaded ==
  /\ gate.version < MaxVersion
  /\ gate' = [gate EXCEPT !.version = @ + 1, !.loaded = TRUE, !.pending = FALSE]
  /\ UNCHANGED token

NextVersion == [NewGate EXCEPT !.version = gate.version + 1]

\* The resource is gone.
Invalidate ==
  /\ gate.version < MaxVersion
  /\ gate' = NextVersion
  /\ UNCHANGED token

Next ==
  \/ \E l \in Loaders : Begin(l) \/ BeginOlder(l)
  \/ \E l \in Loaders : \E loaded, exhausted \in BOOLEAN : Finish(l, loaded, exhausted)
  \/ Exhaust \/ MarkLoaded \/ Invalidate

\* A REST call returns and its closure runs.
Fairness ==
  \A l \in Loaders : WF_vars(\E loaded, exhausted \in BOOLEAN : Finish(l, loaded, exhausted))

Safe == Init /\ [][Next]_vars

Spec == Safe /\ Fairness

-----------------------------------------------------------------------------
(* Properties                                                              *)

TypeOK ==
  /\ gate \in Gate
  /\ token \in [Loaders -> Token]

\* Two loads whose completions would both count never run at once, so no page
\* is installed over a newer one.
OneCurrent == \A k, l \in Loaders : Current(k) /\ Current(l) => k = l

\* The gate is closed exactly while such a load runs: it is never left closed
\* with nobody to open it.
PendingOwned == gate.pending <=> \E l \in Loaders : Current(l)

\* The version a loader holds is one the gate has had.
TokenPast == \A l \in Loaders : Running(l) => token[l].version <= gate.version

\* The inductive invariant: a version that moves on leaves no loader current
\* only because every token is in the past.
IInv == TypeOK /\ TokenPast /\ OneCurrent /\ PendingOwned

\* A pending gate opens again.
Opens == gate.pending ~> ~ gate.pending
=============================================================================
