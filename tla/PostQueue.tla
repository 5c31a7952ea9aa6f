----------------------------- MODULE PostQueue -----------------------------
(***************************************************************************)
(* What the program assumes of App.Post (internal/tui/tui/app.go): the     *)
(* closures that are accepted run one at a time, each once, in the order   *)
(* in which they were accepted, and all of them do, also those that were   *)
(* accepted just before the queue closed.                                  *)
(***************************************************************************)
EXTENDS Sequences, Naturals

CONSTANT Closures

VARIABLES
  accepted,  \* the closures accepted so far, in order
  ran,       \* those that have run, in order
  open       \* no shutdown has begun

vars == <<accepted, ran, open>>

Init ==
  /\ accepted = <<>>
  /\ ran = <<>>
  /\ open = TRUE

Accept(f) ==
  /\ open
  /\ accepted' = Append(accepted, f)
  /\ UNCHANGED <<ran, open>>

Run ==
  /\ Len(ran) < Len(accepted)
  /\ ran' = Append(ran, accepted[Len(ran) + 1])
  /\ UNCHANGED <<accepted, open>>

Close ==
  /\ open
  /\ open' = FALSE
  /\ UNCHANGED <<accepted, ran>>

Next == Run \/ Close \/ \E f \in Closures : Accept(f)

Safe == Init /\ [][Next]_vars

Spec == Safe /\ WF_vars(Run)
=============================================================================
