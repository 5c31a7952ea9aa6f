------------------------------ MODULE MCShell ------------------------------
(* The shell for TLC: a text channel and a forum, two accounts. *)
EXTENDS Shell, TLC

Symmetry == Permutations(Accounts)
=============================================================================
