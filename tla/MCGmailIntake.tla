--------------------------- MODULE MCGmailIntake ---------------------------
(* Instances of GmailIntake for TLC. *)
EXTENDS GmailIntake, TLC

Symmetry == Permutations(Polls) \cup Permutations(Pushes) \cup Permutations(Jobs)
=============================================================================
