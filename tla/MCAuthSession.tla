--------------------------- MODULE MCAuthSession ---------------------------
(* Instances of AuthSession for TLC. *)
EXTENDS AuthSession, TLC

Symmetry == Permutations(Users) \cup Permutations(Flows) \cup Permutations(Tokens)
              \cup Permutations(Ops)
=============================================================================
