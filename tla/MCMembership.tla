---------------------------- MODULE MCMembership ----------------------------
(* Instances of Membership for TLC. *)
EXTENDS Membership, TLC

Symmetry == Permutations(Users \ FirstAdmins) \cup Permutations(FirstAdmins)
              \cup Permutations(Invites) \cup Permutations(Ops)
=============================================================================
