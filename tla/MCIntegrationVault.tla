------------------------- MODULE MCIntegrationVault -------------------------
(* Instances of IntegrationVault for TLC; the values are given in the .cfg files. *)
EXTENDS IntegrationVault, TLC

Symmetry == Permutations(Rows) \cup Permutations(Gens) \cup Permutations(Flows)
              \cup Permutations(Ops)
=============================================================================
