----------------------------- MODULE MCAgentRun -----------------------------
(* Instances of AgentRun for TLC. *)
EXTENDS AgentRun, TLC

Symmetry == Permutations(Sessions) \cup Permutations(Requests) \cup Permutations(Ops)
=============================================================================
