---- MODULE MCApprovalHub ----
(* Instances of ApprovalHub for TLC; the values are given in the .cfg files. *)
EXTENDS ApprovalHub, TLC

CONSTANTS r1, r2, u1, u2, b1, b2, h1, h2, s1, s2

\* Handlers are interchangeable, and so are overlapping sweeps.
Symmetry == Permutations(Handlers) \cup Permutations(Sweeps)
====
