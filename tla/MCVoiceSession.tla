--------------------------- MODULE MCVoiceSession ---------------------------
(* Instances of VoiceSession for TLC. *)
EXTENDS VoiceSession, TLC

Symmetry == Permutations(Phrases)
=============================================================================
