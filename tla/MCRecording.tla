---------------------------- MODULE MCRecording ----------------------------
(* Small instances of Recording. *)
EXTENDS Recording, TLC

Symmetry == Permutations(Sessions) \cup Permutations(Tasks) \cup Permutations(Calls) \cup Permutations(Claims)
=============================================================================
