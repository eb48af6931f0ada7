------------------------------- MODULE MCTurns -------------------------------
(* Small instances of Turns. *)
EXTENDS Turns, TLC

SessionSymmetry == Permutations(Sessions)
=============================================================================
