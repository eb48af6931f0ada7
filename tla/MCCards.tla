------------------------------- MODULE MCCards -------------------------------
(* Small instances of Cards. *)
EXTENDS Cards, TLC

ThreadSymmetry == Permutations(Threads)
=============================================================================
