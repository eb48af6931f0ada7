------------------------------ MODULE MCAttach ------------------------------
(* Small instances of Attach. *)
EXTENDS Attach, TLC

Symmetry == Permutations(Runs) \cup Permutations(Secrets) \cup Permutations(Directories)
=============================================================================
