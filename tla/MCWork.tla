------------------------------- MODULE MCWork -------------------------------
(***************************************************************************)
(* Two calls of the work tools, two projects, one record and a local item  *)
(* of the same number in the first project's queue, two people.            *)
(***************************************************************************)
EXTENDS Work, TLC

CONSTANTS c1, c2, home, away

Symmetric == Permutations(Calls)
LocalOfFirst == [x \in Projects |-> IF x = home THEN Records ELSE {}]

=============================================================================
