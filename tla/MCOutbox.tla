------------------------------ MODULE MCOutbox ------------------------------
(* Small instances of Outbox. *)
EXTENDS Outbox, TLC

CONSTANTS s1, s2, p1, p2

(* Two Amplifier sessions of one enrollment, both bound to its project. *)
OneProject == (s1 :> p1) @@ (s2 :> p1)

SessionSymmetry == Permutations({s1, s2})

(* teamwork_bind moved the second one to another project. *)
TwoProjects == (s1 :> p1) @@ (s2 :> p2)
=============================================================================
