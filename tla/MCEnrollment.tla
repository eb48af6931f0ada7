---------------------------- MODULE MCEnrollment ----------------------------
(* Small instances of Enrollment. *)
EXTENDS Enrollment, TLC

FormSymmetry == Permutations(Forms)
=============================================================================
