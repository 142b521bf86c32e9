------------------------------ MODULE MCFiles -------------------------------
(* Four calls of one user, of files of two sizes.  Whose a file is decides *)
(* only whether it may be deleted, and any deletion may fail.              *)
EXTENDS Files, TLC

CallSymmetry == Permutations(Calls)
=============================================================================
