---------------------------- MODULE MCJobListing ----------------------------
(* Small instances of JobListing for TLC. *)
EXTENDS JobListing, TLC

OtherSymmetry == Permutations(Others)
=============================================================================
