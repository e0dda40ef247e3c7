----------------------------- MODULE MCMigration -----------------------------
(***************************************************************************)
(* Migration with interchangeable groups, for the runs without liveness.   *)
(***************************************************************************)
EXTENDS Migration, TLC

Symmetry == Permutations(Group)
=============================================================================
