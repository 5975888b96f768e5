---------------------------- MODULE MCMigrations ----------------------------
(* Small instances of the migration runner. *)
EXTENDS Migrations, TLC

Symmetry == Permutations(Runners)
=============================================================================
