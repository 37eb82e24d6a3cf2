---------------------------- MODULE MCMigrations ----------------------------
(* Instances of Migrations.                                                *)
EXTENDS Migrations, TLC

ProbeFails == {"probe"}
Symmetry == Permutations(Migrators) \cup Permutations(Writers)
               \cup Permutations(Pks)
=============================================================================
