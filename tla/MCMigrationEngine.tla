-------------------------- MODULE MCMigrationEngine --------------------------
(* Instances of MigrationEngine: sizes of no chunk, a part of one, several.  *)
EXTENDS MigrationEngine

SomeSizes == {0, 1, 2, 5}
=============================================================================
