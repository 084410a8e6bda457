-------------------------- MODULE MCMigrationRoutes --------------------------
(* Instances of MigrationRoutes: no chunk, a part of one, one, several.      *)
EXTENDS MigrationRoutes

SomeSizes == {0, 1, 2, 5}
=============================================================================
