-------------------------- MODULE MCKeyValueRoutes --------------------------
(* An instance of KeyValueRoutes: one node, as nodes do not talk to each     *)
(* other.                                                                   *)
EXTENDS KeyValueRoutes
=============================================================================
