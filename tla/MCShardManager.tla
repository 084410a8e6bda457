---------------------------- MODULE MCShardManager ----------------------------
(* An instance of ShardManager: clients ask for the first shard of one node  *)
(* to be moved, to a node the manager chooses or, as no code refuses it, to  *)
(* the node itself.                                                          *)
EXTENDS ShardManager, TLC

CONSTANT n1

FirstShards == {[shard |-> <<n1, 0>>, source |-> n1, target |-> t] : t \in {n1, Nil}}

Symmetry == Permutations(Node \ {n1})
=============================================================================
