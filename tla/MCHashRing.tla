------------------------------ MODULE MCHashRing ------------------------------
(* Instances of HashRing: every hash function to a few positions.           *)
EXTENDS HashRing, TLC

Symmetry == Permutations(Node)
=============================================================================
