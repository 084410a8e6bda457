\* Every hash function from six virtual nodes of three nodes to three positions.
CONSTANTS
  Node = {n1, n2, n3}
  Replicas = 1
  Weights = {1, 2}
  MaxPosition = 2
  Nil = Nil
  MaxJoins = 4
SYMMETRY Symmetry
SPECIFICATION Spec
INVARIANTS LookupIsClockwise ReplicasAreNodes ShardsCoverTheRest
PROPERTIES OnlyNecessaryMoves FailoverToReplica
CHECK_DEADLOCK FALSE
