\* Four nodes of one or three shards, so that two may have too many and two too
\* few; three operations; positions all equal: they only decide which of the
\* nodes with equally few shards comes first.
CONSTANTS
  n1 = n1
  Node = {n1, n2, n3, n4}
  Replicas = 1
  Weights = {1, 3}
  MaxPosition = 0
  Nil = Nil
  MaxJoins = 4
  Threshold = 20
  Requests <- FirstShards
  MaxOperations = 3
SYMMETRY Symmetry
SPECIFICATION ManagerSpec
INVARIANTS ManagerTypeOK
PROPERTIES OperationsRunOnce LeaversShardsMoveToStayers RebalancingEvensOut
CHECK_DEADLOCK FALSE
