\* A cancelled operation goes on.
CONSTANTS
  Op = {o1}
  Sizes <- SomeSizes
  ChunkSize = 2
SPECIFICATION Spec
PROPERTY CancelledStaysCancelled
CHECK_DEADLOCK FALSE
