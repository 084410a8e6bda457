\* Two operations, sizes of up to three chunks, the last one partial.
CONSTANTS
  Op = {o1, o2}
  NoOp = NoOp
  Sizes <- SomeSizes
  ChunkSize = 2
SPECIFICATION FairRoutesSpec
INVARIANTS TypeOK RoutedOnlyWhole RecordMatchesWork PageMissesOnlyTheCancelled RefusedCancelMeansDone
PROPERTIES NeverBackwards StartedMigrationsComplete
CHECK_DEADLOCK FALSE
