\* One life of a node, from every content of its storage, with a buffer (which a
\* text behaves as), "", 0 and null.
CONSTANTS
  Server = {n1}
  Key = {k1, k2}
  Value = {buffer, empty, zero, null}
  Falsy = {empty, zero}
  EmptyText = empty
  EmptyBuffer = buffer
  Null = null
  Nil = Nil
  Absent = Absent
  MaxTerm = 1
  MaxLog = 3
SPECIFICATION FairRoutesSpec
INVARIANTS TypeOK ReadsShowTheAcknowledged RefusalsAreEarlyAndBlind
PROPERTIES EveryStartedNodeLeads ImplementsKeyValueStore
CHECK_DEADLOCK FALSE
