\* Three overlapping writers, a key with and without a ttl.
CONSTANTS
  Key = {k1}
  Value = {v1}
  Ttl = {0, 1}
  Writer = {w1, w2, w3}
  Missing = Missing
  MaxClock = 2
SPECIFICATION FairSpec
INVARIANTS TypeOK SettledDiskIsCurrent MemoryIsAcknowledged
PROPERTIES SettledDataSurvivesRestart CloseEnds
