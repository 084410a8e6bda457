\* Restarts after a graceful close only.
CONSTANTS
  Key = {k1}
  Value = {v1}
  Ttl = {0}
  Writer = {w1, w2}
  Missing = Missing
  MaxClock = 0
SPECIFICATION GracefulSpec
PROPERTIES RestartKeepsData
