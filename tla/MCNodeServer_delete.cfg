\* The second delete answers the client.
CONSTANTS
  Server = {n1}
  Key = {k1, k2}
  Value = {v1, v2}
  Nil = Nil
  Absent = Absent
  MaxTerm = 1
  MaxLog = 4
SPECIFICATION Spec
PROPERTIES DeletedSaysIfThereWasAKey
CHECK_DEADLOCK FALSE
