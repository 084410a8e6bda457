\* One engine and its first command.
CONSTANTS
  p1 = p1
  p2 = p2
  c1 = c1
  c2 = c2
  Nil = Nil
  Peer = {p1, p2}
  Command = {c1, c2}
  Server = {s1}
  MaxTerm = 1
  MaxLog = 1
  AppendRequests <- None
  VoteRequests <- None
SPECIFICATION DeployedSpec
INVARIANTS CommittedIsApplied
CHECK_DEADLOCK FALSE
