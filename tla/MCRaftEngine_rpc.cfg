\* One engine among two external peers.
CONSTANTS
  p1 = p1
  p2 = p2
  c1 = c1
  c2 = c2
  Nil = Nil
  Peer = {p1, p2}
  Server = {s1}
  Command = {c1, c2}
  AppendRequests <- TwoLeaders
  VoteRequests <- Candidacies
  MaxTerm = 3
  MaxLog = 3
SPECIFICATION Spec
INVARIANTS TypeOK AlwaysWaitingForATimer RoleMatchesVote AppliedInOrder LogOrdered
PROPERTIES OneVoteOneRolePerTerm
CHECK_DEADLOCK FALSE
