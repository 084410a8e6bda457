\* Two running nodes, each with any of the configurations, and every hash
\* function from the three nodes' virtual nodes to four positions; where these are
\* all the same, one node and a peer that calls it.
CONSTANTS
  n1 = n1
  n2 = n2
  n3 = n3
  Server = {n1, n2}
  Node = {n1, n2, n3}
  Configurations <- SomeConfigurations
  Replicas = 1
  MaxPosition = 3
  Threshold = 20
  Requests <- SomeRequests
  Heartbeats <- SomeHeartbeats
  VoteRequests <- SomeVoteRequests
  Nil = Nil
  MaxTerm = 3
  MaxOperations = 1
SPECIFICATION InstanceSpec
INVARIANTS TableTellsWhoLeads OnlyNewcomersDivide LeadersChooseAlike
PROPERTIES StoppedNodesStartNothing
CHECK_DEADLOCK FALSE
