---------------------------- MODULE MCClusterView ----------------------------
(* An instance of ClusterView: two nodes run while a third is being added, or *)
(* one node runs and the third calls it.                                     *)
EXTENDS ClusterView

CONSTANTS n1, n2, n3

\* In two orders, with a repetition, without the node itself, and with n3.
SomeConfigurations == {<<n1, n2>>, <<n2, n1, n2>>, <<n1>>, <<n1, n2, n3>>, <<n3, n2, n1>>}

\* One shard with its own source, with a target, and with another source; and
\* another shard with the same source.
SomeRequests ==
    {[shard |-> <<n1, 0>>, source |-> n1, target |-> Nil],
     [shard |-> <<n1, 0>>, source |-> n1, target |-> n1],
     [shard |-> <<n1, 0>>, source |-> n3, target |-> Nil],
     [shard |-> <<n2, 0>>, source |-> n1, target |-> Nil]}

SomeHeartbeats ==
    [term : 0..3, leaderId : {n3}, prevLogIndex : {-1, 0}, prevLogTerm : {0},
     entries : {<<>>}, leaderCommit : {0, 1}]

SomeVoteRequests ==
    [term : 0..3, candidateId : {n3}, lastLogIndex : {-1}, lastLogTerm : {0}]

\* With all virtual nodes at one position nothing can be said of the rings: there
\* n3 calls n1, which runs alone, with up to three elections.  Everywhere else
\* nobody calls, and each node has one election.
AllAtOnePosition == \A x, y \in Node \X Index : hash[x] = hash[y]

InstanceNext ==
    \/ \E s \in Server :
        /\ ~AllAtOnePosition
        /\ DeployedStep(s)
        /\ currentTerm'[s] <= 1
    \/ AllAtOnePosition /\ DeployedStep(n1)
    \/ AllAtOnePosition /\ phase[n1] = "running" /\ PeerStep(n1)

InstanceSpec == Init /\ [][InstanceNext]_vars
=============================================================================
