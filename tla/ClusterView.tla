----------------------------- MODULE ClusterView -----------------------------
(***************************************************************************)
(* What each node of a deployment believes of the cluster.                 *)
(*                                                                         *)
(* RaftClusterManager builds a node table and a hash ring from the node's  *)
(* own CLUSTER_NODES when it initializes, and hears of its own engine by   *)
(* the engine's callbacks.  No node asks another one: that two nodes send  *)
(* a key to the same place, or choose the same place for a shard, rests on *)
(* their configurations and on hashing alone.  Configurations differ while *)
(* an operator adds a node by restarting one node after the other.         *)
(*                                                                         *)
(* Spec is the nodes as they are deployed, without any RPC; PeersSpec also *)
(* delivers requests of external peers to their engines.                   *)
(***************************************************************************)
EXTENDS Integers, SequencesExt

CONSTANTS
    Server,         \* the nodes that run
    Node,           \* the names in their configurations
    Configurations, \* the values of CLUSTER_NODES
    Replicas, MaxPosition, Threshold,  \* see HashRing and ShardManager
    Requests,       \* the migrations that clients ask for, see ShardManager
    Heartbeats, VoteRequests,  \* the requests of peers, see RaftEngine
    Nil,
    MaxTerm,        \* bound: no election starts at this term
    MaxOperations   \* bound: how many operations a node schedules

ASSUME ViewAssumption ==
    /\ IsFiniteSet(Node) /\ Server \subseteq Node /\ Configurations \subseteq Seq(Node)
    /\ Nil \notin Node
    /\ Replicas \in Nat \ {0} /\ MaxPosition \in Nat /\ Threshold \in Nat

VARIABLES
    currentTerm, votedFor, log, commitIndex, lastApplied, status, leaderId,
    electionTimer, voteTimers, heartbeatTimer, phase, applied,
    hash,          \* the position md5 gives to a virtual node, on every node
    clusterNodes,  \* config.clusterNodes
    nodes,         \* the node table: a status for each name in it
    joined,        \* in which order the ring of each node got its members
    operations,    \* the shard operations of each node
    named          \* history: those of them whose target the client named

Engine == INSTANCE RaftEngine WITH
    Peer <- Node \ Server, Command <- {}, AppendRequests <- Heartbeats, MaxLog <- 0

engineVars == <<currentTerm, votedFor, log, commitIndex, lastApplied, status,
                leaderId, electionTimer, voteTimers, heartbeatTimer, phase, applied>>
viewVars == <<hash, clusterNodes, nodes, joined>>
moveVars == <<operations, named>>
vars == <<engineVars, viewVars, moveVars>>

Index == 0..(Replicas - 1)
Position == 0..MaxPosition

ASSUME RequestsAssumption ==
    /\ Requests \subseteq [shard : Node \X Index, source : Node, target : Node \cup {Nil}]
    /\ Heartbeats \subseteq Engine!AppendRequest /\ VoteRequests \subseteq Engine!VoteRequest

-----------------------------------------------------------------------------
(* The ring of a node, with every member at weight 1.                      *)

Members(s) == {n \in Node : joined[s][n] # 0}

\* Mutant: the node is not a member of its own ring.
RingOfOthers(s) ==
    {[nodeId |-> n, index |-> i, position |-> hash[<<n, i>>]] : n \in Members(s) \ {s}, i \in Index}

RingOf(s) ==
    {[nodeId |-> n, index |-> i, position |-> hash[<<n, i>>]] : n \in Members(s), i \in Index}

View(s) == INSTANCE ShardManager WITH
    joined <- joined[s], joins <- Cardinality(Members(s)), ring <- RingOf(s), shards <- {},
    operations <- operations[s], metrics <- {}, Weights <- {1}, MaxJoins <- Cardinality(Node)

Lookup(s, p) == View(s)!GetNode(p)
ReplicaNodes(s, p) == View(s)!GetReplicaNodes(p, Cardinality(Node))

-----------------------------------------------------------------------------
Init ==
    /\ Engine!Init
    /\ hash \in [Node \X Index -> Position]
    /\ clusterNodes \in [Server -> Configurations]
    /\ nodes = [s \in Server |-> [n \in Node |-> "none"]]
    /\ joined = [s \in Server |-> [n \in Node |-> 0]]
    /\ operations = [s \in Server |-> <<>>]
    /\ named = [s \in Server |-> {}]

\* A node that the ring has already, the node itself among them, is not added
\* again.
Join(members, n) ==
    IF members[n] # 0 THEN members
    ELSE [members EXCEPT ![n] = 1 + Cardinality({m \in Node : members[m] # 0})]

Others(s) == Range(clusterNodes[s]) \ {s}

\* The node knows itself, and has heard of no other node yet.
InitialTable(s) ==
    [n \in Node |-> IF n = s THEN "follower" ELSE IF n \in Others(s) THEN "offline" ELSE "none"]

\* The cluster manager's initialize, from where the storage engine is loaded.
\* The node adds itself first, then the others as they are listed.
Initialize(s) ==
    /\ Engine!Start(s)
    /\ nodes' = [nodes EXCEPT ![s] = InitialTable(s)]
    /\ joined' = [joined EXCEPT ![s] =
           FoldLeft(Join, [n \in Node |-> IF n = s THEN 1 ELSE 0], clusterNodes[s])]
    /\ UNCHANGED <<hash, clusterNodes, moveVars>>

-----------------------------------------------------------------------------
(* The engine moves on.  startElection, becomeLeader and becomeFollower    *)
(* call back with the new status.                                          *)

HandleRaftStateChange(s, newStatus) == nodes' = [nodes EXCEPT ![s][s] = newStatus]

StartElection(s) ==
    /\ Engine!StartElection(s)
    /\ HandleRaftStateChange(s, "candidate")
    /\ UNCHANGED <<hash, clusterNodes, joined, moveVars>>

BecomeLeader(s) ==
    /\ Engine!BecomeLeader(s)
    /\ HandleRaftStateChange(s, "leader")
    /\ UNCHANGED <<hash, clusterNodes, joined, moveVars>>

\* stop, and the timers that find nothing to do.
QuietStep(s) ==
    /\ Engine!Stop(s) \/ Engine!IgnoreElectionTimeout(s) \/ Engine!DropVoteTimer(s)
    /\ UNCHANGED <<viewVars, moveVars>>

\* Mutant: the callback is for leaders that step down.
BecomeFollowerOfLeaders(s, term) ==
    IF term > currentTerm[s] /\ status[s] = "leader" THEN HandleRaftStateChange(s, "follower")
    ELSE UNCHANGED nodes

\* A newer term makes any node a follower.
BecomeFollower(s, term) ==
    IF term > currentTerm[s] THEN HandleRaftStateChange(s, "follower") ELSE UNCHANGED nodes

ReceiveAppendEntries(s, r) ==
    /\ Engine!HandleAppendEntries(s, r)
    /\ BecomeFollower(s, r.term)
    /\ UNCHANGED <<hash, clusterNodes, joined, moveVars>>

ReceiveRequestVote(s, r) ==
    /\ Engine!HandleRequestVote(s, r)
    /\ BecomeFollower(s, r.term)
    /\ UNCHANGED <<hash, clusterNodes, joined, moveVars>>

-----------------------------------------------------------------------------
(* The shard routes.  Each node keeps the operations it was asked for.     *)

Leads(s) == status[s] = "leader"

\* The client names the shard, its source and, or not, a target; nothing
\* relates them.  The manager chooses a target where none is named.
ScheduleMigration(s, r) ==
    /\ Leads(s)
    /\ Len(operations[s]) < MaxOperations
    /\ operations' = [operations EXCEPT ![s] =
           Append(@, View(s)!Move(r.shard, r.source, r.target))]
    /\ named' = [named EXCEPT ![s] = @ \cup {i \in {Len(operations[s]) + 1} : r.target # Nil}]
    /\ UNCHANGED <<engineVars, viewVars>>

TriggerRebalancing(s) ==
    /\ Leads(s)
    /\ operations' = [operations EXCEPT ![s] =
           IF View(s)!NeedsRebalancing THEN @ \o View(s)!RebalancingMoves ELSE @]
    /\ UNCHANGED <<engineVars, viewVars, named>>

DeployedStep(s) ==
    \/ Initialize(s) \/ StartElection(s) \/ BecomeLeader(s) \/ QuietStep(s)
    \/ \E r \in Requests : ScheduleMigration(s, r)
    \/ TriggerRebalancing(s)

PeerStep(s) ==
    \/ \E r \in Heartbeats : ReceiveAppendEntries(s, r)
    \/ \E r \in VoteRequests : ReceiveRequestVote(s, r)

Next == \E s \in Server : DeployedStep(s)
PeersNext == \E s \in Server : DeployedStep(s) \/ PeerStep(s)

Spec == Init /\ [][Next]_vars
PeersSpec == Init /\ [][PeersNext]_vars

-----------------------------------------------------------------------------
(* Properties.                                                             *)

Initialized == {s \in Server : phase[s] # "created"}

\* What the table of a node shows of the node itself, which hears of the engine
\* by callbacks only, agrees with the leader and the vote that the engine keeps:
\* the node is shown as leader exactly when the engine names it, as follower
\* exactly when it has not voted for itself, and as candidate only while its
\* promotion is to come; through heartbeats and vote requests of older, equal
\* and newer terms, timeouts of leaders, late promotions and a stop.
TableTellsWhoLeads ==
    \A s \in Initialized :
        /\ nodes[s][s] = "leader" <=> leaderId[s] = s
        /\ nodes[s][s] = "follower" <=> votedFor[s] # s
        /\ nodes[s][s] = "candidate" => voteTimers[s] > 0

\* No two members of either ring share a position.
Apart(s, t) ==
    \A u, v \in RingOf(s) \cup RingOf(t) : u.nodeId # v.nodeId => u.position # v.position

Keep(members, names, n) == IF n \in members THEN Append(names, n) ELSE names

\* The names in a list that a node knows.
Known(s, names) == FoldLeft(LAMBDA known, n : Keep(Members(s), known, n), <<>>, names)

\* Nodes of which one knows all that the other knows disagree on a key only
\* where the one that knows more sends it to a node the other has not heard
\* of, whatever the order of their lists, with repetitions and without
\* themselves; the replicas of a key stay in the same order.
OnlyNewcomersDivide ==
    \A s, t \in Initialized :
        Members(s) \subseteq Members(t) /\ Apart(s, t) =>
            \A p \in Position :
                /\ Lookup(s, p) = Lookup(t, p) \/ Lookup(t, p) \notin Members(s)
                /\ ReplicaNodes(s, p) = Known(s, ReplicaNodes(t, p))

\* Where the client names no target, two nodes that each believe to lead choose
\* the same one for what they move away from a node, whichever shards it has and
\* whenever they are asked, if they know the same nodes.  Targets that clients
\* name, sources that differ or nodes that only one of them knows can give one
\* shard two targets.
LeadersChooseAlike ==
    \A s, t \in Server : Members(s) = Members(t) /\ Apart(s, t) =>
        \A i \in DOMAIN operations[s] \ named[s], j \in DOMAIN operations[t] \ named[t] :
            operations[s][i].source = operations[t][j].source =>
                operations[s][i].target = operations[t][j].target

\* A stopped engine starts no election.  All it can still do is to end the one
\* it was in: whatever order the timers are cleared in, what is left of them
\* is vote callbacks.
StoppedNodesStartNothing ==
    [][\A s \in Server : phase[s] = "stopped" =>
          /\ currentTerm'[s] = currentTerm[s]
          /\ status'[s] # status[s] => status[s] = "candidate" /\ voteTimers[s] > 0]_vars
=============================================================================
