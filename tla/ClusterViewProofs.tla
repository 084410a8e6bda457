-------------------------- MODULE ClusterViewProofs --------------------------
(* What the nodes believe of the cluster, proved for any number of nodes,   *)
(* configurations and virtual nodes, and for every hash function.           *)
EXTENDS ClusterView, FiniteSetTheorems, SequenceTheorems, TLAPS

-----------------------------------------------------------------------------
(* The node table and the engine.                                          *)

NewMember(none, members, n) == Join(members, n)

\* The loop that adds the configured nodes to the ring.
Joining == INSTANCE LoopLemmas WITH Op <- NewMember

\* The loop of getReplicaNodes, and the one that keeps the names a node knows.
TakeNode(count, replicas, v) ==
    IF Len(replicas) < count /\ v.nodeId \notin Range(replicas)
    THEN Append(replicas, v.nodeId) ELSE replicas
Taking == INSTANCE LoopLemmas WITH Op <- TakeNode
Keeping == INSTANCE LoopLemmas WITH Op <- Keep

Types ==
    /\ currentTerm \in [Server -> Nat]
    /\ votedFor \in [Server -> Node \cup {Nil}] /\ leaderId \in [Server -> Node \cup {Nil}]
    /\ status \in [Server -> {"follower", "candidate", "leader"}]
    /\ electionTimer \in [Server -> BOOLEAN]
    /\ voteTimers \in [Server -> Nat]
    /\ phase \in [Server -> {"created", "running", "stopped"}]
    /\ hash \in [Node \X Index -> Position]
    /\ clusterNodes \in [Server -> Configurations]
    /\ nodes \in [Server -> [Node -> {"none", "offline", "follower", "candidate", "leader"}]]
    /\ joined \in [Server -> [Node -> Nat]]
    /\ DOMAIN operations = Server /\ DOMAIN named = Server

\* Before its start a node knows nothing, has no timer and no operations.
CreatedIsBlank ==
    \A s \in Server : phase[s] = "created" =>
        /\ status[s] = "follower" /\ ~electionTimer[s] /\ voteTimers[s] = 0
        /\ joined[s] = [n \in Node |-> 0]
        /\ nodes[s] = [n \in Node |-> "none"]
        /\ operations[s] = <<>>

\* After it, the node's ring has the node itself and the configured ones.
MembersAreConfigured ==
    \A s \in Server : phase[s] # "created" =>
        Members(s) = {s} \cup Range(clusterNodes[s])

\* The table has the ring's members in it, the engine's own status, and every
\* other node offline: no callback is missing.
TableMirrorsOneEngine ==
    \A s \in Server : \A n \in Node :
        nodes[s][n] = IF n \notin Members(s) THEN "none"
                      ELSE IF n = s THEN status[s] ELSE "offline"

\* What an engine keeps of its role in several places.
RoleAgrees(s) ==
    /\ leaderId[s] = s <=> status[s] = "leader"
    /\ votedFor[s] = s <=> status[s] # "follower"
    /\ status[s] = "candidate" => voteTimers[s] > 0

TableInv ==
    /\ Types /\ CreatedIsBlank /\ MembersAreConfigured /\ TableMirrorsOneEngine
    /\ \A s \in Server : RoleAgrees(s)

\* Where no peer calls, nothing arms a timer after stop.
StoppedIsUntimed == \A s \in Server : phase[s] = "stopped" => ~electionTimer[s]

\* Joining one node after the other ends with all of them, in whatever order
\* and however often they are listed.
LEMMA JoinAll ==
    ASSUME NEW s \in Node, NEW list \in Seq(Node)
    PROVE  LET members == FoldLeft(Join, [n \in Node |-> IF n = s THEN 1 ELSE 0], list)
           IN  /\ members \in [Node -> Nat]
               /\ \A n \in Node : members[n] # 0 <=> n = s \/ n \in Range(list)
PROOF
  <1> DEFINE base == [n \in Node |-> IF n = s THEN 1 ELSE 0]
             last == Len(list)
             Joined(k, members) ==
                 /\ members \in [Node -> Nat]
                 /\ \A n \in Node : members[n] # 0 <=> n = s \/ \E i \in 1..k : list[i] = n
  <1>1. last \in Nat /\ DOMAIN list = 1..last /\ \A i \in 1..last : list[i] \in Node
    OBVIOUS
  <1>2. FoldLeft(Join, base, list) = Joining!Fold(0, base, list)
    BY DEF NewMember, Joining!Fold, Joining!FoldLeft, FoldLeft, Joining!MapThenFoldSet,
           MapThenFoldSet, Max, Joining!Max
  <1>3. PICK turn : Joining!Turning(0, base, list, last, turn)
    BY <1>1, Joining!Turns
  <1> DEFINE P == {k \in Nat : k <= last => Joined(k, turn[k])}
  <1>4. 0 \in P
    <2>1. turn[0] = base
      BY <1>3 DEF Joining!Turning
    <2>2. Joined(0, base)
      OBVIOUS
    <2> QED
      BY <2>1, <2>2
  <1>5. ASSUME NEW k \in 0..(last - 1), k \in P PROVE k + 1 \in P
    <2> DEFINE m == turn[k]
               n == list[k + 1]
    <2>1. k + 1 \in 1..last /\ (k + 1) - 1 = k /\ Joined(k, m) /\ n \in Node
      BY <1>1, <1>5
    <2>2. turn[k + 1] = Join(m, n)
      BY <1>3, <2>1 DEF Joining!Turning, NewMember
    <2>3. \A i : i \in 1..(k + 1) <=> i \in 1..k \/ i = k + 1
      OBVIOUS
    <2>4. Cardinality({x \in Node : m[x] # 0}) \in Nat
      <3>1. {x \in Node : m[x] # 0} \in SUBSET Node
        OBVIOUS
      <3> QED
        BY <3>1, FS_Subset, FS_CardinalityType, ViewAssumption
    <2>5. Joined(k + 1, Join(m, n))
      <3> HIDE DEF m
      <3>1. CASE m[n] # 0
        <4>1. Join(m, n) = m
          BY <3>1 DEF Join
        <4>2. \A x \in Node : (\E i \in 1..(k + 1) : list[i] = x) <=>
                                  (\E i \in 1..k : list[i] = x) \/ x = n
          BY <2>3
        <4> QED
          BY <2>1, <3>1, <4>1, <4>2
      <3>2. CASE m[n] = 0
        <4> DEFINE c == 1 + Cardinality({x \in Node : m[x] # 0})
        <4>1. Join(m, n) = [m EXCEPT ![n] = c] /\ c \in Nat /\ c # 0
          BY <2>4, <3>2 DEF Join
        <4>2. \A x \in Node : (\E i \in 1..(k + 1) : list[i] = x) <=>
                                  (\E i \in 1..k : list[i] = x) \/ x = n
          BY <2>3
        <4> HIDE DEF c, n
        <4>3. Join(m, n) \in [Node -> Nat]
          BY <2>1, <4>1
        <4>4. \A x \in Node : Join(m, n)[x] # 0 <=> m[x] # 0 \/ x = n
          BY <2>1, <4>1
        <4> QED
          BY <2>1, <4>2, <4>3, <4>4
      <3> QED
        BY <3>1, <3>2
    <2> QED
      BY <2>2, <2>5
  <1>6. P \in SUBSET Nat
    OBVIOUS
  <1> HIDE DEF P
  <1>7. last \in P
    <2>1. 0..last \subseteq P
      BY <1>1, <1>4, <1>5, <1>6, Joining!UpTo
    <2> QED
      BY <1>1, <2>1
  <1>8. Joined(last, turn[last]) /\ turn[last] = FoldLeft(Join, base, list)
    BY <1>1, <1>2, <1>3, <1>7 DEF P, Joining!Turning
  <1>9. \A n : n \in Range(list) <=> \E i \in 1..last : list[i] = n
    BY <1>1 DEF Range
  <1> QED
    BY <1>8, <1>9

LEMMA TableInvInit == Init => TableInv /\ StoppedIsUntimed
PROOF
  <1> SUFFICES ASSUME Init PROVE TableInv /\ StoppedIsUntimed
    OBVIOUS
  <1>1. /\ currentTerm = [s \in Server |-> 0] /\ status = [s \in Server |-> "follower"]
        /\ electionTimer = [s \in Server |-> FALSE] /\ voteTimers = [s \in Server |-> 0]
        /\ votedFor = [s \in Server |-> Nil] /\ leaderId = [s \in Server |-> Nil]
        /\ phase = [s \in Server |-> "created"]
        /\ nodes = [s \in Server |-> [n \in Node |-> "none"]]
        /\ joined = [s \in Server |-> [n \in Node |-> 0]]
        /\ operations = [s \in Server |-> <<>>] /\ named = [s \in Server |-> {}]
    BY DEF Init, Engine!Init
  <1>2. hash \in [Node \X Index -> Position] /\ clusterNodes \in [Server -> Configurations]
    BY DEF Init
  <1>3. Types
    BY <1>1, <1>2 DEF Types
  <1>4. CreatedIsBlank /\ MembersAreConfigured /\ StoppedIsUntimed
    BY <1>1 DEF CreatedIsBlank, MembersAreConfigured, StoppedIsUntimed
  <1>5. TableMirrorsOneEngine
    BY <1>1 DEF TableMirrorsOneEngine, Members
  <1>6. \A s \in Server : RoleAgrees(s)
    <2>1. Nil \notin Server
      BY ViewAssumption
    <2> QED
      BY <1>1, <2>1 DEF RoleAgrees
  <1> QED
    BY <1>3, <1>4, <1>5, <1>6 DEF TableInv

LEMMA InitializeInv ==
    ASSUME TableInv, NEW s \in Server, Initialize(s)
    PROVE  TableInv' /\ \A t \in Server \ {s} : joined'[t] = joined[t]
PROOF
  <1> DEFINE members == FoldLeft(Join, [n \in Node |-> IF n = s THEN 1 ELSE 0], clusterNodes[s])
  <1>1. /\ Types /\ CreatedIsBlank /\ MembersAreConfigured /\ TableMirrorsOneEngine
        /\ \A t \in Server : RoleAgrees(t)
    BY DEF TableInv
  <1>2. /\ phase[s] = "created" /\ phase' = [phase EXCEPT ![s] = "running"]
        /\ electionTimer' = [electionTimer EXCEPT ![s] = TRUE]
        /\ UNCHANGED <<currentTerm, votedFor, leaderId, status, voteTimers>>
    BY DEF Initialize, Engine!Start, Engine!termVars, Engine!roleVars
  <1>3. /\ nodes' = [nodes EXCEPT ![s] = InitialTable(s)]
        /\ joined' = [joined EXCEPT ![s] = members]
        /\ UNCHANGED <<hash, clusterNodes, operations, named>>
    BY DEF Initialize, moveVars
  <1>4. s \in Node /\ clusterNodes[s] \in Seq(Node)
    BY <1>1, ViewAssumption DEF Types
  <1>5. /\ members \in [Node -> Nat]
        /\ \A n \in Node : members[n] # 0 <=> n = s \/ n \in Range(clusterNodes[s])
    BY <1>4, JoinAll
  <1> HIDE DEF members
  <1>6. InitialTable(s) \in [Node -> {"none", "offline", "follower", "candidate", "leader"}]
    BY DEF InitialTable
  <1>7. Types'
    BY <1>1, <1>2, <1>3, <1>5, <1>6 DEF Types, Index, Position
  <1>8. \A t \in Server \ {s} : /\ phase'[t] = phase[t] /\ joined'[t] = joined[t]
                                /\ nodes'[t] = nodes[t] /\ Members(t)' = Members(t)
                                /\ electionTimer'[t] = electionTimer[t]
    BY <1>1, <1>2, <1>3 DEF Types, Members
  <1>9. phase'[s] = "running" /\ nodes'[s] = InitialTable(s) /\ joined'[s] = members
        /\ status'[s] = "follower"
    BY <1>1, <1>2, <1>3 DEF Types, CreatedIsBlank
  <1>10. Members(s)' = {s} \cup Range(clusterNodes[s])
    <2>1. \A n \in Range(clusterNodes[s]) : n \in Node
      BY <1>4 DEF Range
    <2> QED
      BY <1>4, <1>5, <1>9, <2>1 DEF Members
  <1>11. CreatedIsBlank'
    BY <1>1, <1>2, <1>3, <1>8, <1>9 DEF CreatedIsBlank
  <1>12. MembersAreConfigured'
    BY <1>1, <1>3, <1>8, <1>10 DEF MembersAreConfigured
  <1>13. \A t \in Server : RoleAgrees(t)'
    BY <1>1, <1>2 DEF RoleAgrees
  <1>14. TableMirrorsOneEngine'
    <2> SUFFICES ASSUME NEW t \in Server, NEW n \in Node
                 PROVE  nodes'[t][n] = IF n \notin Members(t)' THEN "none"
                                       ELSE IF n = t THEN status'[t] ELSE "offline"
      BY DEF TableMirrorsOneEngine
    <2>1. CASE t = s
      BY <1>9, <1>10, <2>1 DEF InitialTable, Others
    <2>2. CASE t # s
      BY <1>1, <1>2, <1>8, <2>2 DEF TableMirrorsOneEngine
    <2> QED
      BY <2>1, <2>2
  <1> QED
    BY <1>7, <1>8, <1>11, <1>12, <1>13, <1>14 DEF TableInv

\* What a step of the engine, or a request of a peer, leaves of the variables
\* the table is about.
EngineMoved(s) ==
    /\ phase[s] # "created" /\ phase'[s] # "created"
    /\ currentTerm' \in [Server -> Nat]
    /\ votedFor' \in [Server -> Node \cup {Nil}] /\ leaderId' \in [Server -> Node \cup {Nil}]
    /\ status' \in [Server -> {"follower", "candidate", "leader"}]
    /\ electionTimer' \in [Server -> BOOLEAN]
    /\ voteTimers' \in [Server -> Nat]
    /\ phase' \in [Server -> {"created", "running", "stopped"}]
    /\ RoleAgrees(s)'
    /\ \A t \in Server \ {s} :
           /\ phase'[t] = phase[t] /\ status'[t] = status[t] /\ currentTerm'[t] = currentTerm[t]
           /\ votedFor'[t] = votedFor[t] /\ leaderId'[t] = leaderId[t]
           /\ electionTimer'[t] = electionTimer[t] /\ voteTimers'[t] = voteTimers[t]

\* Only the three methods that call back change the status.
LEMMA OwnStepMoves ==
    ASSUME TableInv, NEW s \in Server, Engine!Stop(s) \/ Engine!TimerStep(s)
    PROVE  /\ EngineMoved(s)
           /\ status'[s] = IF Engine!StartElection(s) THEN "candidate"
                           ELSE IF Engine!BecomeLeader(s) THEN "leader" ELSE status[s]
PROOF
  <1>1. /\ Types /\ CreatedIsBlank /\ RoleAgrees(s)
        /\ s \in Node /\ s # Nil
    BY ViewAssumption DEF TableInv
  <1>2. CASE Engine!Stop(s)
    BY <1>1, <1>2 DEF Engine!Stop, Engine!StartElection, Engine!BecomeLeader,
                      Engine!termVars, Engine!roleVars, EngineMoved, RoleAgrees, Types
  <1>3. CASE Engine!StartElection(s)
    BY <1>1, <1>3 DEF Engine!StartElection, EngineMoved, RoleAgrees, Types, CreatedIsBlank
  <1>4. CASE Engine!IgnoreElectionTimeout(s)
    BY <1>1, <1>4 DEF Engine!IgnoreElectionTimeout, Engine!StartElection, Engine!BecomeLeader,
                      Engine!termVars, Engine!roleVars, EngineMoved, RoleAgrees,
                      Types, CreatedIsBlank
  <1>5. CASE Engine!BecomeLeader(s)
    BY <1>1, <1>5 DEF Engine!BecomeLeader, Engine!StartElection, Engine!termVars,
                      EngineMoved, RoleAgrees, Types, CreatedIsBlank
  <1>6. CASE Engine!DropVoteTimer(s)
    BY <1>1, <1>6 DEF Engine!DropVoteTimer, Engine!StartElection, Engine!BecomeLeader,
                      Engine!termVars, Engine!roleVars, EngineMoved, RoleAgrees,
                      Types, CreatedIsBlank
  <1> QED
    BY <1>2, <1>3, <1>4, <1>5, <1>6 DEF Engine!TimerStep

\* A peer's request: a newer term makes a follower, and no other one changes
\* the status.
LEMMA PeerMoves ==
    ASSUME TableInv, NEW s \in Server,
           NEW term \in Nat, NEW leader \in (Node \ Server) \cup {Nil},
           NEW vote \in (Node \ Server) \cup {Nil, votedFor[s]},
           phase[s] # "created", Engine!StepDown(s, term, leader),
           votedFor' = [votedFor EXCEPT ![s] = vote],
           vote = votedFor[s] => vote # s \/ ~(term > currentTerm[s]),
           vote # votedFor[s] => votedFor[s] # s \/ term > currentTerm[s],
           UNCHANGED <<voteTimers, phase>>
    PROVE  /\ EngineMoved(s)
           /\ status'[s] = IF term > currentTerm[s] THEN "follower" ELSE status[s]
PROOF
  <1> DEFINE newer == term > currentTerm[s]
  <1>1. Types /\ RoleAgrees(s) /\ s \in Node /\ s # Nil /\ s \notin Node \ Server
    BY ViewAssumption DEF TableInv
  <1>2. /\ currentTerm' = [currentTerm EXCEPT ![s] = Engine!Larger(@, term)]
        /\ status' = [status EXCEPT ![s] = IF newer THEN "follower" ELSE @]
        /\ leaderId' = [leaderId EXCEPT ![s] =
               IF newer THEN leader
               ELSE IF leader # Nil /\ status[s] = "follower" THEN leader ELSE @]
        /\ electionTimer' = [electionTimer EXCEPT ![s] = TRUE]
    BY DEF Engine!StepDown
  <1>3. Engine!Larger(currentTerm[s], term) \in Nat
    BY <1>1 DEF Engine!Larger, Types
  <1>4. vote \in Node \cup {Nil} /\ leader \in Node \cup {Nil} /\ leader # s
    BY <1>1 DEF Types
  <1>5. /\ status'[s] = (IF newer THEN "follower" ELSE status[s]) /\ votedFor'[s] = vote
        /\ leaderId'[s] = (IF newer THEN leader
                           ELSE IF leader # Nil /\ status[s] = "follower" THEN leader
                           ELSE leaderId[s])
        /\ voteTimers'[s] = voteTimers[s]
    BY <1>1, <1>2 DEF Types
  <1>6. RoleAgrees(s)'
    <2>1. CASE newer
      BY <1>1, <1>4, <1>5, <2>1 DEF RoleAgrees
    <2>2. CASE ~newer
      BY <1>1, <1>4, <1>5, <2>2 DEF RoleAgrees
    <2> QED
      BY <2>1, <2>2
  <1>7. /\ currentTerm' \in [Server -> Nat] /\ votedFor' \in [Server -> Node \cup {Nil}]
        /\ leaderId' \in [Server -> Node \cup {Nil}]
        /\ status' \in [Server -> {"follower", "candidate", "leader"}]
        /\ electionTimer' \in [Server -> BOOLEAN]
    BY <1>1, <1>2, <1>3, <1>4 DEF Types
  <1>8. \A t \in Server \ {s} :
            /\ status'[t] = status[t] /\ currentTerm'[t] = currentTerm[t]
            /\ votedFor'[t] = votedFor[t] /\ leaderId'[t] = leaderId[t]
            /\ electionTimer'[t] = electionTimer[t]
    BY <1>1, <1>2 DEF Types
  <1> QED
    BY <1>1, <1>5, <1>6, <1>7, <1>8 DEF EngineMoved, Types

LEMMA RequestMoves ==
    ASSUME TableInv, NEW s \in Server, NEW term,
           \/ \E q \in Heartbeats : Engine!HandleAppendEntries(s, q) /\ term = q.term
           \/ \E q \in VoteRequests : Engine!HandleRequestVote(s, q) /\ term = q.term
    PROVE  /\ EngineMoved(s)
           /\ status'[s] = IF term > currentTerm[s] THEN "follower" ELSE status[s]
PROOF
  <1>1. Types /\ RoleAgrees(s) /\ s \in Node /\ s # Nil
    BY ViewAssumption DEF TableInv
  <1>2. ASSUME NEW q \in Heartbeats, Engine!HandleAppendEntries(s, q)
        PROVE  /\ EngineMoved(s)
               /\ status'[s] = IF q.term > currentTerm[s] THEN "follower" ELSE status[s]
    <2> DEFINE vote == Engine!VoteAfter(s, q.term)
    <2>1. q.term \in Nat /\ q.leaderId \in Node \ Server
      BY RequestsAssumption DEF Engine!AppendRequest
    <2>2. /\ phase[s] # "created" /\ Engine!StepDown(s, q.term, q.leaderId)
          /\ votedFor' = [votedFor EXCEPT ![s] = vote] /\ UNCHANGED <<voteTimers, phase>>
      BY <1>2 DEF Engine!HandleAppendEntries
    <2>3. vote = IF q.term > currentTerm[s] THEN Nil ELSE votedFor[s]
      BY DEF Engine!VoteAfter
    <2> HIDE DEF vote
    <2>4. /\ vote \in (Node \ Server) \cup {Nil, votedFor[s]}
          /\ vote = votedFor[s] => vote # s \/ ~(q.term > currentTerm[s])
          /\ vote # votedFor[s] => votedFor[s] # s \/ q.term > currentTerm[s]
      BY <1>1, <2>3
    <2> QED
      BY <2>1, <2>2, <2>4, PeerMoves
  <1>3. ASSUME NEW q \in VoteRequests, Engine!HandleRequestVote(s, q)
        PROVE  /\ EngineMoved(s)
               /\ status'[s] = IF q.term > currentTerm[s] THEN "follower" ELSE status[s]
    <2> DEFINE before == Engine!VoteAfter(s, q.term)
               vote == IF Engine!CanGrant(s, q) THEN q.candidateId ELSE before
    <2>1. q.term \in Nat /\ q.candidateId \in Node \ Server /\ Nil \in (Node \ Server) \cup {Nil}
      BY RequestsAssumption DEF Engine!VoteRequest
    <2>2. /\ phase[s] # "created" /\ Engine!StepDown(s, q.term, Nil)
          /\ votedFor' = [votedFor EXCEPT ![s] = vote] /\ UNCHANGED <<voteTimers, phase>>
      BY <1>3 DEF Engine!HandleRequestVote
    <2>3. before = IF q.term > currentTerm[s] THEN Nil ELSE votedFor[s]
      BY DEF Engine!VoteAfter
    <2>4. Engine!CanGrant(s, q) => before \in {Nil, q.candidateId}
      BY DEF Engine!CanGrant
    <2>5. q.candidateId # s
      BY <2>1
    <2> HIDE DEF before
    <2>6. /\ vote \in (Node \ Server) \cup {Nil, votedFor[s]}
          /\ vote = votedFor[s] => vote # s \/ ~(q.term > currentTerm[s])
          /\ vote # votedFor[s] => votedFor[s] # s \/ q.term > currentTerm[s]
      BY <1>1, <2>1, <2>3, <2>4, <2>5
    <2> HIDE DEF vote
    <2> QED
      BY <2>1, <2>2, <2>6, PeerMoves
  <1> QED
    BY <1>2, <1>3

\* The steps of the engine in the view of the cluster manager.
EngineStep(s) ==
    \/ StartElection(s) \/ BecomeLeader(s) \/ QuietStep(s) \/ PeerStep(s)

LEMMA EngineMoves ==
    ASSUME TableInv, NEW s \in Server, EngineStep(s)
    PROVE  /\ EngineMoved(s)
           /\ nodes' = [nodes EXCEPT ![s][s] = status'[s]]
           /\ UNCHANGED <<hash, clusterNodes, joined, operations, named>>
PROOF
  <1>1. Types /\ CreatedIsBlank /\ MembersAreConfigured /\ TableMirrorsOneEngine
    BY DEF TableInv
  <1>2. phase[s] # "created" => nodes = [nodes EXCEPT ![s][s] = status[s]]
    <2> SUFFICES ASSUME phase[s] # "created" PROVE nodes = [nodes EXCEPT ![s][s] = status[s]]
      OBVIOUS
    <2>1. s \in Node /\ s \in Members(s)
      BY <1>1, ViewAssumption DEF MembersAreConfigured
    <2>2. nodes[s][s] = status[s]
      BY <1>1, <2>1 DEF TableMirrorsOneEngine
    <2>3. /\ nodes \in [Server -> [Node -> {"none", "offline", "follower", "candidate", "leader"}]]
          /\ nodes[s] \in [Node -> {"none", "offline", "follower", "candidate", "leader"}]
      BY <1>1 DEF Types
    <2>4. nodes[s] = [nodes[s] EXCEPT ![s] = status[s]]
      BY <2>1, <2>2, <2>3
    <2> QED
      BY <2>3, <2>4
  <1>3. CASE StartElection(s)
    <2>1. /\ Engine!StartElection(s) /\ nodes' = [nodes EXCEPT ![s][s] = "candidate"]
          /\ UNCHANGED <<hash, clusterNodes, joined, operations, named>>
      BY <1>3 DEF StartElection, HandleRaftStateChange, moveVars
    <2> QED
      BY <2>1, OwnStepMoves DEF Engine!TimerStep
  <1>4. CASE BecomeLeader(s)
    <2>1. /\ Engine!BecomeLeader(s) /\ nodes' = [nodes EXCEPT ![s][s] = "leader"]
          /\ UNCHANGED <<hash, clusterNodes, joined, operations, named>>
      BY <1>4 DEF BecomeLeader, HandleRaftStateChange, moveVars
    <2>2. ~Engine!StartElection(s)
      <3>1. status[s] = "candidate" /\ voteTimers' = [voteTimers EXCEPT ![s] = @ - 1]
        BY <2>1 DEF Engine!BecomeLeader
      <3>2. Engine!StartElection(s) => voteTimers' = [voteTimers EXCEPT ![s] = @ + 1]
        BY DEF Engine!StartElection
      <3>3. voteTimers[s] \in Nat /\ s \in DOMAIN voteTimers
        BY <1>1 DEF Types
      <3> QED
        BY <3>1, <3>2, <3>3
    <2> QED
      BY <2>1, <2>2, OwnStepMoves DEF Engine!TimerStep
  <1>5. CASE QuietStep(s)
    <2>1. /\ Engine!Stop(s) \/ Engine!IgnoreElectionTimeout(s) \/ Engine!DropVoteTimer(s)
          /\ UNCHANGED <<nodes, hash, clusterNodes, joined, operations, named>>
      BY <1>5 DEF QuietStep, viewVars, moveVars
    <2>2. status' = status
      BY <2>1 DEF Engine!Stop, Engine!IgnoreElectionTimeout, Engine!DropVoteTimer,
                  Engine!roleVars
    <2>3. EngineMoved(s)
      BY <2>1, OwnStepMoves DEF Engine!TimerStep
    <2> QED
      BY <1>2, <2>1, <2>2, <2>3 DEF EngineMoved
  <1>6. CASE PeerStep(s)
    <2>1. PICK term :
             /\ \/ \E q \in Heartbeats : Engine!HandleAppendEntries(s, q) /\ term = q.term
                \/ \E q \in VoteRequests : Engine!HandleRequestVote(s, q) /\ term = q.term
             /\ BecomeFollower(s, term)
             /\ UNCHANGED <<hash, clusterNodes, joined, moveVars>>
      BY <1>6 DEF PeerStep, ReceiveAppendEntries, ReceiveRequestVote
    <2>2. /\ EngineMoved(s)
          /\ status'[s] = IF term > currentTerm[s] THEN "follower" ELSE status[s]
      BY <2>1, RequestMoves
    <2>3. CASE term > currentTerm[s]
      BY <2>1, <2>2, <2>3 DEF BecomeFollower, HandleRaftStateChange, moveVars
    <2>4. CASE ~(term > currentTerm[s])
      BY <1>2, <2>1, <2>2, <2>4 DEF BecomeFollower, EngineMoved, moveVars
    <2> QED
      BY <2>3, <2>4
  <1> QED
    BY <1>3, <1>4, <1>5, <1>6 DEF EngineStep

LEMMA EngineStepInv ==
    ASSUME TableInv, NEW s \in Server, EngineStep(s)
    PROVE  TableInv'
PROOF
  <1>1. /\ Types /\ CreatedIsBlank /\ MembersAreConfigured /\ TableMirrorsOneEngine
        /\ \A t \in Server : RoleAgrees(t)
    BY DEF TableInv
  <1>2. EngineMoved(s)
    BY EngineMoves
  <1>3. /\ nodes' = [nodes EXCEPT ![s][s] = status'[s]]
        /\ UNCHANGED <<hash, clusterNodes, joined, operations, named>>
    BY EngineMoves
  <1>4. s \in Node /\ s \in Members(s)
    BY <1>1, <1>2, ViewAssumption DEF EngineMoved, MembersAreConfigured
  <1>5. \A t \in Server : Members(t)' = Members(t)
    BY <1>3 DEF Members
  <1>6. Types'
    <2>1. nodes' \in [Server -> [Node -> {"none", "offline", "follower", "candidate", "leader"}]]
      <3>1. status'[s] \in {"follower", "candidate", "leader"}
        BY <1>2 DEF EngineMoved
      <3> QED
        BY <1>1, <1>3, <1>4, <3>1 DEF Types
    <2> QED
      BY <1>1, <1>2, <1>3, <2>1 DEF Types, EngineMoved, Index, Position
  <1>7. \A t \in Server \ {s} : nodes'[t] = nodes[t]
    BY <1>1, <1>3 DEF Types
  <1>8. CreatedIsBlank'
    BY <1>1, <1>2, <1>3, <1>7 DEF CreatedIsBlank, EngineMoved
  <1>9. MembersAreConfigured'
    BY <1>1, <1>2, <1>3, <1>5 DEF MembersAreConfigured, EngineMoved
  <1>10. \A t \in Server : RoleAgrees(t)'
    BY <1>1, <1>2 DEF RoleAgrees, EngineMoved
  <1>11. TableMirrorsOneEngine'
    <2> SUFFICES ASSUME NEW t \in Server, NEW n \in Node
                 PROVE  nodes'[t][n] = IF n \notin Members(t) THEN "none"
                                       ELSE IF n = t THEN status'[t] ELSE "offline"
      BY <1>5 DEF TableMirrorsOneEngine
    <2>1. nodes[t][n] = IF n \notin Members(t) THEN "none"
                        ELSE IF n = t THEN status[t] ELSE "offline"
      BY <1>1 DEF TableMirrorsOneEngine
    <2>2. CASE t = s
      <3>1. /\ nodes'[s] = [nodes[s] EXCEPT ![s] = status'[s]]
            /\ nodes[s] \in [Node -> {"none", "offline", "follower", "candidate", "leader"}]
        BY <1>1, <1>3 DEF Types
      <3> QED
        BY <1>4, <2>1, <2>2, <3>1
    <2>3. CASE t # s
      BY <1>2, <1>7, <2>1, <2>3 DEF EngineMoved
    <2> QED
      BY <2>2, <2>3
  <1> QED
    BY <1>6, <1>8, <1>9, <1>10, <1>11 DEF TableInv

\* The shard routes change the operations of a leader only.
LEMMA RequestInv ==
    ASSUME TableInv, NEW s \in Server, Leads(s), NEW moves,
           operations' = [operations EXCEPT ![s] = moves], DOMAIN named' = Server,
           UNCHANGED <<engineVars, viewVars>>
    PROVE  TableInv'
PROOF
  <1>1. UNCHANGED <<currentTerm, votedFor, leaderId, status, electionTimer, voteTimers, phase,
                    hash, clusterNodes, nodes, joined>>
    BY DEF engineVars, viewVars
  <1>2. DOMAIN operations' = Server /\ \A t \in Server \ {s} : operations'[t] = operations[t]
    BY DEF TableInv, Types
  <1>3. Types'
    BY <1>1, <1>2 DEF TableInv, Types, Index, Position
  <1>4. CreatedIsBlank'
    BY <1>1, <1>2 DEF TableInv, CreatedIsBlank, Leads
  <1>5. MembersAreConfigured' /\ TableMirrorsOneEngine'
    BY <1>1 DEF TableInv, MembersAreConfigured, TableMirrorsOneEngine, Members
  <1>6. \A t \in Server : RoleAgrees(t)'
    BY <1>1 DEF TableInv, RoleAgrees
  <1> QED
    BY <1>3, <1>4, <1>5, <1>6 DEF TableInv

LEMMA ScheduledNames ==
    ASSUME TableInv, NEW s \in Server, NEW q \in Requests, ScheduleMigration(s, q)
    PROVE  /\ operations' = [operations EXCEPT ![s] =
                  Append(@, View(s)!Move(q.shard, q.source, q.target))]
           /\ q.shard \in Node \X Index /\ q.source \in Node /\ q.target \in Node \cup {Nil}
           /\ named' = [named EXCEPT ![s] =
                  @ \cup {i \in {Len(operations[s]) + 1} : q.target # Nil}]
           /\ UNCHANGED <<engineVars, viewVars>>
PROOF
  BY RequestsAssumption DEF ScheduleMigration

LEMMA TableInvNext == TableInv /\ [PeersNext]_vars => TableInv'
PROOF
  <1> SUFFICES ASSUME TableInv, [PeersNext]_vars PROVE TableInv'
    OBVIOUS
  <1>1. ASSUME NEW s \in Server, NEW q \in Requests, ScheduleMigration(s, q)
        PROVE  TableInv'
    <2>1. Leads(s) /\ Len(operations[s]) < MaxOperations
      BY <1>1 DEF ScheduleMigration
    <2>2. DOMAIN named' = Server
      BY <1>1, ScheduledNames DEF TableInv, Types
    <2> QED
      BY <1>1, <2>1, <2>2, RequestInv, ScheduledNames
  <1>2. ASSUME NEW s \in Server, TriggerRebalancing(s) PROVE TableInv'
    BY <1>2, RequestInv DEF TriggerRebalancing, TableInv, Types
  <1>3. CASE UNCHANGED vars
    BY <1>3 DEF vars, engineVars, viewVars, moveVars, TableInv, Types, CreatedIsBlank,
                MembersAreConfigured, TableMirrorsOneEngine, RoleAgrees, Members, Index, Position
  <1>4. ASSUME NEW s \in Server, EngineStep(s) PROVE TableInv'
    BY <1>4, EngineStepInv
  <1> QED
    BY <1>1, <1>2, <1>3, <1>4, InitializeInv DEF PeersNext, DeployedStep, EngineStep

LEMMA TableInvariant == (Spec => []TableInv) /\ (PeersSpec => []TableInv)
PROOF
  <1>1. [Next]_vars => [PeersNext]_vars
    BY DEF Next, PeersNext
  <1> QED
    BY <1>1, TableInvInit, TableInvNext, PTL DEF Spec, PeersSpec

\* ClusterView!TableTellsWhoLeads: what the callbacks have put into the table of
\* a node agrees with the leader and the vote in its engine, whatever requests
\* of peers come between its own elections.
THEOREM TableFollowsTheEngine == PeersSpec => []TableTellsWhoLeads
PROOF
  <1>1. TableInv => TableTellsWhoLeads
    <2> SUFFICES ASSUME TableInv, NEW s \in Initialized
                 PROVE  /\ nodes[s][s] = "leader" <=> leaderId[s] = s
                        /\ nodes[s][s] = "follower" <=> votedFor[s] # s
                        /\ nodes[s][s] = "candidate" => voteTimers[s] > 0
      BY DEF TableTellsWhoLeads
    <2>1. s \in Server /\ s \in Node /\ s \in Members(s) /\ RoleAgrees(s)
      BY ViewAssumption DEF Initialized, TableInv, MembersAreConfigured
    <2>2. nodes[s][s] = status[s]
      BY <2>1 DEF TableInv, TableMirrorsOneEngine
    <2> QED
      BY <2>1, <2>2 DEF RoleAgrees
  <1> QED
    BY <1>1, TableInvariant, PTL

\* A stopped engine has no election timer left, so that of its steps only the
\* end of a candidacy changes its status, and none its term.
LEMMA StoppedStep ==
    ASSUME TableInv, StoppedIsUntimed, [Next]_vars
    PROVE  /\ StoppedIsUntimed'
           /\ \A s \in Server : phase[s] = "stopped" =>
                /\ currentTerm'[s] = currentTerm[s]
                /\ status'[s] # status[s] => status[s] = "candidate" /\ voteTimers[s] > 0
PROOF
  <1> SUFFICES ASSUME NEW s \in Server
               PROVE  /\ phase'[s] = "stopped" => ~electionTimer'[s]
                      /\ phase[s] = "stopped" =>
                           /\ currentTerm'[s] = currentTerm[s]
                           /\ status'[s] # status[s] => status[s] = "candidate" /\ voteTimers[s] > 0
    BY DEF StoppedIsUntimed
  <1>1. Types /\ CreatedIsBlank /\ (phase[s] = "stopped" => ~electionTimer[s])
    BY DEF TableInv, StoppedIsUntimed
  <1>2. ASSUME NEW t \in Server, Initialize(t)
        PROVE  /\ UNCHANGED <<currentTerm, status>>
               /\ phase'[s] = "stopped" => ~electionTimer'[s]
    BY <1>1, <1>2 DEF Initialize, Engine!Start, Engine!termVars, Engine!roleVars, Types
  <1>3. ASSUME NEW t \in Server, EngineStep(t), t # s
        PROVE  /\ currentTerm'[s] = currentTerm[s] /\ status'[s] = status[s]
               /\ phase'[s] = phase[s] /\ electionTimer'[s] = electionTimer[s]
    BY <1>3, EngineMoves DEF EngineMoved
  <1>4. ASSUME Engine!Stop(s) \/ Engine!TimerStep(s)
        PROVE  /\ phase'[s] = "stopped" => ~electionTimer'[s]
               /\ phase[s] = "stopped" =>
                    /\ currentTerm'[s] = currentTerm[s]
                    /\ status'[s] # status[s] => status[s] = "candidate" /\ voteTimers[s] > 0
    BY <1>1, <1>4 DEF Engine!Stop, Engine!TimerStep, Engine!StartElection,
        Engine!IgnoreElectionTimeout, Engine!BecomeLeader, Engine!DropVoteTimer,
        Engine!termVars, Engine!roleVars, Types
  <1>5. ASSUME NEW t \in Server,
               (\E q \in Requests : ScheduleMigration(t, q)) \/ TriggerRebalancing(t)
        PROVE  UNCHANGED <<currentTerm, status, phase, electionTimer>>
    BY <1>5 DEF ScheduleMigration, TriggerRebalancing, engineVars
  <1>6. CASE UNCHANGED vars
    BY <1>1, <1>6 DEF vars, engineVars
  <1>7. ASSUME NEW t \in Server, StartElection(t) \/ BecomeLeader(t) \/ QuietStep(t)
        PROVE  /\ phase'[s] = "stopped" => ~electionTimer'[s]
               /\ phase[s] = "stopped" =>
                    /\ currentTerm'[s] = currentTerm[s]
                    /\ status'[s] # status[s] => status[s] = "candidate" /\ voteTimers[s] > 0
    <2>1. CASE t = s
      BY <1>4, <1>7, <2>1 DEF StartElection, BecomeLeader, QuietStep, Engine!TimerStep
    <2>2. CASE t # s
      BY <1>1, <1>3, <1>7, <2>2 DEF EngineStep
    <2> QED
      BY <2>1, <2>2
  <1> QED
    BY <1>1, <1>2, <1>5, <1>6, <1>7 DEF Next, DeployedStep

\* ClusterView!StoppedNodesStartNothing: after stop an engine that no peer calls
\* keeps its term, and at the most ends the election it was in.
THEOREM StopIsAlmostFinal == Spec => StoppedNodesStartNothing
PROOF
  <1>1. TableInv /\ StoppedIsUntimed /\ [Next]_vars =>
            [\A s \in Server : phase[s] = "stopped" =>
                /\ currentTerm'[s] = currentTerm[s]
                /\ status'[s] # status[s] => status[s] = "candidate" /\ voteTimers[s] > 0]_vars
    BY StoppedStep
  <1>2. TableInv /\ StoppedIsUntimed /\ [Next]_vars => StoppedIsUntimed'
    BY StoppedStep
  <1>3. Init => StoppedIsUntimed
    BY TableInvInit
  <1> QED
    BY <1>1, <1>2, <1>3, TableInvariant, PTL DEF Spec, StoppedNodesStartNothing

-----------------------------------------------------------------------------
(* The virtual nodes of a ring, and their order.                           *)

VirtualNode(h, n, i) == [nodeId |-> n, index |-> i, position |-> h[<<n, i>>]]
RingWith(h, members) == {VirtualNode(h, n, i) : n \in members, i \in Index}

\* Different nodes stand at different positions.
ApartIn(R) == \A u, v \in R : u.nodeId # v.nodeId => u.position # v.position

\* The order of the array in such a ring, which needs no order of joining.
Lex(u, v) ==
    \/ u.position < v.position
    \/ u.position = v.position /\ u.nodeId = v.nodeId /\ u.index < v.index

LEMMA RingElements ==
    ASSUME NEW h \in [Node \X Index -> Position], NEW M \in SUBSET Node
    PROVE  /\ \A n \in M, i \in Index :
                  /\ VirtualNode(h, n, i) \in RingWith(h, M)
                  /\ VirtualNode(h, n, i).nodeId = n /\ VirtualNode(h, n, i).index = i
           /\ \A v \in RingWith(h, M) :
                  /\ v.nodeId \in M /\ v.index \in Index /\ v.position \in Position
                  /\ v.index \in Nat /\ v.position \in Nat
                  /\ v = VirtualNode(h, v.nodeId, v.index)
           /\ \A u, v \in RingWith(h, M) : u.nodeId = v.nodeId /\ u.index = v.index => u = v
PROOF
  <1>1. ASSUME NEW n \in M, NEW i \in Index
        PROVE  /\ VirtualNode(h, n, i) \in RingWith(h, M)
               /\ VirtualNode(h, n, i).nodeId = n /\ VirtualNode(h, n, i).index = i
               /\ VirtualNode(h, n, i).position \in Position
    BY DEF VirtualNode, RingWith
  <1>2. ASSUME NEW v \in RingWith(h, M)
        PROVE  /\ v.nodeId \in M /\ v.index \in Index /\ v.position \in Position
               /\ v = VirtualNode(h, v.nodeId, v.index)
    <2>1. PICK n \in M, i \in Index : v = VirtualNode(h, n, i)
      BY DEF RingWith
    <2>2. v.nodeId = n /\ v.index = i
      BY <1>1, <2>1
    <2>3. v.position \in Position
      BY <1>1, <2>1
    <2> QED
      BY <2>1, <2>2, <2>3, Zenon
  <1>3. \A v \in RingWith(h, M) : v.index \in Nat /\ v.position \in Nat
    BY <1>2, ViewAssumption DEF Index, Position
  <1>4. ASSUME NEW u \in RingWith(h, M), NEW v \in RingWith(h, M),
               u.nodeId = v.nodeId, u.index = v.index
        PROVE  u = v
    <2>1. u = VirtualNode(h, u.nodeId, u.index) /\ v = VirtualNode(h, v.nodeId, v.index)
      BY <1>2
    <2> QED
      BY <1>4, <2>1, Zenon
  <1> QED
    BY <1>1, <1>2, <1>3, <1>4

\* As many virtual nodes as there are members times Replicas.
LEMMA RingSize ==
    ASSUME NEW h \in [Node \X Index -> Position], NEW M \in SUBSET Node
    PROVE  /\ IsFiniteSet(M) /\ Cardinality(M) \in Nat
           /\ IsFiniteSet(RingWith(h, M))
           /\ Cardinality(RingWith(h, M)) = Cardinality(M) * Replicas
PROOF
  <1>1. IsFiniteSet(M) /\ Cardinality(M) \in Nat
    BY FS_Subset, FS_CardinalityType, ViewAssumption
  <1>2. IsFiniteSet(Index) /\ Cardinality(Index) = Replicas
    <2>1. Replicas \in Nat /\ Replicas # 0 /\ 0 \in Int /\ Replicas - 1 \in Int
      BY ViewAssumption
    <2>2. /\ IsFiniteSet(0..(Replicas - 1))
          /\ Cardinality(0..(Replicas - 1)) =
                 IF 0 > Replicas - 1 THEN 0 ELSE (Replicas - 1) - 0 + 1
      BY <2>1, FS_Interval
    <2> QED
      BY <2>1, <2>2 DEF Index
  <1>3. IsFiniteSet(M \X Index) /\ Cardinality(M \X Index) = Cardinality(M) * Replicas
    BY <1>1, <1>2, FS_Product
  <1> DEFINE f == [w \in M \X Index |-> VirtualNode(h, w[1], w[2])]
  <1>4. f \in Bijection(M \X Index, RingWith(h, M))
    <2>1. ASSUME NEW w \in M \X Index
          PROVE  f[w] \in RingWith(h, M) /\ f[w].nodeId = w[1] /\ f[w].index = w[2]
      <3>1. w[1] \in M /\ w[2] \in Index /\ f[w] = VirtualNode(h, w[1], w[2])
        OBVIOUS
      <3>2. /\ VirtualNode(h, w[1], w[2]) \in RingWith(h, M)
            /\ VirtualNode(h, w[1], w[2]).nodeId = w[1] /\ VirtualNode(h, w[1], w[2]).index = w[2]
        BY <3>1 DEF VirtualNode, RingWith
      <3> HIDE DEF f
      <3> QED
        BY <3>1, <3>2, Zenon
    <2>2. \A v \in RingWith(h, M) : \E w \in M \X Index : f[w] = v
      <3> SUFFICES ASSUME NEW v \in RingWith(h, M) PROVE \E w \in M \X Index : f[w] = v
        OBVIOUS
      <3>1. /\ v.nodeId \in M /\ v.index \in Index
            /\ v = VirtualNode(h, v.nodeId, v.index)
        BY RingElements
      <3>2. <<v.nodeId, v.index>> \in M \X Index /\ f[<<v.nodeId, v.index>>] = v
        BY <3>1
      <3> QED
        BY <3>2
    <2>3. \A w, x \in M \X Index : w[1] = x[1] /\ w[2] = x[2] => w = x
      OBVIOUS
    <2>4. f \in [M \X Index -> RingWith(h, M)]
      BY <2>1
    <2> HIDE DEF f
    <2>5. \A w, x \in M \X Index : f[w] = f[x] => w = x
      BY <2>1, <2>3
    <2> QED
      BY <2>2, <2>4, <2>5 DEF Bijection, Injection, Surjection, IsInjective
  <1>5. /\ IsFiniteSet(RingWith(h, M))
        /\ Cardinality(RingWith(h, M)) = Cardinality(M \X Index)
    <2>1. ExistsBijection(M \X Index, RingWith(h, M))
      BY <1>4 DEF ExistsBijection
    <2> QED
      BY <1>3, <2>1, FS_Bijection
  <1> QED
    BY <1>1, <1>3, <1>5

LEMMA LexIsAnOrder ==
    ASSUME NEW h \in [Node \X Index -> Position], NEW M \in SUBSET Node,
           NEW R, R = RingWith(h, M), ApartIn(R)
    PROVE  /\ \A u \in R : ~Lex(u, u)
           /\ \A u, v \in R : u # v => (Lex(u, v) <=> ~Lex(v, u))
           /\ \A u, v, w \in R : Lex(u, v) /\ Lex(v, w) => Lex(u, w)
PROOF
  <1>1. /\ \A v \in R : v.index \in Nat /\ v.position \in Nat
        /\ \A u, v \in R : u.nodeId = v.nodeId /\ u.index = v.index => u = v
    BY RingElements
  <1>2. ASSUME NEW u \in R PROVE ~Lex(u, u)
    BY <1>1 DEF Lex
  <1>3. ASSUME NEW u \in R, NEW v \in R, u # v PROVE Lex(u, v) <=> ~Lex(v, u)
    BY <1>1, <1>3 DEF Lex, ApartIn
  <1>4. ASSUME NEW u \in R, NEW v \in R, NEW w \in R, Lex(u, v), Lex(v, w) PROVE Lex(u, w)
    BY <1>1, <1>4 DEF Lex
  <1> QED
    BY <1>2, <1>3, <1>4

LEMMA LeastVirtualNode ==
    ASSUME NEW h \in [Node \X Index -> Position], NEW M \in SUBSET Node,
           NEW R, R = RingWith(h, M), ApartIn(R), NEW S \in SUBSET R, S # {}
    PROVE  \E v \in S : \A u \in S \ {v} : Lex(v, u)
PROOF
  <1> DEFINE Order == {w \in S \X S : Lex(w[1], w[2])}
  <1>1. \A u, v \in S : <<u, v>> \in Order <=> Lex(u, v)
    OBVIOUS
  <1>2. /\ \A u \in S : <<u, u>> \notin Order
        /\ \A u, v \in S : u # v => <<u, v>> \in Order \/ <<v, u>> \in Order
        /\ \A u, v, w \in S : <<u, v>> \in Order /\ <<v, w>> \in Order => <<u, w>> \in Order
    <2>1. /\ \A u \in R : ~Lex(u, u)
          /\ \A u, v \in R : u # v => (Lex(u, v) <=> ~Lex(v, u))
          /\ \A u, v, w \in R : Lex(u, v) /\ Lex(v, w) => Lex(u, w)
      BY LexIsAnOrder
    <2>2. \A u \in S : u \in R
      OBVIOUS
    <2> HIDE DEF Order
    <2> QED
      BY <1>1, <2>1, <2>2
  <1>3. Joining!IsFiniteSet(S)
    <2>1. IsFiniteSet(S)
      BY RingSize, FS_Subset
    <2> QED
      BY <2>1 DEF IsFiniteSet, Joining!IsFiniteSet
  <1> HIDE DEF Order
  <1>4. \E v \in S : \A u \in S \ {v} : <<v, u>> \in Order
    BY <1>2, <1>3, Joining!LeastElement
  <1> QED
    BY <1>1, <1>4

-----------------------------------------------------------------------------
(* The ring of a node.                                                     *)

LEMMA OneRing ==
    ASSUME Types, NEW s \in Server
    PROVE  RingOf(s) = RingWith(hash, Members(s)) /\ Members(s) \in SUBSET Node
PROOF
  BY DEF RingOf, RingWith, VirtualNode, Members

LEMMA ViewBefore ==
    ASSUME Types, NEW s \in Server, ApartIn(RingOf(s)),
           NEW u \in RingOf(s), NEW v \in RingOf(s)
    PROVE  View(s)!Before(u, v) <=> Lex(u, v)
PROOF
  <1>1. RingOf(s) = RingWith(hash, Members(s)) /\ Members(s) \in SUBSET Node
    BY OneRing
  <1>2. hash \in [Node \X Index -> Position] /\ joined[s] \in [Node -> Nat]
    BY DEF Types
  <1>3. u.nodeId \in Node /\ v.nodeId \in Node
    BY <1>1, <1>2, RingElements
  <1>4. ~(joined[s][u.nodeId] < joined[s][v.nodeId]) \/ u.nodeId # v.nodeId
    BY <1>2, <1>3
  <1> QED
    BY <1>4 DEF View!Before, Lex, ApartIn

LEMMA ViewFirst ==
    ASSUME Types, NEW s \in Server, ApartIn(RingOf(s)),
           NEW S \in SUBSET RingOf(s), S # {}
    PROVE  /\ View(s)!First(S) \in S
           /\ \A u \in S \ {View(s)!First(S)} : Lex(View(s)!First(S), u)
PROOF
  <1>1. RingOf(s) = RingWith(hash, Members(s)) /\ Members(s) \in SUBSET Node
    BY OneRing
  <1>2. hash \in [Node \X Index -> Position]
    BY DEF Types
  <1>3. PICK v \in S : \A u \in S \ {v} : Lex(v, u)
    BY <1>1, <1>2, LeastVirtualNode
  <1>4. \A u, w \in S : View(s)!Before(u, w) <=> Lex(u, w)
    BY ViewBefore
  <1>5. \A u \in S \ {v} : View(s)!Before(v, u)
    BY <1>3, <1>4
  <1>6. /\ View(s)!First(S) \in S
        /\ \A u \in S \ {View(s)!First(S)} : View(s)!Before(View(s)!First(S), u)
    BY <1>5 DEF View!First
  <1> QED
    BY <1>4, <1>6

\* Every member has the same number of shards.
LEMMA ViewCounts ==
    ASSUME Types, NEW s \in Server
    PROVE  /\ View(s)!Placed = Members(s)
           /\ \A n \in Members(s) : View(s)!Mine(n) = RingWith(hash, {n})
           /\ \A n \in Members(s) : View(s)!Count(n) = Replicas
           /\ View(s)!Total = Cardinality(Members(s)) * Replicas
PROOF
  <1>1. RingOf(s) = RingWith(hash, Members(s)) /\ Members(s) \in SUBSET Node
    BY OneRing
  <1>2. hash \in [Node \X Index -> Position]
    BY DEF Types
  <1>0. \A v \in RingWith(hash, Members(s)) :
            /\ v.nodeId \in Members(s) /\ v.index \in Index
            /\ v = VirtualNode(hash, v.nodeId, v.index)
    BY <1>1, <1>2, RingElements
  <1>3. View(s)!Placed = Members(s)
    <2>1. ASSUME NEW v \in RingOf(s) PROVE v.nodeId \in Members(s)
      BY <1>0, <1>1, Zenon
    <2>2. ASSUME NEW n \in Members(s) PROVE \E v \in RingOf(s) : v.nodeId = n
      <3>1. 0 \in Index
        BY ViewAssumption DEF Index
      <3>2. /\ VirtualNode(hash, n, 0) \in RingOf(s)
            /\ VirtualNode(hash, n, 0).nodeId = n
        BY <1>1, <3>1 DEF VirtualNode, RingWith
      <3> QED
        BY <3>2
    <2> QED
      BY <2>1, <2>2 DEF View!Placed
  <1>4. ASSUME NEW n \in Members(s) PROVE View(s)!Mine(n) = RingWith(hash, {n})
    <2>1. ASSUME NEW v \in RingOf(s), v.nodeId = n PROVE v \in RingWith(hash, {n})
      <3>1. v.index \in Index /\ v = VirtualNode(hash, n, v.index)
        BY <1>0, <1>1, <2>1, Zenon
      <3> QED
        BY <3>1 DEF RingWith
    <2>2. ASSUME NEW v \in RingWith(hash, {n}) PROVE v \in RingOf(s) /\ v.nodeId = n
      <3>1. PICK i \in Index : v = VirtualNode(hash, n, i)
        BY DEF RingWith
      <3>2. VirtualNode(hash, n, i) \in RingOf(s) /\ VirtualNode(hash, n, i).nodeId = n
        BY <1>1, <3>1 DEF VirtualNode, RingWith
      <3> QED
        BY <3>1, <3>2, Zenon
    <2> QED
      BY <2>1, <2>2 DEF View!Mine
  <1>5. \A T : View(s)!Cardinality(T) = Cardinality(T)
    BY DEF Cardinality, View!Cardinality, IsFiniteSet, View!IsFiniteSet
  <1>6. ASSUME NEW n \in Members(s) PROVE View(s)!Count(n) = Replicas
    <2>1. {n} \in SUBSET Node
      BY <1>1
    <2>2. Cardinality(RingWith(hash, {n})) = Cardinality({n}) * Replicas
      BY <1>2, <2>1, RingSize
    <2>3. Cardinality({n}) = 1 /\ Replicas \in Nat
      BY FS_Singleton, ViewAssumption
    <2>4. View(s)!Count(n) = Cardinality(RingWith(hash, {n}))
      BY <1>4, <1>5 DEF View!Count
    <2> QED
      BY <2>2, <2>3, <2>4
  <1>7. View(s)!Total = Cardinality(Members(s)) * Replicas
    <2>1. View(s)!Total = Cardinality(RingWith(hash, Members(s)))
      BY <1>1, <1>5 DEF View!Total
    <2> QED
      BY <1>1, <1>2, <2>1, RingSize
  <1> QED
    BY <1>3, <1>4, <1>6, <1>7

-----------------------------------------------------------------------------
(* Which of two nodes comes first from a position on.                      *)

\* Which of two virtual nodes is read first from position p on.
SoonerLex(p, u, v) ==
    IF u.position >= p <=> v.position >= p THEN Lex(u, v) ELSE u.position >= p

\* Node m has a virtual node that is read before all those of node n.
Prior(h, p, m, n) ==
    \E i \in Index : \A j \in Index : SoonerLex(p, VirtualNode(h, m, i), VirtualNode(h, n, j))

LEMMA SoonerLexIsAnOrder ==
    ASSUME NEW h \in [Node \X Index -> Position], NEW M \in SUBSET Node,
           NEW R, R = RingWith(h, M), ApartIn(R), NEW p
    PROVE  /\ \A u \in R : ~SoonerLex(p, u, u)
           /\ \A u, v \in R : u # v => (SoonerLex(p, u, v) <=> ~SoonerLex(p, v, u))
           /\ \A u, v, w \in R : SoonerLex(p, u, v) /\ SoonerLex(p, v, w) => SoonerLex(p, u, w)
PROOF
  <1>1. /\ \A u \in R : ~Lex(u, u)
        /\ \A u, v \in R : u # v => (Lex(u, v) <=> ~Lex(v, u))
        /\ \A u, v, w \in R : Lex(u, v) /\ Lex(v, w) => Lex(u, w)
    BY LexIsAnOrder, Z3
  <1> DEFINE from(v) == v.position >= p
  <1>2. \A u, v : SoonerLex(p, u, v) <=>
                      IF from(u) <=> from(v) THEN Lex(u, v) ELSE from(u)
    BY DEF SoonerLex
  <1> HIDE DEF from
  <1>3. ASSUME NEW u \in R PROVE ~SoonerLex(p, u, u)
    BY <1>1, <1>2
  <1>4. ASSUME NEW u \in R, NEW v \in R, u # v
        PROVE  SoonerLex(p, u, v) <=> ~SoonerLex(p, v, u)
    BY <1>1, <1>2, <1>4
  <1>5. ASSUME NEW u \in R, NEW v \in R, NEW w \in R, SoonerLex(p, u, v), SoonerLex(p, v, w)
        PROVE  SoonerLex(p, u, w)
    BY <1>1, <1>2, <1>5
  <1> QED
    BY <1>3, <1>4, <1>5

LEMMA PriorIsAsymmetric ==
    ASSUME NEW h \in [Node \X Index -> Position], NEW p \in Position,
           NEW m \in Node, NEW n \in Node, Prior(h, p, m, n)
    PROVE  ~Prior(h, p, n, m)
PROOF
  <1> SUFFICES ASSUME Prior(h, p, n, m) PROVE FALSE
    OBVIOUS
  <1>1. PICK i \in Index :
            \A j \in Index : SoonerLex(p, VirtualNode(h, m, i), VirtualNode(h, n, j))
    BY DEF Prior
  <1>2. PICK j \in Index :
            \A k \in Index : SoonerLex(p, VirtualNode(h, n, j), VirtualNode(h, m, k))
    BY DEF Prior
  <1> DEFINE u == VirtualNode(h, m, i)
             v == VirtualNode(h, n, j)
  <1>3. SoonerLex(p, u, v) /\ SoonerLex(p, v, u)
    BY <1>1, <1>2
  <1>4. /\ u.index = i /\ v.index = j /\ i \in Nat /\ j \in Nat
        /\ u.position = h[<<m, i>>] /\ v.position = h[<<n, j>>]
        /\ h[<<m, i>>] \in Nat /\ h[<<n, j>>] \in Nat /\ p \in Nat
    BY ViewAssumption DEF VirtualNode, Index, Position
  <1> HIDE DEF u, v
  <1> QED
    BY <1>3, <1>4 DEF SoonerLex, Lex

\* From the first position on, the order is that of the array.
LEMMA FromTheStart ==
    ASSUME NEW h \in [Node \X Index -> Position],
           NEW m \in Node, NEW n \in Node, NEW i \in Index, NEW j \in Index
    PROVE  LET u == VirtualNode(h, m, i)
               v == VirtualNode(h, n, j)
           IN  SoonerLex(0, u, v) <=> Lex(u, v)
PROOF
  <1>1. /\ VirtualNode(h, m, i).position \in Nat
        /\ VirtualNode(h, n, j).position \in Nat
    BY ViewAssumption DEF VirtualNode, Position
  <1> QED
    BY <1>1 DEF SoonerLex

-----------------------------------------------------------------------------
(* Where a shard is moved to.                                              *)

\* With members M: to the first of the others, to none if there is no other.
Best(h, M, source, n) ==
    IF M \ {source} = {} THEN n = source
    ELSE n \in M \ {source} /\ \A m \in M \ {source, n} : Prior(h, 0, n, m)

LEMMA BestIsUnique ==
    ASSUME NEW h \in [Node \X Index -> Position], NEW M \in SUBSET Node, NEW source \in Node,
           NEW m, NEW n, Best(h, M, source, m), Best(h, M, source, n)
    PROVE  m = n
PROOF
  <1>1. CASE M \ {source} = {}
    BY <1>1 DEF Best
  <1>2. CASE M \ {source} # {}
    <2> SUFFICES ASSUME m # n PROVE FALSE
      OBVIOUS
    <2>1. m \in Node /\ n \in Node /\ Prior(h, 0, m, n) /\ Prior(h, 0, n, m)
      BY <1>2 DEF Best
    <2>2. 0 \in Position
      BY ViewAssumption DEF Position
    <2> QED
      BY <2>1, <2>2, PriorIsAsymmetric
  <1> QED
    BY <1>1, <1>2

\* The nodes come in the order of their first virtual nodes.
LEMMA ViewAhead ==
    ASSUME Types, NEW s \in Server, ApartIn(RingOf(s)),
           NEW m \in Members(s), NEW n \in Members(s), m # n
    PROVE  /\ View(s)!Ahead(m, n) <=> Prior(hash, 0, m, n)
           /\ View(s)!Ahead(m, n) <=> ~View(s)!Ahead(n, m)
PROOF
  <1>1. RingOf(s) = RingWith(hash, Members(s)) /\ Members(s) \in SUBSET Node
    BY OneRing
  <1>2. hash \in [Node \X Index -> Position]
    BY DEF Types
  <1>3. \A k \in Members(s) : View(s)!Mine(k) = RingWith(hash, {k})
    BY ViewCounts
  <1> DEFINE first(k) == View(s)!First(RingWith(hash, {k}))
  <1>4. ASSUME NEW k \in {m, n}
        PROVE  \E i \in Index :
                   /\ first(k) = VirtualNode(hash, k, i)
                   /\ first(k) \in RingOf(s)
                   /\ \A j \in Index : j # i => Lex(VirtualNode(hash, k, i), VirtualNode(hash, k, j))
    <2>1. RingWith(hash, {k}) \in SUBSET RingOf(s)
      BY <1>1 DEF RingWith
    <2>2. RingWith(hash, {k}) # {}
      <3>1. 0 \in Index
        BY ViewAssumption DEF Index
      <3> QED
        BY <3>1 DEF RingWith
    <2>3. /\ first(k) \in RingWith(hash, {k})
          /\ \A u \in RingWith(hash, {k}) \ {first(k)} : Lex(first(k), u)
      BY <2>1, <2>2, ViewFirst
    <2> HIDE DEF first
    <2>4. PICK i \in Index : first(k) = VirtualNode(hash, k, i)
      BY <2>3 DEF RingWith
    <2>5. ASSUME NEW j \in Index, j # i
          PROVE  Lex(VirtualNode(hash, k, i), VirtualNode(hash, k, j))
      <3>1. VirtualNode(hash, k, j) \in RingWith(hash, {k})
        BY DEF RingWith
      <3>2. VirtualNode(hash, k, j).index # VirtualNode(hash, k, i).index
        BY <2>5 DEF VirtualNode
      <3>3. VirtualNode(hash, k, j) # first(k)
        BY <2>4, <3>2, Zenon
      <3> QED
        BY <2>3, <2>4, <3>1, <3>3, Zenon
    <2> QED
      BY <2>1, <2>3, <2>4, <2>5
  <1>5. View(s)!Ahead(m, n) <=> View(s)!Before(first(m), first(n))
    BY <1>3 DEF View!Ahead
  <1>6. View(s)!Ahead(n, m) <=> View(s)!Before(first(n), first(m))
    BY <1>3 DEF View!Ahead
  <1> HIDE DEF first
  <1>7. PICK i \in Index : /\ first(m) = VirtualNode(hash, m, i) /\ first(m) \in RingOf(s)
                           /\ \A j \in Index : j # i =>
                                  Lex(VirtualNode(hash, m, i), VirtualNode(hash, m, j))
    BY <1>4
  <1>8. PICK j \in Index : /\ first(n) = VirtualNode(hash, n, j) /\ first(n) \in RingOf(s)
                           /\ \A k \in Index : k # j =>
                                  Lex(VirtualNode(hash, n, j), VirtualNode(hash, n, k))
    BY <1>4
  <1>9. /\ View(s)!Ahead(m, n) <=> Lex(first(m), first(n))
        /\ View(s)!Ahead(n, m) <=> Lex(first(n), first(m))
    BY <1>5, <1>6, <1>7, <1>8, ViewBefore
  <1>10. /\ \A u, v \in RingOf(s) : u # v => (Lex(u, v) <=> ~Lex(v, u))
         /\ \A u, v, w \in RingOf(s) : Lex(u, v) /\ Lex(v, w) => Lex(u, w)
    BY <1>1, <1>2, LexIsAnOrder
  <1>11. first(m) # first(n)
    <2>1. VirtualNode(hash, m, i).nodeId # VirtualNode(hash, n, j).nodeId
      BY DEF VirtualNode
    <2> QED
      BY <1>7, <1>8, <2>1, Zenon
  <1>12. View(s)!Ahead(m, n) <=> ~View(s)!Ahead(n, m)
    BY <1>7, <1>8, <1>9, <1>10, <1>11
  <1>13. ASSUME NEW x \in Members(s), NEW y \in Members(s), NEW a \in Index, NEW b \in Index
         PROVE  /\ VirtualNode(hash, x, a) \in RingOf(s)
                /\ SoonerLex(0, VirtualNode(hash, x, a), VirtualNode(hash, y, b)) <=>
                       Lex(VirtualNode(hash, x, a), VirtualNode(hash, y, b))
    <2>1. VirtualNode(hash, x, a) \in RingOf(s)
      BY <1>1 DEF RingWith
    <2>2. x \in Node /\ y \in Node
      BY <1>1
    <2> QED
      BY <1>2, <2>1, <2>2, FromTheStart
  <1>14. ASSUME Lex(first(m), first(n)) PROVE Prior(hash, 0, m, n)
    <2>1. ASSUME NEW b \in Index
          PROVE  Lex(VirtualNode(hash, m, i), VirtualNode(hash, n, b))
      <3>1. CASE b = j
        BY <1>7, <1>8, <1>14, <3>1
      <3>2. CASE b # j
        BY <1>7, <1>8, <1>10, <1>13, <1>14, <3>2
      <3> QED
        BY <3>1, <3>2
    <2>2. \A b \in Index : SoonerLex(0, VirtualNode(hash, m, i), VirtualNode(hash, n, b))
      BY <1>13, <2>1
    <2> QED
      BY <2>2 DEF Prior
  <1>15. ASSUME Lex(first(n), first(m)) PROVE ~Prior(hash, 0, m, n)
    <2> SUFFICES ASSUME Prior(hash, 0, m, n) PROVE FALSE
      OBVIOUS
    <2>1. PICK a \in Index :
              \A b \in Index : SoonerLex(0, VirtualNode(hash, m, a), VirtualNode(hash, n, b))
      BY DEF Prior
    <2>2. Lex(VirtualNode(hash, m, a), first(n))
      BY <1>8, <1>13, <2>1
    <2>3. a = i \/ Lex(first(m), VirtualNode(hash, m, a))
      BY <1>7
    <2>4. Lex(first(m), first(n))
      <3>1. CASE a = i
        BY <1>7, <2>2, <3>1
      <3>2. CASE a # i
        BY <1>7, <1>8, <1>10, <1>13, <2>2, <2>3, <3>2
      <3> QED
        BY <3>1, <3>2
    <2> QED
      BY <1>7, <1>8, <1>10, <1>11, <1>15, <2>4
  <1> QED
    BY <1>9, <1>12, <1>14, <1>15

LEMMA TargetIsBest ==
    ASSUME Types, NEW s \in Server, ApartIn(RingOf(s)), NEW source \in Node
    PROVE  Best(hash, Members(s), source, View(s)!FindBestTargetNode(source))
PROOF
  <1> DEFINE others == Members(s) \ {source}
             target == View(s)!FindBestTargetNode(source)
             least == {n \in others : \A m \in others : View(s)!Count(n) <= View(s)!Count(m)}
  <1>1. /\ View(s)!Placed = Members(s)
        /\ \A n \in Members(s) : View(s)!Count(n) = Replicas
        /\ Replicas \in Nat
    BY ViewCounts, ViewAssumption
  <1>2. least = others
    BY <1>1
  <1>3. target = IF least = {} THEN source
                 ELSE CHOOSE n \in least : \A m \in least \ {n} : View(s)!Ahead(n, m)
    BY <1>1 DEF View!FindBestTargetNode
  <1> HIDE DEF least, target
  <1>4. CASE others = {}
    BY <1>2, <1>3, <1>4 DEF Best, target
  <1>5. CASE others # {}
    <2>1. ASSUME NEW m \in others, NEW n \in others, m # n
          PROVE  /\ View(s)!Ahead(m, n) <=> Prior(hash, 0, m, n)
                 /\ View(s)!Ahead(m, n) <=> ~View(s)!Ahead(n, m)
      BY <2>1, ViewAhead
    <2>2. \E n \in others : \A m \in others \ {n} : View(s)!Ahead(n, m)
      <3> DEFINE theirs == {v \in RingOf(s) : v.nodeId \in others}
                 v == View(s)!First(theirs)
      <3>1. \A n \in Members(s) : View(s)!Mine(n) = RingWith(hash, {n})
        BY ViewCounts
      <3>2. /\ RingOf(s) = RingWith(hash, Members(s)) /\ Members(s) \in SUBSET Node
            /\ hash \in [Node \X Index -> Position]
        BY OneRing DEF Types
      <3>3. ASSUME NEW n \in others, NEW i \in Index
            PROVE  /\ VirtualNode(hash, n, i) \in theirs
                   /\ VirtualNode(hash, n, i).nodeId = n
        <4>1. VirtualNode(hash, n, i) \in RingOf(s)
          BY <3>2 DEF RingWith
        <4>2. VirtualNode(hash, n, i).nodeId = n
          BY DEF VirtualNode
        <4> QED
          BY <4>1, <4>2, Zenon
      <3>4. theirs # {}
        <4>1. 0 \in Index
          BY ViewAssumption DEF Index
        <4> QED
          BY <1>5, <3>3, <4>1
      <3>5. v \in theirs /\ \A u \in theirs \ {v} : Lex(v, u)
        BY <3>4, ViewFirst
      <3>6. PICK n \in Members(s), i \in Index : v = VirtualNode(hash, n, i)
        BY <3>2, <3>5 DEF RingWith
      <3>7. n \in others
        <4>1. VirtualNode(hash, n, i).nodeId = n
          BY DEF VirtualNode
        <4> QED
          BY <3>5, <3>6, <4>1
      <3> HIDE DEF v, theirs
      <3>8. ASSUME NEW m \in others, m # n PROVE View(s)!Ahead(n, m)
        <4>1. ASSUME NEW j \in Index
              PROVE  SoonerLex(0, VirtualNode(hash, n, i), VirtualNode(hash, m, j))
          <5>1. VirtualNode(hash, m, j) \in theirs /\ VirtualNode(hash, m, j).nodeId = m
            BY <3>3
          <5>2. VirtualNode(hash, m, j) # v
            <6>1. VirtualNode(hash, n, i).nodeId = n
              BY DEF VirtualNode
            <6> QED
              BY <3>6, <3>8, <5>1, <6>1
          <5>3. Lex(VirtualNode(hash, n, i), VirtualNode(hash, m, j))
            BY <3>5, <3>6, <5>1, <5>2, Zenon
          <5> QED
            BY <3>2, <5>3, FromTheStart
        <4>2. Prior(hash, 0, n, m)
          BY <4>1 DEF Prior
        <4> QED
          BY <2>1, <3>7, <3>8, <4>2
      <3> QED
        BY <3>7, <3>8
    <2>3. target = CHOOSE n \in others : \A m \in others \ {n} : View(s)!Ahead(n, m)
      BY <1>2, <1>3, <1>5
    <2>4. target \in others /\ \A m \in others \ {target} : View(s)!Ahead(target, m)
      BY <2>2, <2>3
    <2>5. \A m \in Members(s) \ {source, target} : Prior(hash, 0, target, m)
      BY <2>1, <2>4
    <2> QED
      BY <1>5, <2>4, <2>5 DEF Best, target
  <1> QED
    BY <1>4, <1>5

\* Where all members have the same number of shards, none is overloaded.
LEMMA NoneIsOverloaded ==
    ASSUME Types, NEW s \in Server
    PROVE  View(s)!Overloaded = {}
PROOF
  <1> DEFINE c == Cardinality(Members(s))
             t == c * Replicas
  <1>1. /\ View(s)!Placed = Members(s)
        /\ \A n \in Members(s) : View(s)!Count(n) = Replicas
        /\ View(s)!Total = t
    BY ViewCounts
  <1>2. View(s)!Cardinality(Members(s)) = c
    BY DEF Cardinality, View!Cardinality, IsFiniteSet, View!IsFiniteSet
  <1>3. c \in Nat /\ Replicas \in Nat /\ Threshold \in Nat
    BY OneRing, RingSize, ViewAssumption DEF Types
  <1>4. View(s)!Overloaded =
            {n \in Members(s) : 100 * View(s)!Count(n) * c > (100 + Threshold) * t}
    BY <1>1, <1>2 DEF View!Overloaded
  <1>5. ~(100 * Replicas * c > (100 + Threshold) * t)
    <2>1. ASSUME NEW x \in Nat, NEW r \in Nat, NEW h \in Nat
          PROVE  ~(100 * r * x > (100 + h) * (x * r))
      <3>1. (100 + h) * (x * r) = 100 * r * x + h * (x * r)
        BY Z3
      <3>2. h * (x * r) \in Nat /\ 100 * r * x \in Nat
        BY Z3
      <3> DEFINE a == 100 * r * x
                 b == h * (x * r)
      <3> HIDE DEF a, b
      <3>3. ~(a > a + b)
        BY <3>2 DEF a, b
      <3> QED
        BY <3>1, <3>3 DEF a, b
    <2> QED
      BY <1>3, <2>1
  <1> HIDE DEF c, t
  <1> QED
    BY <1>1, <1>4, <1>5

LEMMA NothingToRebalance ==
    ASSUME Types, NEW s \in Server
    PROVE  View(s)!RebalancingMoves = <<>>
PROOF
  <1> DEFINE array == View(s)!InOrder({})
             D == DOMAIN array
             Iter(iter) == iter = [T \in SUBSET D |->
                 IF T = {} THEN <<>>
                 ELSE iter[T \ {View(s)!Max(T)}] \o View(s)!MovesFrom(array[View(s)!Max(T)])]
  <1>1. D = {}
    <2>1. View(s)!Cardinality({}) = 0
      BY FS_EmptySet DEF Cardinality, View!Cardinality, IsFiniteSet, View!IsFiniteSet
    <2>2. DOMAIN array = 1..View(s)!Cardinality({})
      BY Zenon DEF View!InOrder, View!Sorted
    <2> QED
      BY <2>1, <2>2
  <1>2. View(s)!RebalancingMoves = (CHOOSE iter : Iter(iter))[D]
    BY NoneIsOverloaded DEF View!RebalancingMoves, View!FoldOver, View!MapThenFoldSet
  <1> HIDE DEF D
  <1>3. \E iter : Iter(iter)
    <2>1. \A T \in SUBSET D : T = {}
      BY <1>1
    <2>2. Iter([T \in SUBSET D |-> <<>>])
      BY <2>1
    <2> QED
      BY <2>2
  <1>4. \A iter : Iter(iter) => iter[D] = <<>>
    BY <1>1
  <1> HIDE DEF Iter
  <1> QED
    BY <1>2, <1>3, <1>4

Targeted(h, M, operation) ==
    operation.source \in Node /\ Best(h, M, operation.source, operation.target)

\* What a node has chosen depends on the source, on its members and on hashing
\* alone: the members are there before the first operation, and stay.
TargetsAreBest ==
    \A s \in Server :
        /\ \E S : operations[s] \in Seq(S)
        /\ ApartIn(RingWith(hash, Members(s))) =>
               \A i \in DOMAIN operations[s] \ named[s] :
                   Targeted(hash, Members(s), operations[s][i])

MoveInv == TableInv /\ TargetsAreBest

LEMMA MoveInvInit == Init => MoveInv
PROOF
  <1> SUFFICES ASSUME Init PROVE MoveInv
    OBVIOUS
  <1>1. operations = [s \in Server |-> <<>>]
    BY DEF Init
  <1>2. TableInv
    BY TableInvInit
  <1>3. <<>> \in Seq({}) /\ DOMAIN <<>> = {}
    OBVIOUS
  <1>4. ASSUME NEW s \in Server PROVE operations[s] = <<>>
    BY <1>1
  <1>5. TargetsAreBest
    BY <1>3, <1>4 DEF TargetsAreBest
  <1> QED
    BY <1>2, <1>5 DEF MoveInv

\* A shard is scheduled to move.
LEMMA ScheduledMove ==
    ASSUME MoveInv, NEW s \in Server, NEW q \in Requests, ScheduleMigration(s, q)
    PROVE  TargetsAreBest'
PROOF
  <1> DEFINE move == View(s)!Move(q.shard, q.source, q.target)
             next == Len(operations[s]) + 1
  <1>1. TableInv /\ Types /\ TargetsAreBest
    BY DEF MoveInv, TableInv
  <1>2. /\ operations' = [operations EXCEPT ![s] = Append(@, move)]
        /\ named' = [named EXCEPT ![s] = @ \cup {i \in {next} : q.target # Nil}]
        /\ UNCHANGED <<hash, joined>> /\ q.source \in Node
    BY <1>1, ScheduledNames DEF viewVars
  <1>3. \A t \in Server : Members(t)' = Members(t) /\ RingWith(hash, Members(t))' = RingWith(hash, Members(t))
    BY <1>2 DEF Members, RingWith, VirtualNode, Index
  <1>4. /\ operations'[s] = Append(operations[s], move)
        /\ named'[s] = named[s] \cup {i \in {next} : q.target # Nil}
        /\ \A t \in Server \ {s} : operations'[t] = operations[t] /\ named'[t] = named[t]
    BY <1>1, <1>2 DEF Types
  <1>5. PICK S : operations[s] \in Seq(S)
    BY <1>1 DEF TargetsAreBest
  <1>6. /\ move.source = q.source
        /\ q.target = Nil => move.target = View(s)!FindBestTargetNode(q.source)
    BY DEF View!Move
  <1>7. ASSUME ApartIn(RingWith(hash, Members(s))), q.target = Nil
        PROVE  Targeted(hash, Members(s), move)
    <2>1. Best(hash, Members(s), q.source, View(s)!FindBestTargetNode(q.source))
      BY <1>1, <1>2, <1>7, OneRing, TargetIsBest
    <2> QED
      BY <1>2, <1>6, <1>7, <2>1 DEF Targeted
  <1> HIDE DEF move
  <1>8. /\ operations'[s] \in Seq(S \cup {move})
        /\ \A i \in DOMAIN operations'[s] :
               \/ i = next /\ operations'[s][i] = move
               \/ i \in DOMAIN operations[s] /\ operations'[s][i] = operations[s][i]
    BY <1>4, <1>5
  <1> HIDE DEF next
  <1>9. ASSUME NEW t \in Server
        PROVE  /\ \E Q : operations'[t] \in Seq(Q)
               /\ ApartIn(RingWith(hash, Members(t))) =>
                      \A i \in DOMAIN operations'[t] \ named'[t] :
                          Targeted(hash, Members(t), operations'[t][i])
    <2>1. CASE t = s
      <3>1. ASSUME ApartIn(RingWith(hash, Members(s))), NEW i \in DOMAIN operations'[s] \ named'[s]
            PROVE  Targeted(hash, Members(s), operations'[s][i])
        <4>1. CASE i = next /\ operations'[s][i] = move
          BY <1>4, <1>7, <3>1, <4>1
        <4>2. CASE i \in DOMAIN operations[s] /\ operations'[s][i] = operations[s][i]
          BY <1>1, <1>4, <3>1, <4>2 DEF TargetsAreBest
        <4> QED
          BY <1>8, <4>1, <4>2
      <3> QED
        BY <1>8, <2>1, <3>1
    <2>2. CASE t # s
      BY <1>1, <1>4, <2>2 DEF TargetsAreBest
    <2> QED
      BY <2>1, <2>2
  <1>10. hash' = hash
    BY <1>2
  <1> QED
    BY <1>3, <1>9, <1>10 DEF TargetsAreBest, Targeted, ApartIn

\* A step that leaves the operations and the rings that have some.
LEMMA OperationsStay ==
    ASSUME MoveInv, hash' = hash,
           \A s \in Server : operations'[s] = operations[s] /\ named'[s] = named[s]
                             /\ (operations[s] = <<>> \/ Members(s)' = Members(s))
    PROVE  TargetsAreBest'
PROOF
  <1> SUFFICES ASSUME NEW s \in Server
               PROVE  /\ \E S : operations'[s] \in Seq(S)
                      /\ ApartIn(RingWith(hash, Members(s)))' =>
                             \A i \in DOMAIN operations'[s] \ named'[s] :
                                 Targeted(hash, Members(s), operations[s][i])'
    BY DEF TargetsAreBest
  <1>1. TargetsAreBest
    BY DEF MoveInv
  <1>2. \E S : operations'[s] \in Seq(S)
    BY <1>1 DEF TargetsAreBest
  <1>3. CASE operations[s] = <<>>
    BY <1>2, <1>3
  <1>4. CASE Members(s)' = Members(s)
    <2>1. RingWith(hash, Members(s))' = RingWith(hash, Members(s))
      BY <1>4 DEF RingWith, VirtualNode, Index
    <2>2. ASSUME ApartIn(RingWith(hash, Members(s))), NEW i \in DOMAIN operations[s] \ named[s]
          PROVE  Targeted(hash, Members(s), operations[s][i])'
      <3>1. Targeted(hash, Members(s), operations[s][i])
        BY <1>1, <2>2 DEF TargetsAreBest
      <3>2. operations'[s] = operations[s]
        OBVIOUS
      <3> QED
        BY <1>4, <3>1, <3>2 DEF Targeted, Best, Prior, SoonerLex, Lex, VirtualNode, Index
    <2> QED
      BY <1>2, <2>1, <2>2 DEF ApartIn
  <1> QED
    BY <1>3, <1>4

LEMMA MoveInvNext == MoveInv /\ [Next]_vars => MoveInv'
PROOF
  <1> SUFFICES ASSUME MoveInv, [Next]_vars PROVE MoveInv'
    OBVIOUS
  <1>1. TableInv /\ TableInv'
    BY TableInvNext DEF MoveInv, Next, PeersNext
  <1>2. Types /\ CreatedIsBlank
    BY <1>1 DEF TableInv
  <1>3. SUFFICES TargetsAreBest'
    BY <1>1 DEF MoveInv
  <1>4. ASSUME NEW s \in Server, Initialize(s) PROVE TargetsAreBest'
    <2>1. /\ \A t \in Server \ {s} : joined'[t] = joined[t]
          /\ hash' = hash /\ operations' = operations /\ named' = named
      BY <1>1, <1>4, InitializeInv DEF Initialize, moveVars
    <2>2. operations[s] = <<>>
      BY <1>2, <1>4 DEF Initialize, Engine!Start, CreatedIsBlank
    <2>3. \A t \in Server \ {s} : Members(t)' = Members(t)
      BY <2>1 DEF Members
    <2> QED
      BY <2>1, <2>2, <2>3, OperationsStay
  <1>5. ASSUME NEW s \in Server, EngineStep(s) PROVE TargetsAreBest'
    <2>1. /\ hash' = hash /\ operations' = operations /\ named' = named
          /\ \A t \in Server : Members(t)' = Members(t)
      BY <1>1, <1>5, EngineMoves DEF Members
    <2> QED
      BY <2>1, OperationsStay
  <1>6. ASSUME NEW s \in Server, TriggerRebalancing(s) PROVE TargetsAreBest'
    <2>1. hash' = hash /\ named' = named /\ \A t \in Server : Members(t)' = Members(t)
      BY <1>6 DEF TriggerRebalancing, viewVars, Members
    <2>2. View(s)!RebalancingMoves = <<>>
      BY <1>2, NothingToRebalance
    <2>3. PICK S : operations[s] \in Seq(S)
      BY DEF MoveInv, TargetsAreBest
    <2>4. operations[s] \o <<>> = operations[s]
      BY <2>3
    <2>5. operations' = [operations EXCEPT ![s] =
              IF View(s)!NeedsRebalancing THEN operations[s] \o View(s)!RebalancingMoves
              ELSE operations[s]]
      BY <1>6 DEF TriggerRebalancing
    <2>6. \A t \in Server : operations'[t] = operations[t]
      BY <1>2, <2>2, <2>4, <2>5 DEF Types
    <2> QED
      BY <2>1, <2>6, OperationsStay
  <1>7. CASE UNCHANGED vars
    <2>1. /\ hash' = hash /\ operations' = operations /\ named' = named
          /\ \A t \in Server : Members(t)' = Members(t)
      BY <1>7 DEF vars, viewVars, moveVars, Members
    <2> QED
      BY <2>1, OperationsStay
  <1> QED
    BY <1>4, <1>5, <1>6, <1>7, ScheduledMove DEF Next, DeployedStep, EngineStep

\* ClusterView!LeadersChooseAlike: two nodes that know the same nodes choose the
\* same target for what they move away from a node, whenever each was asked to.
THEOREM LeadersAgreeOnTargets == Spec => []LeadersChooseAlike
PROOF
  <1>1. MoveInv => LeadersChooseAlike
    <2> SUFFICES ASSUME MoveInv, NEW s \in Server, NEW t \in Server,
                        Members(s) = Members(t), Apart(s, t),
                        NEW i \in DOMAIN operations[s] \ named[s],
                        NEW j \in DOMAIN operations[t] \ named[t],
                        operations[s][i].source = operations[t][j].source
                 PROVE  operations[s][i].target = operations[t][j].target
      BY DEF LeadersChooseAlike
    <2>1. Types /\ TargetsAreBest
      BY DEF MoveInv, TableInv
    <2>2. /\ RingOf(s) = RingWith(hash, Members(s)) /\ Members(s) \in SUBSET Node
          /\ hash \in [Node \X Index -> Position]
      BY <2>1, OneRing DEF Types
    <2>3. ApartIn(RingWith(hash, Members(s)))
      BY <2>2 DEF Apart, ApartIn
    <2>4. /\ Targeted(hash, Members(s), operations[s][i])
          /\ Targeted(hash, Members(s), operations[t][j])
      BY <2>1, <2>3 DEF TargetsAreBest
    <2> QED
      BY <2>2, <2>4, BestIsUnique DEF Targeted
  <1> QED
    BY <1>1, MoveInvInit, MoveInvNext, PTL DEF Spec

-----------------------------------------------------------------------------
(* The node of a key.                                                      *)

LEMMA ViewLookup ==
    ASSUME Types, NEW s \in Server, ApartIn(RingOf(s)), Members(s) # {}, NEW p \in Position
    PROVE  /\ Lookup(s, p) \in Members(s)
           /\ \A m \in Members(s) \ {Lookup(s, p)} : Prior(hash, p, Lookup(s, p), m)
PROOF
  <1> DEFINE from == {v \in RingOf(s) : v.position >= p}
             start == IF from # {} THEN from ELSE RingOf(s)
             v == View(s)!First(start)
  <1>1. /\ RingOf(s) = RingWith(hash, Members(s)) /\ Members(s) \in SUBSET Node
        /\ hash \in [Node \X Index -> Position]
    BY OneRing DEF Types
  <1>2. ASSUME NEW n \in Members(s), NEW i \in Index
        PROVE  VirtualNode(hash, n, i) \in RingOf(s) /\ VirtualNode(hash, n, i).nodeId = n
    <2>1. VirtualNode(hash, n, i) \in RingOf(s)
      BY <1>1 DEF RingWith
    <2>2. VirtualNode(hash, n, i).nodeId = n
      BY DEF VirtualNode
    <2> QED
      BY <2>1, <2>2, Zenon
  <1>3. RingOf(s) # {}
    <2>1. 0 \in Index
      BY ViewAssumption DEF Index
    <2> QED
      BY <1>2, <2>1
  <1>4. Lookup(s, p) = v.nodeId
    BY <1>3 DEF Lookup, View!GetNode
  <1>5. v \in start /\ \A u \in start \ {v} : Lex(v, u)
    <2>1. start \in SUBSET RingOf(s) /\ start # {}
      BY <1>3
    <2> HIDE DEF start
    <2> QED
      BY <2>1, ViewFirst
  <1>6. v \in RingOf(s) /\ \A u \in RingOf(s) \ {v} : SoonerLex(p, v, u)
    <2> HIDE DEF v
    <2> QED
      BY <1>5 DEF SoonerLex
  <1>7. PICK n \in Members(s), i \in Index : v = VirtualNode(hash, n, i)
    <2> HIDE DEF v
    <2> QED
      BY <1>1, <1>6 DEF RingWith
  <1> HIDE DEF v, start, from
  <1>8. Lookup(s, p) = n
    BY <1>2, <1>4, <1>7
  <1>9. ASSUME NEW m \in Members(s), m # n PROVE Prior(hash, p, n, m)
    <2>1. ASSUME NEW j \in Index
          PROVE  SoonerLex(p, VirtualNode(hash, n, i), VirtualNode(hash, m, j))
      <3>1. VirtualNode(hash, m, j) \in RingOf(s) /\ VirtualNode(hash, m, j).nodeId = m
        BY <1>2
      <3>2. VirtualNode(hash, n, i).nodeId = n
        BY <1>2
      <3>3. VirtualNode(hash, m, j) # v
        BY <1>7, <1>9, <3>1, <3>2
      <3> QED
        BY <1>6, <1>7, <3>1, <3>3, Zenon
    <2> QED
      BY <2>1 DEF Prior
  <1> QED
    BY <1>8, <1>9

-----------------------------------------------------------------------------
(* The array of a node, and the replicas found in it.                      *)

LEMMA ViewClockwise ==
    ASSUME Types, NEW s \in Server, ApartIn(RingOf(s)), NEW p \in Position
    PROVE  \E n \in Nat :
               /\ DOMAIN View(s)!Clockwise(p) = 1..n
               /\ \A i \in 1..n : View(s)!Clockwise(p)[i] \in RingOf(s)
               /\ \A v \in RingOf(s) : \E i \in 1..n : View(s)!Clockwise(p)[i] = v
               /\ \A i, j \in 1..n : i < j =>
                      SoonerLex(p, View(s)!Clockwise(p)[i], View(s)!Clockwise(p)[j])
PROOF
  <1> DEFINE R == {w \in RingOf(s) \X RingOf(s) : SoonerLex(p, w[1], w[2])}
             a == Joining!Listed(RingOf(s), R)
             n == Joining!Cardinality(RingOf(s))
  <1>1. /\ RingOf(s) = RingWith(hash, Members(s)) /\ Members(s) \in SUBSET Node
        /\ hash \in [Node \X Index -> Position]
    BY OneRing DEF Types
  <1>2. \A u, v \in RingOf(s) : <<u, v>> \in R <=> SoonerLex(p, u, v)
    OBVIOUS
  <1>3. \A u, v \in RingOf(s) : View(s)!Sooner(p, u, v) <=> SoonerLex(p, u, v)
    <2>1. \A u, v \in RingOf(s) : View(s)!Before(u, v) <=> Lex(u, v)
      BY ViewBefore
    <2> QED
      BY <2>1 DEF View!Sooner, SoonerLex
  <1>4. \A T : View(s)!Cardinality(T) = Joining!Cardinality(T)
    BY DEF Joining!Cardinality, View!Cardinality, Joining!IsFiniteSet, View!IsFiniteSet
  <1>5. View(s)!Clockwise(p) = a
    <2> DEFINE One(i) == CHOOSE v \in RingOf(s) :
                   View(s)!Cardinality({u \in RingOf(s) : View(s)!Sooner(p, u, v)}) = i - 1
               Other(i) == CHOOSE v \in RingOf(s) :
                   Joining!Cardinality({u \in RingOf(s) : <<u, v>> \in R}) = i - 1
    <2>1. ASSUME NEW v \in RingOf(s)
          PROVE  {u \in RingOf(s) : View(s)!Sooner(p, u, v)} = {u \in RingOf(s) : <<u, v>> \in R}
      <3> HIDE DEF R
      <3> QED
        BY <1>2, <1>3
    <2>2. ASSUME NEW i PROVE One(i) = Other(i)
      <3> HIDE DEF R
      <3> QED
        BY <1>4, <2>1
    <2>3. View(s)!Clockwise(p) = [i \in 1..View(s)!Cardinality(RingOf(s)) |-> One(i)]
      BY Zenon DEF View!Clockwise, View!Sorted
    <2>4. a = [i \in 1..Joining!Cardinality(RingOf(s)) |-> Other(i)]
      BY Zenon DEF Joining!Listed
    <2> HIDE DEF One, Other, a, R
    <2> QED
      BY <1>4, <2>2, <2>3, <2>4
  <1>6. /\ \A u \in RingOf(s) : <<u, u>> \notin R
        /\ \A u, v \in RingOf(s) : u # v => <<u, v>> \in R \/ <<v, u>> \in R
        /\ \A u, v, w \in RingOf(s) : <<u, v>> \in R /\ <<v, w>> \in R => <<u, w>> \in R
    <2>1. /\ \A u \in RingOf(s) : ~SoonerLex(p, u, u)
          /\ \A u, v \in RingOf(s) : u # v => (SoonerLex(p, u, v) <=> ~SoonerLex(p, v, u))
          /\ \A u, v, w \in RingOf(s) :
                 SoonerLex(p, u, v) /\ SoonerLex(p, v, w) => SoonerLex(p, u, w)
      BY <1>1, SoonerLexIsAnOrder
    <2> HIDE DEF R
    <2> QED
      BY <1>2, <2>1
  <1>7. Joining!IsFiniteSet(RingOf(s))
    <2>1. IsFiniteSet(RingOf(s))
      BY <1>1, RingSize
    <2> QED
      BY <2>1 DEF IsFiniteSet, Joining!IsFiniteSet
  <1>8. /\ a \in Seq(RingOf(s)) /\ Len(a) = n /\ n \in Nat
        /\ \A v \in RingOf(s) : \E i \in 1..n : a[i] = v
        /\ \A i, j \in 1..n : <<a[i], a[j]>> \in R <=> i < j
    <2> HIDE DEF R
    <2> QED
      BY <1>6, <1>7, Joining!SortedArray
  <1> HIDE DEF R, a, n
  <1>9. DOMAIN a = 1..n /\ \A i \in 1..n : a[i] \in RingOf(s)
    BY <1>8
  <1>10. \A i, j \in 1..n : i < j => SoonerLex(p, a[i], a[j])
    BY <1>2, <1>8, <1>9
  <1> QED
    BY <1>5, <1>8, <1>9, <1>10

\* What the loop has taken after k virtual nodes: their nodes, each once, in the
\* order in which they were read first.
Taken(a, k, r) ==
    /\ r \in Seq(Node)
    /\ \A i \in 1..Len(r) : \E x \in 1..k : a[x].nodeId = r[i]
    /\ \A x \in 1..k : \E i \in 1..Len(r) : r[i] = a[x].nodeId
    /\ \A i, j \in 1..Len(r) : i < j =>
           \E x \in 1..k : a[x].nodeId = r[i] /\ \A y \in 1..k : a[y].nodeId = r[j] => x < y

\* A node that is not among different ones: there are fewer than all.
LEMMA OneIsMissing ==
    ASSUME NEW r \in Seq(Node), NEW m \in Node, m \notin Range(r),
           \A i, j \in 1..Len(r) : i < j => r[i] # r[j]
    PROVE  Len(r) < Cardinality(Node)
PROOF
  <1>1. Len(r) \in Nat /\ DOMAIN r = 1..Len(r)
    OBVIOUS
  <1> DEFINE f == [i \in 1..Len(r) |-> r[i]]
  <1>2. f \in Injection(1..Len(r), Node \ {m})
    <2>1. \A i \in 1..Len(r) : r[i] \in Node \ {m}
      BY <1>1 DEF Range
    <2>2. \A i, j \in 1..Len(r) : r[i] = r[j] => i = j
      <3> SUFFICES ASSUME NEW i \in 1..Len(r), NEW j \in 1..Len(r), r[i] = r[j] PROVE i = j
        OBVIOUS
      <3>1. ~(i < j) /\ ~(j < i)
        OBVIOUS
      <3> QED
        BY <3>1
    <2> QED
      BY <2>1, <2>2 DEF Injection, IsInjective
  <1>3. IsFiniteSet(Node \ {m}) /\ Cardinality(Node \ {m}) = Cardinality(Node) - 1
    BY FS_RemoveElement, ViewAssumption
  <1>4. IsFiniteSet(1..Len(r)) /\ Cardinality(1..Len(r)) = Len(r)
    BY <1>1, FS_Interval
  <1>5. Cardinality(1..Len(r)) <= Cardinality(Node \ {m})
    <2> HIDE DEF f
    <2> QED
      BY <1>2, <1>3, FS_Injection
  <1>6. Cardinality(Node) \in Nat
    BY FS_CardinalityType, ViewAssumption
  <1> QED
    BY <1>1, <1>3, <1>4, <1>5, <1>6

LEMMA TakeOne ==
    ASSUME NEW n \in Nat, NEW k \in 0..(n - 1), NEW a, \A x \in 1..n : a[x].nodeId \in Node,
           NEW r, Taken(a, k, r)
    PROVE  Taken(a, k + 1, TakeNode(Cardinality(Node), r, a[k + 1]))
PROOF
  <1> DEFINE m == a[k + 1].nodeId
             t == TakeNode(Cardinality(Node), r, a[k + 1])
  <1>1. /\ k \in Nat /\ k + 1 \in 1..n /\ k + 1 \in 1..(k + 1) /\ m \in Node
        /\ r \in Seq(Node) /\ Len(r) \in Nat /\ DOMAIN r = 1..Len(r)
        /\ \A x : x \in 1..(k + 1) <=> (x \in 1..k \/ x = k + 1)
        /\ \A x \in 1..k : x \in Int /\ x < k + 1
    BY DEF Taken
  <1>2. \A i, j \in 1..Len(r) : i < j => r[i] # r[j]
    <2> SUFFICES ASSUME NEW i \in 1..Len(r), NEW j \in 1..Len(r), i < j, r[i] = r[j] PROVE FALSE
      OBVIOUS
    <2>1. PICK x \in 1..k : a[x].nodeId = r[i] /\ \A y \in 1..k : a[y].nodeId = r[j] => x < y
      BY DEF Taken
    <2> QED
      BY <2>1
  <1>3. CASE m \notin Range(r)
    <2>1. Len(r) < Cardinality(Node)
      BY <1>1, <1>2, <1>3, OneIsMissing
    <2>2. /\ t = Append(r, m) /\ t \in Seq(Node) /\ Len(t) = Len(r) + 1
          /\ t[Len(r) + 1] = m /\ \A i \in 1..Len(r) : t[i] = r[i] /\ r[i] # m
      BY <1>1, <1>3, <2>1 DEF TakeNode, Range
    <2>3. \A i : i \in 1..Len(t) <=> (i \in 1..Len(r) \/ i = Len(r) + 1)
      BY <1>1, <2>2
    <2> HIDE DEF t, m
    <2>0. /\ \A i \in 1..Len(r) : \E x \in 1..k : a[x].nodeId = r[i]
          /\ \A x \in 1..k : \E i \in 1..Len(r) : r[i] = a[x].nodeId
      BY DEF Taken
    <2>4. ASSUME NEW i \in 1..Len(t) PROVE \E x \in 1..(k + 1) : a[x].nodeId = t[i]
      <3>1. CASE i \in 1..Len(r)
        BY <1>1, <2>2, <2>0, <3>1
      <3>2. CASE i = Len(r) + 1
        BY <1>1, <2>2, <3>2 DEF m
      <3> QED
        BY <2>3, <3>1, <3>2
    <2>5. ASSUME NEW x \in 1..(k + 1) PROVE \E i \in 1..Len(t) : t[i] = a[x].nodeId
      <3>1. CASE x \in 1..k
        BY <2>2, <2>3, <2>0, <3>1
      <3>2. CASE x = k + 1
        BY <2>2, <2>3, <3>2 DEF m
      <3> QED
        BY <1>1, <3>1, <3>2
    <2>6. ASSUME NEW i \in 1..Len(t), NEW j \in 1..Len(t), i < j
          PROVE  \E x \in 1..(k + 1) :
                     a[x].nodeId = t[i] /\ \A y \in 1..(k + 1) : a[y].nodeId = t[j] => x < y
      <3>1. i \in 1..Len(r) /\ t[i] = r[i]
        BY <1>1, <2>2, <2>3, <2>6
      <3>2. CASE j \in 1..Len(r)
        <4>1. PICK x \in 1..k :
                  a[x].nodeId = r[i] /\ \A y \in 1..k : a[y].nodeId = r[j] => x < y
          BY <2>6, <3>1, <3>2 DEF Taken
        <4>2. t[j] = r[j] /\ r[j] # a[k + 1].nodeId
          BY <2>2, <3>2 DEF m
        <4> QED
          BY <1>1, <3>1, <4>1, <4>2
      <3>3. CASE j = Len(r) + 1
        <4>1. PICK x \in 1..k : a[x].nodeId = r[i]
          BY <3>1 DEF Taken
        <4>2. \A y \in 1..k : a[y].nodeId # m
          BY <2>2 DEF Taken
        <4>3. t[j] = m
          BY <2>2, <3>3
        <4>4. \A y \in 1..(k + 1) : a[y].nodeId = t[j] => x < y
          BY <1>1, <4>2, <4>3
        <4> QED
          BY <1>1, <3>1, <4>1, <4>4
      <3> QED
        BY <2>3, <3>2, <3>3
    <2> QED
      BY <2>2, <2>4, <2>5, <2>6 DEF Taken, t
  <1>4. CASE m \in Range(r)
    <2>1. t = r /\ \E i \in 1..Len(r) : r[i] = m
      BY <1>1, <1>4 DEF TakeNode, Range
    <2> HIDE DEF t
    <2>2. \A i \in 1..Len(r) : \E x \in 1..(k + 1) : a[x].nodeId = r[i]
      BY <1>1 DEF Taken
    <2>3. \A x \in 1..(k + 1) : \E i \in 1..Len(r) : r[i] = a[x].nodeId
      BY <1>1, <2>1 DEF Taken
    <2>4. ASSUME NEW i \in 1..Len(r), NEW j \in 1..Len(r), i < j
          PROVE  \E x \in 1..(k + 1) :
                     a[x].nodeId = r[i] /\ \A y \in 1..(k + 1) : a[y].nodeId = r[j] => x < y
      <3>1. PICK x \in 1..k :
                a[x].nodeId = r[i] /\ \A y \in 1..k : a[y].nodeId = r[j] => x < y
        BY <2>4 DEF Taken
      <3> QED
        BY <1>1, <3>1
    <2> QED
      BY <1>1, <2>1, <2>2, <2>3, <2>4 DEF Taken, t
  <1> QED
    BY <1>3, <1>4

\* The replicas of a position are the members, one prior to the other.
LEMMA ViewReplicas ==
    ASSUME Types, NEW s \in Server, ApartIn(RingOf(s)), NEW p \in Position
    PROVE  /\ ReplicaNodes(s, p) \in Seq(Node)
           /\ Range(ReplicaNodes(s, p)) = Members(s)
           /\ \A i, j \in 1..Len(ReplicaNodes(s, p)) : i < j =>
                  Prior(hash, p, ReplicaNodes(s, p)[i], ReplicaNodes(s, p)[j])
PROOF
  <1> DEFINE a == View(s)!Clockwise(p)
             r == ReplicaNodes(s, p)
             c == Cardinality(Node)
  <1>1. /\ RingOf(s) = RingWith(hash, Members(s)) /\ Members(s) \in SUBSET Node
        /\ hash \in [Node \X Index -> Position]
    BY OneRing DEF Types
  <1>2. PICK n \in Nat :
               /\ DOMAIN a = 1..n
               /\ \A i \in 1..n : a[i] \in RingOf(s)
               /\ \A v \in RingOf(s) : \E i \in 1..n : a[i] = v
               /\ \A i, j \in 1..n : i < j => SoonerLex(p, a[i], a[j])
    BY ViewClockwise
  <1>3. r = Taking!Fold(c, <<>>, a)
    BY DEF ReplicaNodes, View!GetReplicaNodes, View!TakeReplica, TakeNode, Taking!Fold,
           Taking!FoldLeft, Taking!MapThenFoldSet, View!FoldOver, View!MapThenFoldSet, View!Max,
           Taking!Max, View!Range, Range
  <1> HIDE DEF a, r
  <1>4. PICK turn : Taking!Turning(c, <<>>, a, n, turn)
    BY <1>2, Taking!Turns
  <1>5. ASSUME NEW v \in RingOf(s)
        PROVE  /\ v.nodeId \in Members(s) /\ v.nodeId \in Node /\ v.index \in Index
               /\ v = VirtualNode(hash, v.nodeId, v.index)
    <2>1. \A w \in RingWith(hash, Members(s)) :
              /\ w.nodeId \in Members(s) /\ w.index \in Index
              /\ w = VirtualNode(hash, w.nodeId, w.index)
      BY <1>1, RingElements
    <2> QED
      BY <1>1, <2>1, Zenon
  <1> DEFINE P == {k \in Nat : k <= n => Taken(a, k, turn[k])}
  <1>6. 0 \in P
    <2>1. turn[0] = <<>> /\ <<>> \in Seq(Node) /\ Len(<<>>) = 0 /\ 1..0 = {}
      BY <1>4 DEF Taking!Turning
    <2>2. Taken(a, 0, <<>>)
      BY <2>1 DEF Taken
    <2> QED
      BY <2>1, <2>2
  <1>7. ASSUME NEW k \in 0..(n - 1), k \in P PROVE k + 1 \in P
    <2>1. k + 1 \in 1..n /\ (k + 1) - 1 = k /\ Taken(a, k, turn[k])
      BY <1>7
    <2>2. turn[k + 1] = TakeNode(c, turn[k], a[k + 1])
      BY <1>4, <2>1 DEF Taking!Turning
    <2>3. \A x \in 1..n : a[x].nodeId \in Node
      BY <1>2, <1>5
    <2>4. Taken(a, k + 1, TakeNode(c, turn[k], a[k + 1]))
      BY <2>1, <2>3, TakeOne
    <2> QED
      BY <2>1, <2>2, <2>4
  <1>8. P \in SUBSET Nat
    OBVIOUS
  <1> HIDE DEF P
  <1>9. Taken(a, n, r)
    <2>1. 0..n \subseteq P
      BY <1>6, <1>7, <1>8, Taking!UpTo
    <2>2. n \in P /\ turn[n] = r
      BY <1>3, <1>4, <2>1 DEF Taking!Turning
    <2> QED
      BY <2>2 DEF P
  <1>10. r \in Seq(Node) /\ DOMAIN r = 1..Len(r)
    BY <1>9 DEF Taken
  <1>11. Range(r) = Members(s)
    <2>1. ASSUME NEW i \in 1..Len(r) PROVE r[i] \in Members(s)
      <3>1. PICK x \in 1..n : a[x].nodeId = r[i]
        BY <1>9 DEF Taken
      <3> QED
        BY <1>2, <1>5, <3>1
    <2>2. ASSUME NEW m \in Members(s) PROVE \E i \in 1..Len(r) : r[i] = m
      <3>1. 0 \in Index
        BY ViewAssumption DEF Index
      <3>2. VirtualNode(hash, m, 0) \in RingOf(s)
        BY <1>1, <3>1 DEF RingWith
      <3>3. VirtualNode(hash, m, 0).nodeId = m
        BY DEF VirtualNode
      <3>4. PICK x \in 1..n : a[x] = VirtualNode(hash, m, 0)
        BY <1>2, <3>2
      <3>5. a[x].nodeId = m
        BY <3>3, <3>4, Zenon
      <3> QED
        BY <1>9, <3>5 DEF Taken
    <2> QED
      BY <1>10, <2>1, <2>2 DEF Range
  <1>12. ASSUME NEW i \in 1..Len(r), NEW j \in 1..Len(r), i < j PROVE Prior(hash, p, r[i], r[j])
    <2>1. PICK x \in 1..n : a[x].nodeId = r[i] /\ \A y \in 1..n : a[y].nodeId = r[j] => x < y
      BY <1>9, <1>12 DEF Taken
    <2>2. a[x].index \in Index /\ a[x] = VirtualNode(hash, r[i], a[x].index)
      <3>1. a[x] \in RingOf(s)
        BY <1>2
      <3> QED
        BY <1>5, <2>1, <3>1
    <2>3. r[j] \in Members(s)
      BY <1>10, <1>11 DEF Range
    <2>4. ASSUME NEW k \in Index
          PROVE  SoonerLex(p, VirtualNode(hash, r[i], a[x].index), VirtualNode(hash, r[j], k))
      <3>1. VirtualNode(hash, r[j], k) \in RingOf(s)
        BY <1>1, <2>3 DEF RingWith
      <3>2. VirtualNode(hash, r[j], k).nodeId = r[j]
        BY DEF VirtualNode
      <3>3. PICK y \in 1..n : a[y] = VirtualNode(hash, r[j], k)
        BY <1>2, <3>1
      <3>4. x < y
        BY <2>1, <3>2, <3>3
      <3> QED
        BY <1>2, <2>2, <3>3, <3>4
    <2> QED
      BY <2>2, <2>4 DEF Prior
  <1> QED
    BY <1>10, <1>11, <1>12 DEF r

\* What is kept of a list after k names: those of M, in the order of the list.
Kept(M, a, k, r) ==
    /\ r \in Seq(Node)
    /\ \A i \in 1..Len(r) : r[i] \in M /\ \E x \in 1..k : a[x] = r[i]
    /\ \A x \in 1..k : a[x] \in M => \E i \in 1..Len(r) : r[i] = a[x]

Follow(R, r) == \A i, j \in 1..Len(r) : i < j => <<r[i], r[j]>> \in R

LEMMA KeepOne ==
    ASSUME NEW n \in Nat, NEW k \in 0..(n - 1), NEW a, \A x \in 1..n : a[x] \in Node,
           NEW R, \A x, y \in 1..n : x < y => <<a[x], a[y]>> \in R,
           NEW M, NEW r, Kept(M, a, k, r), Follow(R, r)
    PROVE  /\ Kept(M, a, k + 1, Keep(M, r, a[k + 1]))
           /\ Follow(R, Keep(M, r, a[k + 1]))
PROOF
  <1> DEFINE m == a[k + 1]
             t == Keep(M, r, m)
  <1>1. /\ k \in Nat /\ k + 1 \in 1..n /\ k + 1 \in 1..(k + 1) /\ m \in Node
        /\ r \in Seq(Node) /\ Len(r) \in Nat
        /\ \A x : x \in 1..(k + 1) <=> (x \in 1..k \/ x = k + 1)
        /\ \A x \in 1..k : x \in 1..n /\ x < k + 1
    BY DEF Kept
  <1>2. /\ \A i \in 1..Len(r) : r[i] \in M /\ \E x \in 1..k : a[x] = r[i]
        /\ \A x \in 1..k : a[x] \in M => \E i \in 1..Len(r) : r[i] = a[x]
    BY DEF Kept
  <1>3. CASE m \in M
    <2>1. /\ t = Append(r, m) /\ t \in Seq(Node) /\ Len(t) = Len(r) + 1
          /\ t[Len(r) + 1] = m /\ \A i \in 1..Len(r) : t[i] = r[i]
      BY <1>1, <1>3 DEF Keep
    <2>2. \A i : i \in 1..Len(t) <=> (i \in 1..Len(r) \/ i = Len(r) + 1)
      BY <1>1, <2>1
    <2> HIDE DEF t
    <2>3. ASSUME NEW i \in 1..Len(t) PROVE t[i] \in M /\ \E x \in 1..(k + 1) : a[x] = t[i]
      <3>1. CASE i \in 1..Len(r)
        BY <1>1, <1>2, <2>1, <3>1
      <3>2. CASE i = Len(r) + 1
        BY <1>1, <1>3, <2>1, <3>2
      <3> QED
        BY <2>2, <3>1, <3>2
    <2>4. ASSUME NEW x \in 1..(k + 1), a[x] \in M PROVE \E i \in 1..Len(t) : t[i] = a[x]
      <3>1. CASE x \in 1..k
        BY <1>2, <2>1, <2>2, <2>4, <3>1
      <3>2. CASE x = k + 1
        BY <2>1, <2>2, <3>2
      <3> QED
        BY <1>1, <3>1, <3>2
    <2>5. ASSUME NEW i \in 1..Len(t), NEW j \in 1..Len(t), i < j PROVE <<t[i], t[j]>> \in R
      <3>1. i \in 1..Len(r) /\ t[i] = r[i]
        BY <1>1, <2>1, <2>2, <2>5
      <3>2. CASE j \in 1..Len(r)
        BY <2>1, <2>5, <3>1, <3>2 DEF Follow
      <3>3. CASE j = Len(r) + 1
        <4>1. PICK x \in 1..k : a[x] = r[i]
          BY <1>2, <3>1
        <4>2. <<a[x], m>> \in R
          BY <1>1
        <4> QED
          BY <2>1, <3>1, <3>3, <4>1, <4>2
      <3> QED
        BY <2>2, <3>2, <3>3
    <2> QED
      BY <2>1, <2>3, <2>4, <2>5 DEF Kept, Follow, t
  <1>4. CASE m \notin M
    <2>1. t = r
      BY <1>4 DEF Keep
    <2> HIDE DEF t
    <2>2. \A x \in 1..(k + 1) : a[x] \in M => x \in 1..k
      BY <1>1, <1>4
    <2>3. Kept(M, a, k + 1, r)
      BY <1>1, <1>2, <2>2 DEF Kept
    <2> QED
      BY <2>1, <2>3 DEF t
  <1> QED
    BY <1>3, <1>4

LEMMA KnownNames ==
    ASSUME NEW s, Members(s) \in SUBSET Node, NEW names \in Seq(Node), NEW R, Follow(R, names)
    PROVE  /\ Known(s, names) \in Seq(Node) /\ Follow(R, Known(s, names))
           /\ Range(Known(s, names)) = Range(names) \cap Members(s)
PROOF
  <1> DEFINE M == Members(s)
             n == Len(names)
             r == Known(s, names)
  <1>1. n \in Nat /\ DOMAIN names = 1..n /\ \A x \in 1..n : names[x] \in Node
    OBVIOUS
  <1>2. r = Keeping!Fold(M, <<>>, names)
    BY DEF Known, Keeping!Fold, Keeping!FoldLeft, FoldLeft, Keeping!MapThenFoldSet,
           MapThenFoldSet, Max, Keeping!Max
  <1> HIDE DEF r, M
  <1>3. PICK turn : Keeping!Turning(M, <<>>, names, n, turn)
    BY <1>1, Keeping!Turns
  <1>4. \A x, y \in 1..n : x < y => <<names[x], names[y]>> \in R
    BY DEF Follow
  <1> HIDE DEF n
  <1> DEFINE P == {k \in Nat : k <= n => Kept(M, names, k, turn[k]) /\ Follow(R, turn[k])}
  <1>5. 0 \in P
    <2>1. turn[0] = <<>> /\ <<>> \in Seq(Node) /\ Len(<<>>) = 0 /\ 1..0 = {}
      BY <1>3 DEF Keeping!Turning
    <2>2. Kept(M, names, 0, <<>>) /\ Follow(R, <<>>)
      BY <2>1 DEF Kept, Follow
    <2> QED
      BY <2>1, <2>2
  <1>6. ASSUME NEW k \in 0..(n - 1), k \in P PROVE k + 1 \in P
    <2>1. k + 1 \in 1..n /\ (k + 1) - 1 = k /\ Kept(M, names, k, turn[k]) /\ Follow(R, turn[k])
      BY <1>1, <1>6
    <2>2. turn[k + 1] = Keep(M, turn[k], names[k + 1])
      BY <1>3, <2>1 DEF Keeping!Turning
    <2>3. /\ Kept(M, names, k + 1, Keep(M, turn[k], names[k + 1]))
          /\ Follow(R, Keep(M, turn[k], names[k + 1]))
      BY <1>1, <1>4, <2>1, KeepOne
    <2> QED
      BY <2>1, <2>2, <2>3
  <1>7. P \in SUBSET Nat
    OBVIOUS
  <1> HIDE DEF P
  <1>8. Kept(M, names, n, r) /\ Follow(R, r)
    <2>1. 0..n \subseteq P
      BY <1>1, <1>5, <1>6, <1>7, Keeping!UpTo
    <2>2. n \in P /\ turn[n] = r
      BY <1>1, <1>2, <1>3, <2>1 DEF Keeping!Turning
    <2> QED
      BY <1>1, <2>2 DEF P
  <1>9. r \in Seq(Node) /\ DOMAIN r = 1..Len(r)
    BY <1>8 DEF Kept
  <1>10. Range(r) = Range(names) \cap M
    <2>1. \A i \in 1..Len(r) : r[i] \in M /\ \E x \in 1..n : names[x] = r[i]
      BY <1>8 DEF Kept
    <2>2. \A x \in 1..n : names[x] \in M => \E i \in 1..Len(r) : r[i] = names[x]
      BY <1>8 DEF Kept
    <2>3. Range(r) \subseteq Range(names) \cap M
      BY <1>1, <1>9, <2>1 DEF Range
    <2>4. Range(names) \cap M \subseteq Range(r)
      BY <1>1, <1>9, <2>2 DEF Range
    <2> QED
      BY <2>3, <2>4
  <1> QED
    BY <1>8, <1>9, <1>10 DEF r, M

-----------------------------------------------------------------------------
(* What two nodes answer.                                                  *)

LEMMA ReplicasAgree ==
    ASSUME Types, NEW s \in Server, NEW t \in Server, Members(s) \subseteq Members(t),
           Apart(s, t), NEW p \in Position
    PROVE  ReplicaNodes(s, p) = Known(s, ReplicaNodes(t, p))
PROOF
  <1> DEFINE R == {w \in Node \X Node : Prior(hash, p, w[1], w[2])}
             a == ReplicaNodes(s, p)
             b == Known(s, ReplicaNodes(t, p))
  <1>1. hash \in [Node \X Index -> Position] /\ Members(s) \in SUBSET Node
    BY OneRing DEF Types
  <1>2. ApartIn(RingOf(s)) /\ ApartIn(RingOf(t))
    BY DEF Apart, ApartIn
  <1>3. ASSUME NEW x, NEW y, <<x, y>> \in R PROVE <<y, x>> \notin R
    <2>1. x \in Node /\ y \in Node /\ Prior(hash, p, x, y)
      BY <1>3
    <2>2. ~Prior(hash, p, y, x)
      BY <1>1, <2>1, PriorIsAsymmetric
    <2> QED
      BY <2>2
  <1>4. ASSUME NEW u \in Server, ApartIn(RingOf(u))
        PROVE  /\ ReplicaNodes(u, p) \in Seq(Node) /\ Follow(R, ReplicaNodes(u, p))
               /\ Range(ReplicaNodes(u, p)) = Members(u)
    <2> DEFINE r == ReplicaNodes(u, p)
    <2>1. /\ r \in Seq(Node) /\ Range(r) = Members(u)
          /\ \A i, j \in 1..Len(r) : i < j => Prior(hash, p, r[i], r[j])
      BY <1>4, ViewReplicas
    <2> HIDE DEF r
    <2>2. \A i \in 1..Len(r) : r[i] \in Node
      BY <2>1
    <2>3. Follow(R, r)
      BY <2>1, <2>2 DEF Follow
    <2> QED
      BY <2>1, <2>3 DEF r
  <1>5. a \in Seq(Node) /\ Follow(R, a) /\ Range(a) = Members(s)
    BY <1>2, <1>4
  <1>6. /\ ReplicaNodes(t, p) \in Seq(Node) /\ Follow(R, ReplicaNodes(t, p))
        /\ Range(ReplicaNodes(t, p)) = Members(t)
    BY <1>2, <1>4
  <1> HIDE DEF R
  <1>7. b \in Seq(Node) /\ Follow(R, b) /\ Range(b) = Members(s)
    <2>1. ASSUME NEW names \in Seq(Node), Follow(R, names), Range(names) = Members(t)
          PROVE  /\ Known(s, names) \in Seq(Node) /\ Follow(R, Known(s, names))
                 /\ Range(Known(s, names)) = Members(s)
      <3>1. /\ Known(s, names) \in Seq(Node) /\ Follow(R, Known(s, names))
            /\ Range(Known(s, names)) = Range(names) \cap Members(s)
        BY <1>1, <2>1, KnownNames
      <3>2. Members(t) \cap Members(s) = Members(s)
        OBVIOUS
      <3> QED
        BY <2>1, <3>1, <3>2
    <2> QED
      BY <1>6, <2>1
  <1> HIDE DEF a, b
  <1>8. /\ Len(a) \in Nat /\ DOMAIN a = 1..Len(a) /\ Len(b) \in Nat /\ DOMAIN b = 1..Len(b)
        /\ a = [i \in 1..Len(a) |-> a[i]] /\ b = [i \in 1..Len(b) |-> b[i]]
    BY <1>5, <1>7
  <1>9. /\ \A i \in 1..Len(a) : \E j \in 1..Len(b) : a[i] = b[j]
        /\ \A j \in 1..Len(b) : \E i \in 1..Len(a) : b[j] = a[i]
    <2>1. /\ \A i \in 1..Len(a) : a[i] \in Range(b)
          /\ \A j \in 1..Len(b) : b[j] \in Range(a)
      BY <1>5, <1>7, <1>8 DEF Range
    <2> QED
      BY <1>8, <2>1 DEF Range
  <1>10. Len(a) = Len(b) /\ \A i \in 1..Len(a) : a[i] = b[i]
    <2> DEFINE m == Len(a)
               n == Len(b)
    <2>1. /\ m \in Nat /\ n \in Nat
          /\ Joining!Ascending(a, m, R) /\ Joining!Ascending(b, n, R)
          /\ Joining!Among(a, m, b, n) /\ Joining!Among(b, n, a, m)
          /\ Joining!Asymmetric(R)
      BY <1>3, <1>5, <1>7, <1>8, <1>9
         DEF Follow, Joining!Ascending, Joining!Among, Joining!Asymmetric
    <2> HIDE DEF m, n
    <2>2. m = n /\ \A i \in 1..m : a[i] = b[i]
      BY <2>1, Joining!OneOrder
    <2> QED
      BY <2>2 DEF m, n
  <1>11. a = b
    BY <1>8, <1>10
  <1> QED
    BY <1>11 DEF a, b

\* ClusterView!OnlyNewcomersDivide: a node that knows less than another differs
\* from it only about the keys of the nodes it has not heard of, in the lookup
\* and in the replicas, for any number of nodes and any two lists.
THEOREM NewcomersDivide == Spec => []OnlyNewcomersDivide
PROOF
  <1>1. TableInv => OnlyNewcomersDivide
    <2> SUFFICES ASSUME TableInv, NEW s \in Initialized, NEW t \in Initialized,
                        Members(s) \subseteq Members(t), Apart(s, t), NEW p \in Position
                 PROVE  /\ Lookup(s, p) = Lookup(t, p) \/ Lookup(t, p) \notin Members(s)
                        /\ ReplicaNodes(s, p) = Known(s, ReplicaNodes(t, p))
      BY DEF OnlyNewcomersDivide
    <2>1. Types /\ MembersAreConfigured /\ s \in Server /\ t \in Server
      BY DEF TableInv, Initialized
    <2>2. Members(s) # {} /\ Members(t) # {}
      BY <2>1 DEF MembersAreConfigured, Initialized
    <2>3. ApartIn(RingOf(s)) /\ ApartIn(RingOf(t))
      BY DEF Apart, ApartIn
    <2>4. /\ hash \in [Node \X Index -> Position]
          /\ Members(s) \in SUBSET Node /\ Members(t) \in SUBSET Node
      BY <2>1, OneRing DEF Types
    <2>5. /\ Lookup(s, p) \in Members(s)
          /\ \A m \in Members(s) \ {Lookup(s, p)} : Prior(hash, p, Lookup(s, p), m)
      BY <2>1, <2>2, <2>3, ViewLookup
    <2>6. /\ Lookup(t, p) \in Members(t)
          /\ \A m \in Members(t) \ {Lookup(t, p)} : Prior(hash, p, Lookup(t, p), m)
      BY <2>1, <2>2, <2>3, ViewLookup
    <2>7. ASSUME Lookup(t, p) \in Members(s) PROVE Lookup(s, p) = Lookup(t, p)
      <3> SUFFICES ASSUME Lookup(s, p) # Lookup(t, p) PROVE FALSE
        OBVIOUS
      <3>1. /\ Prior(hash, p, Lookup(s, p), Lookup(t, p))
            /\ Prior(hash, p, Lookup(t, p), Lookup(s, p))
            /\ Lookup(s, p) \in Node /\ Lookup(t, p) \in Node
        BY <2>4, <2>5, <2>6, <2>7
      <3> QED
        BY <2>4, <3>1, PriorIsAsymmetric
    <2> QED
      BY <2>1, <2>7, ReplicasAgree
  <1> QED
    BY <1>1, TableInvariant, PTL
=============================================================================
