------------------------------- MODULE HashRing -------------------------------
(***************************************************************************)
(* The consistent hash ring of a node: which node a key belongs to, which  *)
(* nodes replicate it and in which shard it lies, while nodes join and     *)
(* leave.                                                                  *)
(*                                                                         *)
(* The ring is an array sorted by position; JavaScript's sort is stable,   *)
(* so virtual nodes of one position stay in the order they were pushed.    *)
(* Here it is a set, and Before is the order of the array.  Hashing is any *)
(* function to positions, collisions included; a key is its position.      *)
(***************************************************************************)
EXTENDS Integers, Sequences, FiniteSetsExt, Functions

CONSTANTS
    Node,
    Replicas,     \* this.replicas: virtual nodes per unit of weight
    Weights,      \* the weights nodes are added with
    MaxPosition,  \* 0xFFFFFFFF
    Nil,          \* null
    MaxJoins      \* bound: how often a node is added

ASSUME RingAssumption ==
    /\ Replicas \in Nat \ {0}
    /\ Weights \subseteq Nat /\ \E most \in Weights : \A w \in Weights : w <= most
    /\ MaxPosition \in Nat /\ MaxJoins \in Nat

VARIABLES
    hash,    \* the position md5 gives to a virtual node: any function
    joined,  \* this.nodes: when a node was added, 0 if it is not a member
    joins,   \* how often a node was added so far
    ring,    \* this.ring
    shards   \* this.shards

vars == <<hash, joined, joins, ring, shards>>

Position == 0..MaxPosition
Index == 0..(Replicas * Max(Weights) - 1)
VirtualNode == [nodeId : Node, index : Index, position : Position]
Shard == [nodeId : Node, number : Nat, start : Position, end : Position]
Members == {n \in Node : joined[n] # 0}

ASSUME NilAssumption == Nil \notin Node \cup Shard

\* u stands before v in the array: by position, then as they were pushed.
Before(u, v) ==
    \/ u.position < v.position
    \/ /\ u.position = v.position
       /\ \/ joined[u.nodeId] < joined[v.nodeId]
          \/ u.nodeId = v.nodeId /\ u.index < v.index

\* The elements of S as a sorted array: each where as many are before it.
Sorted(S, before(_, _)) ==
    [i \in 1..Cardinality(S) |->
        CHOOSE v \in S : Cardinality({u \in S : before(u, v)}) = i - 1]

\* A loop over an array.  This is FoldLeft of SequencesExt, a module that the
\* proof system does not instantiate with a parameter, as ClusterView does.
FoldOver(op(_, _), base, array) ==
    MapThenFoldSet(LAMBDA e, r : op(r, e), base, LAMBDA i : array[i], LAMBDA S : Max(S), DOMAIN array)

First(S) == CHOOSE v \in S : \A u \in S \ {v} : Before(v, u)

-----------------------------------------------------------------------------
(* Lookup.                                                                 *)

\* Mutant: a key past the last virtual node stays with the last one.
GetNodeUnwrapped(p) ==
    LET from == {v \in ring : v.position >= p} IN
    IF ring = {} THEN Nil
    ELSE IF from # {} THEN First(from).nodeId
    ELSE (CHOOSE v \in ring : \A u \in ring \ {v} : Before(u, v)).nodeId

\* The first virtual node at the key's position or after it, around the end.
GetNode(p) ==
    LET from == {v \in ring : v.position >= p} IN
    IF ring = {} THEN Nil
    ELSE IF from # {} THEN First(from).nodeId
    ELSE First(ring).nodeId

\* Which of two virtual nodes is read first, from position p on and around the
\* end of the array.
Sooner(p, u, v) ==
    IF u.position >= p <=> v.position >= p THEN Before(u, v) ELSE u.position >= p

Clockwise(p) == Sorted(ring, LAMBDA u, v : Sooner(p, u, v))

\* Mutant: nodes are not remembered as seen.
TakeReplicaAgain(count, replicas, v) ==
    IF Len(replicas) < count THEN Append(replicas, v.nodeId) ELSE replicas

\* The loop ends when there are enough nodes; a node is taken once.
TakeReplica(count, replicas, v) ==
    IF Len(replicas) < count /\ v.nodeId \notin Range(replicas)
    THEN Append(replicas, v.nodeId) ELSE replicas

\* Mutant: the loop looks at no more virtual nodes than it wants replicas.
GetReplicaNodesShort(p, count) ==
    LET n == IF count < Len(Clockwise(p)) THEN count ELSE Len(Clockwise(p)) IN
    FoldOver(LAMBDA replicas, v : TakeReplica(count, replicas, v), <<>>,
             SubSeq(Clockwise(p), 1, n))

GetReplicaNodes(p, count) ==
    FoldOver(LAMBDA replicas, v : TakeReplica(count, replicas, v), <<>>, Clockwise(p))

-----------------------------------------------------------------------------
(* Shards.                                                                 *)

Mine(n) == {v \in ring : v.nodeId = n}

\* The next virtual node of the same node, the first one after the last.
Successor(v) ==
    LET later == {u \in Mine(v.nodeId) : Before(v, u)} IN
    First(IF later # {} THEN later ELSE Mine(v.nodeId))

\* Mutant: the last shard of a node is not open to the end.
ShardEndUnwrapped(v) ==
    IF Mine(v.nodeId) # {v} THEN Successor(v).position - 1 ELSE MaxPosition

ShardEnd(v) ==
    IF Successor(v).position > v.position THEN Successor(v).position - 1 ELSE MaxPosition

\* One shard for each virtual node, up to the next one of the same node.
ShardsOfRing ==
    {[nodeId |-> v.nodeId,
      number |-> Cardinality({u \in Mine(v.nodeId) : Before(u, v)}),
      start |-> v.position, end |-> ShardEnd(v)] : v \in ring}

IsKeyInShard(p, s) == s.start <= p /\ p <= s.end

\* The first shard of the key's node that contains it.
GetShardForKey(p) ==
    LET found == {s \in shards : s.nodeId = GetNode(p) /\ IsKeyInShard(p, s)} IN
    IF found = {} THEN Nil
    ELSE CHOOSE s \in found : \A t \in found : s.number <= t.number

-----------------------------------------------------------------------------
Init ==
    /\ hash \in [Node \X Index -> Position]
    /\ joined = [n \in Node |-> 0]
    /\ joins = 0
    /\ ring = {}
    /\ shards = {}

AddNode(n, weight) ==
    /\ n \notin Members
    /\ joins < MaxJoins
    /\ joins' = joins + 1
    /\ joined' = [joined EXCEPT ![n] = joins + 1]
    /\ ring' = ring \cup {[nodeId |-> n, index |-> i, position |-> hash[<<n, i>>]] :
                             i \in 0..(Replicas * weight - 1)}
    /\ shards' = ShardsOfRing'
    /\ UNCHANGED hash

\* Mutant: virtual nodes are removed by their position.
RemoveNodeByPosition(n) ==
    /\ n \in Members
    /\ ring' = {v \in ring : \A u \in Mine(n) : u.position # v.position}
    /\ joined' = [joined EXCEPT ![n] = 0]
    /\ shards' = ShardsOfRing'
    /\ UNCHANGED <<hash, joins>>

RemoveNode(n) ==
    /\ n \in Members
    /\ ring' = {v \in ring : v.nodeId # n}
    /\ joined' = [joined EXCEPT ![n] = 0]
    /\ shards' = ShardsOfRing'
    /\ UNCHANGED <<hash, joins>>

Next ==
    \E n \in Node :
        \/ \E weight \in Weights : AddNode(n, weight)
        \/ RemoveNode(n)

Spec == Init /\ [][Next]_vars

-----------------------------------------------------------------------------
TypeOK ==
    /\ hash \in [Node \X Index -> Position]
    /\ joined \in [Node -> 0..MaxJoins]
    /\ joins \in 0..MaxJoins
    /\ ring \subseteq VirtualNode
    /\ shards \subseteq Shard /\ \A s \in shards : s.number \in Index

\* The way clockwise from a position to another, around the ring.
Distance(p, q) == (q - p) % (MaxPosition + 1)

\* Consistent hashing: the loop over the array, which ends at the first
\* position that is large enough or else starts over, finds a virtual node
\* of the nearest position clockwise, and of several there the node that
\* joined first: a function of the members and their order alone.
LookupIsClockwise ==
    \A p \in Position :
        IF ring = {} THEN GetNode(p) = Nil
        ELSE LET nearest == {v \in ring : \A u \in ring :
                                 Distance(p, v.position) <= Distance(p, u.position)}
             IN \E v \in nearest :
                    /\ GetNode(p) = v.nodeId
                    /\ \A u \in nearest : joined[v.nodeId] <= joined[u.nodeId]

\* The replicas of a key, found by a loop of their own, are different nodes,
\* the key's node first, and as many as asked for or as there are.
ReplicasAreNodes ==
    \A p \in Position, count \in 1..Cardinality(Node) :
        LET replicas == GetReplicaNodes(p, count)
            placed == {v.nodeId : v \in ring}
        IN /\ Cardinality(Range(replicas)) = Len(replicas)
           /\ Range(replicas) \subseteq placed
           /\ Len(replicas) = IF count < Cardinality(placed) THEN count ELSE Cardinality(placed)
           /\ ring # {} => replicas[1] = GetNode(p)

\* A key has a shard unless it lies before every virtual node of its node:
\* a node's shards leave no gap after the first one, up to the last position.
ShardsCoverTheRest ==
    \A p \in Position : ring # {} =>
        (GetShardForKey(p) = Nil <=> \A v \in Mine(GetNode(p)) : p < v.position)

\* Data movement is minimal: a key moves only to a node that has just joined
\* or from one that has just left.
OnlyNecessaryMoves ==
    [][\A p \in Position : GetNode(p)' # GetNode(p) =>
           GetNode(p) \notin Members' \/ GetNode(p)' \notin Members]_vars

\* When a key's node leaves, the key goes to the node that already held its
\* second replica.
FailoverToReplica ==
    [][\A p \in Position :
           GetNode(p) \in Members \ Members' /\ ring' # {} =>
               GetNode(p)' = GetReplicaNodes(p, 2)[2]]_vars
=============================================================================
