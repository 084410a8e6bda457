----------------------------- MODULE ShardManager -----------------------------
(***************************************************************************)
(* The shard manager: a hash ring, the operations that move shards between *)
(* nodes, and the metrics kept for each shard.                             *)
(*                                                                         *)
(* removeNode and rebalance await scheduleShardMigration, which waits for  *)
(* nothing: they run to their end before another request does, and are one *)
(* action here.  executeShardOperation really waits, 100 ms, between its   *)
(* two assignments of the status.  An operation's id is its index.         *)
(***************************************************************************)
EXTENDS HashRing

CONSTANTS
    Threshold,     \* rebalanceThreshold, in percent
    Requests,      \* the migrations that clients ask for; a target may be null
    MaxOperations  \* bound: how many operations are scheduled

VARIABLES
    operations,  \* this.shardOperations
    metrics      \* the ids of the shards that this.shardMetrics knows

managerVars == <<vars, operations, metrics>>

ShardId == Node \X Index
Request == [shard : ShardId, source : Node, target : Node \cup {Nil}]

ASSUME ManagerAssumption ==
    Threshold \in Nat /\ MaxOperations \in Nat /\ Requests \subseteq Request

-----------------------------------------------------------------------------
(* What the manager reads off the ring.                                    *)

Count(n) == Cardinality(Mine(n))
Placed == {v.nodeId : v \in ring}
Total == Cardinality(ring)

IdsOf(n, all) == {<<s.nodeId, s.number>> : s \in {t \in all : t.nodeId = n}}

\* Nodes come in the order of their first virtual nodes.
Ahead(m, n) == Before(First(Mine(m)), First(Mine(n)))
InOrder(T) == Sorted(T, LAMBDA m, n : Ahead(m, n))

\* Mutant: the source may be its own best target.
FindBestTargetNodeOfAll(source) ==
    LET least == {n \in Placed : \A m \in Placed : Count(n) <= Count(m)}
    IN  IF least = {} THEN source
        ELSE CHOOSE n \in least : \A m \in least \ {n} : Ahead(n, m)

\* Mutant: no target when there is no other node.
FindBestTargetNodeOrNone(source) ==
    LET others == Placed \ {source}
        least == {n \in others : \A m \in others : Count(n) <= Count(m)}
    IN  IF least = {} THEN Nil
        ELSE CHOOSE n \in least : \A m \in least \ {n} : Ahead(n, m)

\* The first of the nodes with the fewest shards, the source excluded; the
\* source if no other node has any.
FindBestTargetNode(source) ==
    LET others == Placed \ {source}
        least == {n \in others : \A m \in others : Count(n) <= Count(m)}
    IN  IF least = {} THEN source
        ELSE CHOOSE n \in least : \A m \in least \ {n} : Ahead(n, m)

\* The operation that scheduleShardMigration creates.
Move(shard, source, target) ==
    [shard |-> shard, source |-> source, status |-> "pending",
     target |-> IF target = Nil THEN FindBestTargetNode(source) ELSE target]

ScheduleAll(moves) ==
    /\ Len(operations) + Len(moves) <= MaxOperations
    /\ operations' = operations \o moves

-----------------------------------------------------------------------------
(* Rebalancing, in exact arithmetic.                                       *)

\* The standard deviation of the numbers of shards is above the threshold;
\* nodes without a shard count here.
NeedsRebalancing ==
    LET n == Cardinality(Members)
        squares == FoldSet(LAMBDA m, sum : sum + Count(m) * Count(m), 0, Placed)
    IN  10000 * (n * squares - Total * Total) > Threshold * Threshold * n * n

\* Above, and below, the average by the threshold; nodes without a shard do
\* not count here.
Overloaded  == {n \in Placed : 100 * Count(n) * Cardinality(Placed) > (100 + Threshold) * Total}
Underloaded == {n \in Placed : 100 * Count(n) * Cardinality(Placed) < (100 - Threshold) * Total}

\* Mutant: rounded up.
ExcessUp(n) == (Count(n) * Cardinality(Placed) - Total + Cardinality(Placed) - 1) \div Cardinality(Placed)

\* How many shards a node has more than the average, rounded down.
Excess(n) == (Count(n) * Cardinality(Placed) - Total) \div Cardinality(Placed)

\* The first shards of an overloaded node, to the underloaded ones in turn.
MovesFrom(source) ==
    LET under == InOrder(Underloaded)
    IN  [i \in 1..Excess(source) |->
            Move(<<source, i - 1>>, source,
                 IF Underloaded = {} THEN Nil ELSE under[((i - 1) % Len(under)) + 1])]

RebalancingMoves ==
    FoldOver(LAMBDA moves, source : moves \o MovesFrom(source), <<>>, InOrder(Overloaded))

-----------------------------------------------------------------------------
ManagerInit ==
    /\ Init
    /\ operations = <<>>
    /\ metrics = {}

AddMember(n, weight) ==
    /\ AddNode(n, weight)
    /\ metrics' = metrics \cup IdsOf(n, shards')
    /\ UNCHANGED operations

\* Every shard of the node is to move; then the ring drops it.  The metrics to
\* clean up are looked up in the ring that has dropped it.
RemoveMember(n) ==
    /\ ScheduleAll([i \in 1..Count(n) |-> Move(<<n, i - 1>>, n, Nil)])
    /\ RemoveNode(n)
    /\ metrics' = metrics \ IdsOf(n, shards')

ScheduleShardMigration(r) ==
    /\ ScheduleAll(<<Move(r.shard, r.source, r.target)>>)
    /\ UNCHANGED <<vars, metrics>>

Rebalance ==
    /\ NeedsRebalancing
    /\ RebalancingMoves # <<>>
    /\ ScheduleAll(RebalancingMoves)
    /\ UNCHANGED <<vars, metrics>>

\* Mutant: an operation is not refused when it is running or done.
ExecuteShardOperationAgain(i) ==
    /\ operations' = [operations EXCEPT ![i].status = "in_progress"]
    /\ UNCHANGED <<vars, metrics>>

ExecuteShardOperation(i) ==
    /\ operations[i].status = "pending"
    /\ operations' = [operations EXCEPT ![i].status = "in_progress"]
    /\ UNCHANGED <<vars, metrics>>

\* The simulated move has ended, always in success.
ExecuteShardMove(i) ==
    /\ operations[i].status = "in_progress"
    /\ operations' = [operations EXCEPT ![i].status = "completed"]
    /\ UNCHANGED <<vars, metrics>>

ManagerNext ==
    \/ \E n \in Node, weight \in Weights : AddMember(n, weight)
    \/ \E n \in Node : RemoveMember(n)
    \/ \E r \in Requests : ScheduleShardMigration(r)
    \/ Rebalance
    \/ \E i \in DOMAIN operations : ExecuteShardOperation(i) \/ ExecuteShardMove(i)

ManagerSpec == ManagerInit /\ [][ManagerNext]_managerVars

-----------------------------------------------------------------------------
Operation == [shard : ShardId, source : Node, target : Node,
              status : {"pending", "in_progress", "completed"}]

\* Every shard of the ring has metrics, through joins, leaves and returns
\* with another weight, although only the node that joins is looked at.
EveryShardHasMetrics == \A n \in Node : IdsOf(n, shards) \subseteq metrics

ManagerTypeOK ==
    /\ TypeOK
    /\ operations \in Seq(Operation)
    /\ metrics \subseteq ShardId
    /\ EveryShardHasMetrics

\* An operation runs once: whoever asks again, before, while or after it runs,
\* its status goes on from one to the next and nothing else of it changes.
OperationsRunOnce ==
    [][\A i \in DOMAIN operations :
          /\ i \in DOMAIN operations'
          /\ operations'[i] # operations[i] =>
                \/ /\ operations[i].status = "pending"
                   /\ operations'[i] = [operations[i] EXCEPT !.status = "in_progress"]
                \/ /\ operations[i].status = "in_progress"
                   /\ operations'[i] = [operations[i] EXCEPT !.status = "completed"]]_managerVars

Scheduled == SubSeq(operations', Len(operations) + 1, Len(operations'))

\* When a node leaves, each of its shards is scheduled to move to one and the
\* same node, one that stays; only the last node with shards has nowhere to
\* move them.
LeaversShardsMoveToStayers ==
    [][\A n \in Members \ Members' : \E target \in Node :
          /\ Placed \ {n} # {} => target \in Placed \ {n}
          /\ \A id \in IdsOf(n, shards) : \E i \in DOMAIN Scheduled :
                 Scheduled[i].shard = id /\ Scheduled[i].target = target]_managerVars

\* A rebalancing, which schedules all its moves on one look at the ring, takes
\* no node below the average, and no shard to a node that has as many.
RebalancingEvensOut ==
    [][Scheduled # <<>> /\ Rebalance =>
          \A n \in Placed :
              LET gone == {i \in DOMAIN Scheduled : Scheduled[i].source = n}
              IN  /\ gone # {} => (Count(n) - Cardinality(gone)) * Cardinality(Placed) >= Total
                  /\ Cardinality({Scheduled[i].shard : i \in gone}) = Cardinality(gone)
                  /\ \A i \in gone : Count(Scheduled[i].target) < Count(n)]_managerVars
=============================================================================
