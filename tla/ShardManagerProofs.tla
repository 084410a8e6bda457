-------------------------- MODULE ShardManagerProofs --------------------------
(* The hash ring and the shard manager on it, proved for any number of nodes, *)
(* weights, virtual nodes, positions and operations, and for every hash       *)
(* function: first the ring alone, then the manager's operations.             *)
EXTENDS ShardManager, FiniteSetTheorems, SequenceTheorems, TLAPS

\* The loop of getReplicaNodes.
Loop == INSTANCE LoopLemmas WITH Op <- TakeReplica

\* What makes the order of the array an order: members joined one by one, and
\* a virtual node is known by its node and its index.
RingInv ==
    /\ hash \in [Node \X Index -> Position]
    /\ joins \in Nat
    /\ joined \in [Node -> 0..joins]
    /\ \A m, n \in Members : joined[m] = joined[n] => m = n
    /\ ring \subseteq VirtualNode
    /\ \A v \in ring : v.nodeId \in Members /\ v.position = hash[<<v.nodeId, v.index>>]

-----------------------------------------------------------------------------
(* Numbers.                                                                *)

\* The indexes of a node with any weight are indexes.
LEMMA LargestWeight ==
    /\ Max(Weights) \in Weights /\ \A x \in Weights : Max(Weights) >= x
    /\ Replicas * Max(Weights) - 1 \in Int
PROOF
  <1>1. Max(Weights) \in Weights /\ \A x \in Weights : Max(Weights) >= x
    BY RingAssumption DEF Max
  <1>2. Max(Weights) \in Nat /\ Replicas \in Nat
    BY <1>1, RingAssumption
  <1>3. \A a, b \in Nat : a * b - 1 \in Int
    BY Z3
  <1> QED
    BY <1>1, <1>2, <1>3

LEMMA IndexesOfWeight ==
    ASSUME NEW w \in Weights
    PROVE  0..(Replicas * w - 1) \subseteq Index
PROOF
  <1>1. Max(Weights) \in Weights /\ \A x \in Weights : Max(Weights) >= x
    BY LargestWeight
  <1>2. \A a, b, c \in Nat : (a <= b => c * a <= c * b) /\ c * a \in Nat
    BY Z3
  <1>3. w \in Nat /\ Max(Weights) \in Nat /\ Replicas \in Nat /\ w <= Max(Weights)
    BY <1>1, RingAssumption
  <1>4. /\ Replicas * w <= Replicas * Max(Weights)
        /\ Replicas * w \in Nat /\ Replicas * Max(Weights) \in Nat
    BY <1>2, <1>3
  <1> QED
    BY <1>4 DEF Index

-----------------------------------------------------------------------------
(* The order of the array.                                                 *)

LEMMA FieldTypes ==
    ASSUME RingInv, NEW v \in ring
    PROVE  /\ v.nodeId \in Members /\ v.nodeId \in Node
           /\ v.index \in Nat /\ v.index \in Index
           /\ v.position \in Nat /\ v.position \in Position
           /\ joined[v.nodeId] \in Nat
PROOF
  <1>1. v \in VirtualNode /\ v.nodeId \in Members
    BY DEF RingInv
  <1>2. v.nodeId \in Node /\ v.index \in Index /\ v.position \in Position
    BY <1>1 DEF VirtualNode
  <1>3. v.index \in Nat /\ v.position \in Nat
    BY <1>2 DEF Index, Position
  <1>4. joined[v.nodeId] \in 0..joins
    BY <1>2 DEF RingInv
  <1> QED
    BY <1>1, <1>2, <1>3, <1>4

LEMMA SameVirtualNode ==
    ASSUME RingInv, NEW u \in ring, NEW v \in ring,
           joined[u.nodeId] = joined[v.nodeId], u.index = v.index
    PROVE  u = v
PROOF
  <1>1. u.nodeId = v.nodeId
    BY FieldTypes DEF RingInv
  <1>2. u.position = v.position
    BY <1>1 DEF RingInv
  <1>3. \A x \in ring : x = [nodeId |-> x.nodeId, index |-> x.index, position |-> x.position]
    BY DEF RingInv, VirtualNode
  <1>4. /\ u = [nodeId |-> u.nodeId, index |-> u.index, position |-> u.position]
        /\ v = [nodeId |-> v.nodeId, index |-> v.index, position |-> v.position]
    BY <1>3
  <1>5. [nodeId |-> u.nodeId, index |-> u.index, position |-> u.position]
            = [nodeId |-> v.nodeId, index |-> v.index, position |-> v.position]
    BY <1>1, <1>2
  <1> QED
    BY <1>4, <1>5, Zenon

\* Of two virtual nodes one stands before the other, and not both.
LEMMA BeforeIsTotal ==
    ASSUME RingInv, NEW u \in ring, NEW v \in ring, u # v
    PROVE  Before(u, v) <=> ~Before(v, u)
PROOF
  <1>1. /\ u.nodeId = v.nodeId => u.index # v.index
        /\ joined[u.nodeId] = joined[v.nodeId] => u.nodeId = v.nodeId
    BY SameVirtualNode, FieldTypes DEF RingInv
  <1> QED
    BY <1>1, FieldTypes DEF Before

\* Every part of the ring has a first virtual node, and First finds it.
LEMMA FirstExists ==
    ASSUME RingInv, NEW S \in SUBSET ring, S # {}
    PROVE  First(S) \in S /\ \A u \in S \ {First(S)} : Before(First(S), u)
PROOF
  <1>1. PICK a \in S : \A u \in S : a.position <= u.position
    <2> DEFINE T == {u.position : u \in S}
    <2>1. T \in SUBSET Nat /\ T # {}
      BY FieldTypes
    <2>2. PICK x \in T : \A y \in T : x <= y
      BY <2>1, Loop!LeastNumber
    <2> QED
      BY <2>2
  <1> DEFINE A == {u \in S : u.position = a.position}
  <1>2. PICK b \in A : \A u \in A : joined[b.nodeId] <= joined[u.nodeId]
    <2> DEFINE T == {joined[u.nodeId] : u \in A}
    <2>1. T \in SUBSET Nat /\ T # {}
      BY FieldTypes
    <2>2. PICK x \in T : \A y \in T : x <= y
      BY <2>1, Loop!LeastNumber
    <2> QED
      BY <2>2
  <1> DEFINE B == {u \in A : u.nodeId = b.nodeId}
  <1>3. PICK c \in B : \A u \in B : c.index <= u.index
    <2> DEFINE T == {u.index : u \in B}
    <2>1. T \in SUBSET Nat /\ T # {}
      BY FieldTypes
    <2>2. PICK x \in T : \A y \in T : x <= y
      BY <2>1, Loop!LeastNumber
    <2> QED
      BY <2>2
  <1>4. \A u \in S \ {c} : Before(c, u)
    <2> TAKE u \in S \ {c}
    <2>1. c \in S /\ c.position = a.position /\ c.nodeId = b.nodeId
      OBVIOUS
    <2>2. CASE u.position # a.position
      <3>1. c.position < u.position
        BY <1>1, <2>1, <2>2, FieldTypes
      <3> QED
        BY <3>1 DEF Before
    <2>3. CASE u.position = a.position /\ u.nodeId # b.nodeId
      <3>1. joined[c.nodeId] <= joined[u.nodeId]
        BY <1>2, <2>1, <2>3
      <3>2. joined[c.nodeId] # joined[u.nodeId]
        BY <2>1, <2>3, FieldTypes DEF RingInv
      <3>3. joined[c.nodeId] < joined[u.nodeId]
        BY <2>1, <3>1, <3>2, FieldTypes
      <3> QED
        BY <2>1, <2>3, <3>3 DEF Before
    <2>4. CASE u.position = a.position /\ u.nodeId = b.nodeId
      <3>1. c.index <= u.index
        BY <1>3, <2>4
      <3>2. c.index # u.index
        BY <2>1, <2>4, SameVirtualNode
      <3>3. c.index < u.index
        BY <2>1, <3>1, <3>2, FieldTypes
      <3> QED
        BY <2>1, <2>4, <3>3 DEF Before
    <2> QED
      BY <2>2, <2>3, <2>4
  <1> QED
    BY <1>4 DEF First

\* It is the only one.
LEMMA FirstIsUnique ==
    ASSUME RingInv, NEW S \in SUBSET ring, NEW v \in S, \A u \in S \ {v} : Before(v, u)
    PROVE  First(S) = v
PROOF
  <1>1. First(S) \in S /\ \A u \in S \ {First(S)} : Before(First(S), u)
    BY FirstExists
  <1> SUFFICES ASSUME First(S) # v PROVE FALSE
    OBVIOUS
  <1>2. Before(First(S), v) /\ Before(v, First(S))
    BY <1>1
  <1> QED
    BY <1>1, <1>2, BeforeIsTotal

\* The two facts, in a form that holds of the next state as well.
FirstIsFirst ==
    /\ \A S \in SUBSET ring : S # {} =>
           First(S) \in S /\ \A u \in S \ {First(S)} : Before(First(S), u)
    /\ \A S \in SUBSET ring, v \in ring :
           v \in S /\ (\A u \in S \ {v} : Before(v, u)) => First(S) = v

LEMMA FirstHere == RingInv => FirstIsFirst
PROOF
  BY FirstExists, FirstIsUnique DEF FirstIsFirst

LEMMA FirstNext == RingInv' => FirstIsFirst'
PROOF
  BY FirstHere, PTL

-----------------------------------------------------------------------------
(* The invariant.                                                          *)

LEMMA InitInv == Init => RingInv
PROOF
  BY DEF Init, RingInv, Members

LEMMA AddNodeInv ==
    ASSUME RingInv, NEW n \in Node, NEW weight \in Weights, AddNode(n, weight)
    PROVE  RingInv'
PROOF
  <1> DEFINE I == 0..(Replicas * weight - 1)
             new == {[nodeId |-> n, index |-> i, position |-> hash[<<n, i>>]] : i \in I}
  <1>1. /\ n \notin Members /\ joins' = joins + 1
        /\ joined' = [joined EXCEPT ![n] = joins + 1]
        /\ ring' = ring \cup new /\ hash' = hash
    BY DEF AddNode
  <1>2. I \subseteq Index
    BY IndexesOfWeight
  <1> HIDE DEF I
  <1>3. /\ joins \in Nat /\ joined \in [Node -> 0..joins]
        /\ hash \in [Node \X Index -> Position]
    BY DEF RingInv
  <1>4. Members' = Members \cup {n} /\ \A m \in Members : m # n /\ joined'[m] = joined[m]
    BY <1>1, <1>3 DEF Members
  <1>5. joins' \in Nat /\ joined' \in [Node -> 0..joins'] /\ joined'[n] = joins + 1
    BY <1>1, <1>3
  <1>6. \A l, m \in Members' : joined'[l] = joined'[m] => l = m
    <2>1. \A m \in Members : joined'[m] \in 0..joins
      BY <1>3, <1>4 DEF Members
    <2>2. \A m \in Members : joined'[m] # joined'[n]
      BY <1>3, <1>5, <2>1
    <2> QED
      BY <1>4, <2>2 DEF RingInv
  <1>7. ASSUME NEW v \in new
        PROVE  v \in VirtualNode /\ v.nodeId = n /\ v.position = hash[<<v.nodeId, v.index>>]
    <2>1. PICK i \in I : v = [nodeId |-> n, index |-> i, position |-> hash[<<n, i>>]]
      OBVIOUS
    <2>2. i \in Index /\ hash[<<n, i>>] \in Position
      BY <1>2, <1>3
    <2> QED
      BY <2>1, <2>2 DEF VirtualNode
  <1> HIDE DEF new
  <1>8. ring' \subseteq VirtualNode
    BY <1>1, <1>7 DEF RingInv
  <1>9. \A v \in ring' : v.nodeId \in Members' /\ v.position = hash'[<<v.nodeId, v.index>>]
    BY <1>1, <1>4, <1>7 DEF RingInv
  <1>10. hash' \in [Node \X Index -> Position]
    BY <1>1, <1>3
  <1>11. UNCHANGED VirtualNode
    BY DEF VirtualNode, Index, Position
  <1> QED
    BY <1>5, <1>6, <1>8, <1>9, <1>10, <1>11 DEF RingInv

LEMMA RemoveNodeInv ==
    ASSUME RingInv, NEW n \in Node, RemoveNode(n)
    PROVE  RingInv'
PROOF
  <1>1. /\ joined' = [joined EXCEPT ![n] = 0] /\ UNCHANGED <<hash, joins>>
        /\ ring' = {v \in ring : v.nodeId # n}
    BY DEF RemoveNode
  <1>2. joins \in Nat /\ joined \in [Node -> 0..joins]
    BY DEF RingInv
  <1>3. Members' = Members \ {n} /\ \A m \in Members' : joined'[m] = joined[m]
    BY <1>1, <1>2 DEF Members
  <1>4. joins' \in Nat /\ joined' \in [Node -> 0..joins']
    BY <1>1, <1>2
  <1>5. \A l, m \in Members' : joined'[l] = joined'[m] => l = m
    BY <1>3 DEF RingInv
  <1>6. \A v \in ring' : v.nodeId \in Members' /\ v.position = hash'[<<v.nodeId, v.index>>]
    BY <1>1, <1>3 DEF RingInv
  <1>7. ring' \subseteq VirtualNode /\ hash' \in [Node \X Index -> Position]
    BY <1>1 DEF RingInv
  <1> QED
    BY <1>4, <1>5, <1>6, <1>7 DEF RingInv, VirtualNode, Index, Position

LEMMA InvNext == RingInv /\ [Next]_vars => RingInv'
PROOF
  <1> SUFFICES ASSUME RingInv, [Next]_vars PROVE RingInv'
    OBVIOUS
  <1>1. CASE UNCHANGED vars
    BY <1>1 DEF vars, RingInv, Members, VirtualNode, Index, Position
  <1> QED
    BY <1>1, AddNodeInv, RemoveNodeInv DEF Next

LEMMA Invariant == Spec => []RingInv
PROOF
  BY InitInv, InvNext, PTL DEF Spec

-----------------------------------------------------------------------------
(* Lookup.                                                                 *)

\* Where the search for a key starts: at the virtual nodes from its position
\* on, or else at all of them.
From(p) == {v \in ring : v.position >= p}
Start(p) == IF From(p) # {} THEN From(p) ELSE ring

LEMMA GetNodeIsFirst ==
    ASSUME NEW p
    PROVE  GetNode(p) = IF ring = {} THEN Nil ELSE First(Start(p)).nodeId
PROOF
  BY DEF GetNode, From, Start

LEMMA GetNodeIsFirstNext ==
    ASSUME NEW p
    PROVE  GetNode(p)' = IF ring' = {} THEN Nil ELSE First(Start(p))'.nodeId
PROOF
  BY DEF GetNode, From, Start

\* The way around the end is longer than any that does not go around it.
LEMMA DistanceIs ==
    ASSUME NEW p \in Position, NEW q \in Position
    PROVE  Distance(p, q) = IF q >= p THEN q - p ELSE q - p + MaxPosition + 1
PROOF
  <1> DEFINE M == MaxPosition + 1
  <1>1. /\ p \in Nat /\ q \in Nat /\ M \in Nat \ {0} /\ p < M /\ q < M
    BY RingAssumption DEF Position
  <1>2. \A a \in Int : a >= 0 /\ a < M => a % M = a
    BY <1>1, Z3
  <1>3. \A a \in Int : a < 0 /\ a >= -M => a % M = a + M
    BY <1>1, Z3
  <1>4. Distance(p, q) = (q - p) % M
    BY DEF Distance
  <1>5. q >= p => q - p >= 0 /\ q - p < M
    BY <1>1
  <1>6. ~(q >= p) => q - p < 0 /\ q - p >= -M
    BY <1>1
  <1>7. q - p \in Int
    BY <1>1
  <1>8. q >= p => Distance(p, q) = q - p
    BY <1>2, <1>4, <1>5, <1>7
  <1>9. ~(q >= p) => Distance(p, q) = q - p + M
    BY <1>3, <1>4, <1>6, <1>7
  <1> QED
    BY <1>1, <1>8, <1>9, RingAssumption

LEMMA LookupFollows == RingInv => LookupIsClockwise
PROOF
  <1> SUFFICES ASSUME RingInv, NEW p \in Position
               PROVE  IF ring = {} THEN GetNode(p) = Nil
                      ELSE LET nearest == {v \in ring : \A u \in ring :
                                               Distance(p, v.position) <= Distance(p, u.position)}
                           IN \E v \in nearest :
                                  /\ GetNode(p) = v.nodeId
                                  /\ \A u \in nearest : joined[v.nodeId] <= joined[u.nodeId]
    BY DEF LookupIsClockwise
  <1>1. CASE ring = {}
    BY <1>1 DEF GetNode
  <1>2. CASE ring # {}
    <2> DEFINE nearest == {v \in ring : \A u \in ring :
                               Distance(p, v.position) <= Distance(p, u.position)}
               w == First(Start(p))
    <2>1. Start(p) \in SUBSET ring /\ Start(p) # {}
      BY <1>2 DEF Start, From
    <2>2. w \in Start(p) /\ \A u \in Start(p) \ {w} : Before(w, u)
      BY <2>1, FirstExists
    <2> HIDE DEF w
    <2>3. w \in ring
      BY <2>1, <2>2
    <2>4. \A u \in Start(p) : w.position <= u.position
      BY <2>1, <2>2, <2>3, FieldTypes DEF Before
    <2>5. \A u \in ring : u.position \in Position /\ u.position \in Nat
      BY FieldTypes
    <2>6. p \in Nat /\ MaxPosition \in Nat /\ p <= MaxPosition
          /\ \A u \in ring : u.position <= MaxPosition
      BY <2>5, RingAssumption DEF Position
    <2>7. ASSUME NEW u \in ring PROVE Distance(p, w.position) <= Distance(p, u.position)
      <3>1. /\ Distance(p, w.position) = IF w.position >= p THEN w.position - p
                                          ELSE w.position - p + MaxPosition + 1
            /\ Distance(p, u.position) = IF u.position >= p THEN u.position - p
                                          ELSE u.position - p + MaxPosition + 1
        BY <2>3, <2>5, DistanceIs
      <3>2. CASE From(p) # {}
        <4>1. w.position >= p
          BY <2>2, <3>2 DEF Start, From
        <4>2. u.position >= p => w.position <= u.position
          BY <2>4, <3>2 DEF Start, From
        <4> QED
          BY <2>3, <2>5, <2>6, <3>1, <4>1, <4>2
      <3>3. CASE From(p) = {}
        <4>1. ~(w.position >= p) /\ ~(u.position >= p)
          BY <2>3, <3>3 DEF From
        <4>2. w.position <= u.position
          BY <2>4, <3>3 DEF Start
        <4> QED
          BY <2>3, <2>5, <2>6, <3>1, <4>1, <4>2
      <3> QED
        BY <3>2, <3>3
    <2>8. w \in nearest
      BY <2>3, <2>7
    <2>9. ASSUME NEW u \in nearest PROVE joined[w.nodeId] <= joined[u.nodeId]
      <3>1. u \in ring /\ Distance(p, u.position) <= Distance(p, w.position)
        BY <2>3
      <3>2. /\ Distance(p, w.position) = IF w.position >= p THEN w.position - p
                                          ELSE w.position - p + MaxPosition + 1
            /\ Distance(p, u.position) = IF u.position >= p THEN u.position - p
                                          ELSE u.position - p + MaxPosition + 1
        BY <2>3, <2>5, <3>1, DistanceIs
      <3>3. Distance(p, u.position) = Distance(p, w.position)
        BY <2>3, <2>5, <2>6, <2>7, <3>1, <3>2
      <3>4. u.position = w.position
        BY <2>3, <2>5, <2>6, <3>1, <3>2, <3>3
      <3>5. u \in Start(p)
        BY <2>2, <3>1, <3>4 DEF Start, From
      <3>6. CASE u = w
        BY <2>3, <3>6, FieldTypes
      <3>7. CASE u # w
        <4>1. Before(w, u)
          BY <2>2, <3>5, <3>7
        <4> QED
          BY <2>3, <3>1, <3>4, <4>1, FieldTypes DEF Before
      <3> QED
        BY <3>6, <3>7
    <2>10. GetNode(p) = w.nodeId
      BY <1>2, GetNodeIsFirst DEF w
    <2> QED
      BY <1>2, <2>8, <2>9, <2>10
  <1> QED
    BY <1>1, <1>2

\* HashRing!LookupIsClockwise: the key's node has a virtual node that is the
\* nearest clockwise, and of several there it joined first.
THEOREM LookupFindsNearest == Spec => []LookupIsClockwise
PROOF
  BY Invariant, LookupFollows, PTL

-----------------------------------------------------------------------------
(* Data movement.                                                          *)

\* The order of two members of both rings is the same in both.
LEMMA OrderStays ==
    ASSUME NEW n \in Node, NEW u, NEW v, u.nodeId # n, v.nodeId # n,
           u.nodeId \in Node, v.nodeId \in Node,
           \A m \in Node \ {n} : joined'[m] = joined[m]
    PROVE  Before(u, v)' <=> Before(u, v)
PROOF
  BY DEF Before

\* A key that the node which joins does not take stays.
LEMMA JoinerTakes ==
    ASSUME RingInv, RingInv', NEW n \in Node, NEW p \in Position, ring # {},
           \A v \in ring' \ ring : v.nodeId = n, ring \subseteq ring',
           \A v \in ring : v.nodeId # n, \A m \in Node \ {n} : joined'[m] = joined[m]
    PROVE  GetNode(p)' \in {GetNode(p), n}
PROOF
  <1>1. Start(p)' \in SUBSET ring' /\ Start(p)' # {}
    BY DEF Start, From
  <1>2. PICK w \in Start(p)' : /\ First(Start(p))' = w
                               /\ \A u \in Start(p)' \ {w} : Before(w, u)'
    BY <1>1, FirstNext DEF FirstIsFirst
  <1>3. GetNode(p)' = w.nodeId
    BY <1>1, <1>2, GetNodeIsFirstNext
  <1>4. CASE w.nodeId # n
    <2>1. w \in ring
      BY <1>1, <1>2, <1>4
    <2>2. w \in Start(p) /\ Start(p) \subseteq Start(p)'
      BY <1>2, <2>1 DEF Start, From
    <2>3. ASSUME NEW u \in Start(p) \ {w} PROVE Before(w, u)
      <3>1. u \in ring /\ Before(w, u)'
        BY <1>2, <2>2, <2>3 DEF Start, From
      <3> QED
        BY <1>4, <2>1, <3>1, FieldTypes, OrderStays
    <2>4. Start(p) \in SUBSET ring
      BY DEF Start, From
    <2>5. First(Start(p)) = w
      BY <2>1, <2>2, <2>3, <2>4, FirstHere DEF FirstIsFirst
    <2>6. GetNode(p) = w.nodeId
      BY <2>5, GetNodeIsFirst
    <2> QED
      BY <1>3, <2>6
  <1> QED
    BY <1>3, <1>4

\* A key that was not the leaving node's stays.
LEMMA LeaverGives ==
    ASSUME RingInv, RingInv', NEW n \in Node, NEW p \in Position, ring' # {},
           ring' = {v \in ring : v.nodeId # n}, \A m \in Node \ {n} : joined'[m] = joined[m]
    PROVE  GetNode(p) \in {GetNode(p)', n}
PROOF
  <1>1. Start(p) \in SUBSET ring /\ Start(p) # {}
    BY DEF Start, From
  <1>2. PICK w \in Start(p) : /\ First(Start(p)) = w
                              /\ \A u \in Start(p) \ {w} : Before(w, u)
    BY <1>1, FirstHere DEF FirstIsFirst
  <1>3. GetNode(p) = w.nodeId
    BY <1>1, <1>2, GetNodeIsFirst
  <1>4. CASE w.nodeId # n
    <2>1. w \in ring' /\ w \in ring
      BY <1>1, <1>2, <1>4
    <2>2. w \in Start(p)' /\ Start(p)' \subseteq Start(p)
      BY <1>2, <2>1 DEF Start, From
    <2>3. ASSUME NEW u \in Start(p)' \ {w} PROVE Before(w, u)'
      <3>1. u \in ring /\ u.nodeId # n /\ Before(w, u)
        BY <1>1, <1>2, <2>2, <2>3 DEF Start, From
      <3> QED
        BY <1>4, <2>1, <3>1, FieldTypes, OrderStays
    <2>4. Start(p)' \in SUBSET ring'
      BY DEF Start, From
    <2>5. First(Start(p))' = w
      BY <2>1, <2>2, <2>3, <2>4, FirstNext DEF FirstIsFirst
    <2>6. GetNode(p)' = w.nodeId
      BY <2>5, GetNodeIsFirstNext
    <2> QED
      BY <1>3, <2>6
  <1> QED
    BY <1>3, <1>4

LEMMA MovesAreNecessary ==
    ASSUME RingInv, [Next]_vars, NEW p \in Position, GetNode(p)' # GetNode(p)
    PROVE  GetNode(p) \notin Members' \/ GetNode(p)' \notin Members
PROOF
  <1>1. RingInv'
    BY InvNext
  <1>2. Nil \notin Members /\ Nil \notin Members'
    BY NilAssumption DEF Members
  <1>3. (ring = {} => GetNode(p) = Nil) /\ (ring' = {} => GetNode(p)' = Nil)
    BY GetNodeIsFirst, GetNodeIsFirstNext
  <1>4. CASE UNCHANGED vars
    BY <1>4 DEF vars, GetNode, First, Before
  <1>5. ASSUME NEW n \in Node, NEW weight \in Weights, AddNode(n, weight), ring # {}
        PROVE  GetNode(p)' \notin Members
    <2>1. /\ n \notin Members /\ joined' = [joined EXCEPT ![n] = joins + 1]
          /\ ring \subseteq ring' /\ \A v \in ring' \ ring : v.nodeId = n
      <3> DEFINE I == 0..(Replicas * weight - 1)
                 new == {[nodeId |-> n, index |-> i, position |-> hash[<<n, i>>]] : i \in I}
      <3>1. n \notin Members /\ joined' = [joined EXCEPT ![n] = joins + 1] /\ ring' = ring \cup new
        BY <1>5 DEF AddNode
      <3> HIDE DEF I
      <3>2. ASSUME NEW v \in new PROVE v.nodeId = n
        <4>1. PICK i \in I : v = [nodeId |-> n, index |-> i, position |-> hash[<<n, i>>]]
          OBVIOUS
        <4> QED
          BY <4>1
      <3> HIDE DEF new
      <3> QED
        BY <3>1, <3>2
    <2>2. \A v \in ring : v.nodeId # n
      BY <2>1, FieldTypes
    <2>3. \A m \in Node \ {n} : joined'[m] = joined[m]
      BY <2>1 DEF RingInv
    <2> QED
      BY <1>1, <1>5, <2>1, <2>2, <2>3, JoinerTakes
  <1>6. ASSUME NEW n \in Node, RemoveNode(n), ring' # {}
        PROVE  GetNode(p) \notin Members'
    <2>1. joined' = [joined EXCEPT ![n] = 0] /\ ring' = {v \in ring : v.nodeId # n}
      BY <1>6 DEF RemoveNode
    <2>2. joined'[n] = 0 /\ \A m \in Node \ {n} : joined'[m] = joined[m]
      BY <2>1 DEF RingInv
    <2>3. GetNode(p) = n
      BY <1>1, <1>6, <2>1, <2>2, LeaverGives
    <2> QED
      BY <2>2, <2>3 DEF Members
  <1> QED
    BY <1>2, <1>3, <1>4, <1>5, <1>6 DEF Next

\* HashRing!OnlyNecessaryMoves: a key moves only to a node that has just
\* joined, or from one that has just left.
THEOREM MovementIsMinimal == Spec => OnlyNecessaryMoves
PROOF
  <1>1. RingInv /\ [Next]_vars =>
            [\A p \in Position : GetNode(p)' # GetNode(p) =>
                GetNode(p) \notin Members' \/ GetNode(p)' \notin Members]_vars
    BY MovesAreNecessary
  <1> QED
    BY <1>1, Invariant, PTL DEF Spec, OnlyNecessaryMoves

-----------------------------------------------------------------------------
(* Shards.                                                                 *)

ShardOf(v) ==
    [nodeId |-> v.nodeId,
     number |-> Cardinality({u \in Mine(v.nodeId) : Before(u, v)}),
     start |-> v.position, end |-> ShardEnd(v)]

\* The shards are those of the ring as it is.
ShardInv ==
    /\ RingInv
    /\ IsFiniteSet(ring)
    /\ shards = ShardsOfRing

LEMMA FiniteRing ==
    ASSUME IsFiniteSet(ring), [Next]_vars
    PROVE  IsFiniteSet(ring')
PROOF
  <1>1. ASSUME NEW n \in Node, NEW weight \in Weights, AddNode(n, weight)
        PROVE  IsFiniteSet(ring')
    <2> DEFINE I == 0..(Replicas * weight - 1)
               new == {[nodeId |-> n, index |-> i, position |-> hash[<<n, i>>]] : i \in I}
    <2>1. Replicas * weight - 1 \in Int
      <3>1. Replicas \in Int /\ weight \in Int
        BY RingAssumption
      <3> QED
        BY <3>1
    <2>2. IsFiniteSet(I)
      BY <2>1, FS_Interval
    <2>3. IsFiniteSet(new)
      <3> DEFINE f == [i \in I |-> [nodeId |-> n, index |-> i, position |-> hash[<<n, i>>]]]
      <3>1. f \in Surjection(I, new)
        BY DEF Surjection
      <3> QED
        BY <2>2, <3>1, FS_Surjection
    <2>4. ring' = ring \cup new
      BY <1>1 DEF AddNode
    <2> HIDE DEF new
    <2> QED
      BY <2>3, <2>4, FS_Union
  <1>2. ASSUME NEW n \in Node, RemoveNode(n) PROVE IsFiniteSet(ring')
    <2>1. ring' \subseteq ring
      BY <1>2 DEF RemoveNode
    <2> QED
      BY <2>1, FS_Subset
  <1>3. CASE UNCHANGED vars
    BY <1>3 DEF vars
  <1> QED
    BY <1>1, <1>2, <1>3 DEF Next

LEMMA ShardInvNext == ShardInv /\ [Next]_vars => ShardInv'
PROOF
  <1> SUFFICES ASSUME ShardInv, [Next]_vars PROVE ShardInv'
    OBVIOUS
  <1>1. RingInv' /\ IsFiniteSet(ring')
    BY InvNext, FiniteRing DEF ShardInv
  <1>2. CASE Next
    <2>1. shards' = ShardsOfRing'
      BY <1>2 DEF Next, AddNode, RemoveNode
    <2> QED
      BY <1>1, <2>1 DEF ShardInv
  <1>3. CASE UNCHANGED vars
    <2>1. UNCHANGED <<ring, joined, shards>>
      BY <1>3 DEF vars
    <2>2. ShardsOfRing' = ShardsOfRing
      BY <2>1 DEF ShardsOfRing, Mine, ShardEnd, Successor, First, Before
    <2> QED
      BY <1>1, <2>1, <2>2 DEF ShardInv
  <1> QED
    BY <1>2, <1>3

LEMMA ShardInvInit == Init => ShardInv
PROOF
  <1> SUFFICES ASSUME Init PROVE ShardInv
    OBVIOUS
  <1>1. ring = {} /\ shards = {}
    BY DEF Init
  <1>2. IsFiniteSet(ring) /\ shards = ShardsOfRing
    BY <1>1, FS_EmptySet DEF ShardsOfRing
  <1> QED
    BY <1>2, InitInv DEF ShardInv

LEMMA ShardInvariant == Spec => []ShardInv
PROOF
  BY ShardInvInit, ShardInvNext, PTL DEF Spec

LEMMA EveryVirtualNodeHasAShard ==
    ASSUME ShardInv
    PROVE  /\ \A v \in ring : ShardOf(v) \in shards
           /\ \A s \in shards : \E v \in ring : s = ShardOf(v)
PROOF
  BY DEF ShardInv, ShardsOfRing, ShardOf

LEMMA SuccessorOf ==
    ASSUME RingInv, NEW v \in ring
    PROVE  /\ Successor(v) \in Mine(v.nodeId)
           /\ \/ Before(v, Successor(v))
              \/ /\ \A u \in Mine(v.nodeId) : ~Before(v, u)
                 /\ Successor(v).position <= v.position
PROOF
  <1> DEFINE mine == Mine(v.nodeId)
             later == {u \in mine : Before(v, u)}
  <1>1. mine \subseteq ring /\ v \in mine
    BY DEF Mine
  <1>2. CASE later # {}
    <2>1. First(later) \in later
      BY <1>1, <1>2, FirstExists
    <2> QED
      BY <1>2, <2>1 DEF Successor
  <1>3. CASE later = {}
    <2>1. First(mine) \in mine /\ \A u \in mine \ {First(mine)} : Before(First(mine), u)
      BY <1>1, FirstExists
    <2>2. First(mine).position <= v.position
      <3>1. CASE First(mine) = v
        BY <3>1, FieldTypes
      <3>2. CASE First(mine) # v
        <4>1. Before(First(mine), v)
          BY <1>1, <2>1, <3>2
        <4> QED
          BY <1>1, <2>1, <4>1, FieldTypes DEF Before
      <3> QED
        BY <3>1, <3>2
    <2>3. Successor(v) = First(mine)
      BY <1>3 DEF Successor
    <2> QED
      BY <1>3, <2>1, <2>2, <2>3
  <1> QED
    BY <1>2, <1>3

LEMMA ShardTypes ==
    ASSUME ShardInv, NEW v \in ring
    PROVE  ShardOf(v) \in Shard
PROOF
  <1>1. RingInv /\ IsFiniteSet(ring)
    BY DEF ShardInv
  <1>2. v.nodeId \in Node /\ v.position \in Position
    BY <1>1, FieldTypes
  <1>3. ShardEnd(v) \in Position
    <2>1. Successor(v) \in ring
      BY <1>1, SuccessorOf DEF Mine
    <2>2. Successor(v).position \in Position
      BY <1>1, <2>1, FieldTypes
    <2> QED
      BY <1>2, <2>2, RingAssumption DEF ShardEnd, Position
  <1>4. Cardinality({u \in Mine(v.nodeId) : Before(u, v)}) \in Nat
    <2>1. {u \in Mine(v.nodeId) : Before(u, v)} \subseteq ring
      BY DEF Mine
    <2> QED
      BY <1>1, <2>1, FS_Subset, FS_CardinalityType
  <1> QED
    BY <1>2, <1>3, <1>4 DEF ShardOf, Shard

\* Of the virtual nodes of n up to a position there is a last one.
LEMMA LastUpTo ==
    ASSUME RingInv, NEW n, NEW p \in Position, \E v \in Mine(n) : v.position <= p
    PROVE  \E v \in Mine(n) :
               v.position <= p /\ \A u \in Mine(n) : u.position <= p => ~Before(v, u)
PROOF
  <1> DEFINE S == {v \in Mine(n) : v.position <= p}
  <1>1. S # {} /\ S \subseteq ring /\ p \in Nat /\ \A v \in S : v.position \in Nat
    BY FieldTypes DEF Mine, Position
  <1>2. PICK a \in S : \A u \in S : u.position <= a.position
    <2> DEFINE T == {p - u.position : u \in S}
    <2>1. T \in SUBSET Nat /\ T # {}
      BY <1>1
    <2>2. PICK x \in T : \A y \in T : x <= y
      BY <2>1, Loop!LeastNumber
    <2>3. PICK a \in S : x = p - a.position
      OBVIOUS
    <2>4. \A u \in S : p - a.position <= p - u.position
      BY <2>2, <2>3
    <2> QED
      BY <1>1, <2>4
  <1> DEFINE A == {u \in S : u.position = a.position}
  <1>3. PICK b \in A : \A u \in A : u.index <= b.index
    <2> DEFINE K == Replicas * Max(Weights) - 1
               T == {K - u.index : u \in A}
    <2>1. \A u \in A : u.index \in 0..K
      BY <1>1, FieldTypes DEF Index
    <2>2. K \in Int
      BY LargestWeight
    <2> HIDE DEF K
    <2>3. T \in SUBSET Nat /\ T # {}
      BY <2>1, <2>2
    <2>4. PICK x \in T : \A y \in T : x <= y
      BY <2>3, Loop!LeastNumber
    <2>5. PICK b \in A : x = K - b.index
      OBVIOUS
    <2>6. \A u \in A : K - b.index <= K - u.index
      BY <2>4, <2>5
    <2> QED
      BY <2>1, <2>2, <2>6
  <1>4. \A u \in S : ~Before(b, u)
    <2> TAKE u \in S
    <2>1. b \in S /\ b.nodeId = n /\ u.nodeId = n /\ b.position = a.position /\ b \in ring /\ u \in ring
      BY <1>1 DEF Mine
    <2>2. u.position <= b.position
      BY <1>2, <2>1
    <2>3. u.position = b.position => u.index <= b.index
      BY <1>3, <2>1
    <2>4. /\ u.position \in Nat /\ b.position \in Nat /\ u.index \in Nat /\ b.index \in Nat
          /\ joined[n] \in Nat
      BY <2>1, FieldTypes
    <2> QED
      BY <2>1, <2>2, <2>3, <2>4 DEF Before
  <1> QED
    BY <1>4

LEMMA CoverFollows == ShardInv => ShardsCoverTheRest
PROOF
  <1> SUFFICES ASSUME ShardInv, NEW p \in Position, ring # {}
               PROVE  GetShardForKey(p) = Nil <=> \A v \in Mine(GetNode(p)) : p < v.position
    BY DEF ShardsCoverTheRest
  <1> DEFINE n == GetNode(p)
             found == {s \in shards : s.nodeId = n /\ IsKeyInShard(p, s)}
  <1> HIDE DEF n
  <1>1. RingInv /\ p \in Nat
    BY DEF ShardInv, Position
  <1>2. ASSUME NEW s \in found PROVE \E v \in Mine(n) : v.position <= p
    <2>1. PICK v \in ring : s = ShardOf(v)
      BY EveryVirtualNodeHasAShard
    <2>2. s.nodeId = v.nodeId /\ s.start = v.position
      BY <2>1 DEF ShardOf
    <2> QED
      BY <2>2 DEF Mine, IsKeyInShard
  <1>3. ASSUME \E v \in Mine(n) : v.position <= p PROVE found # {}
    <2>1. PICK v \in Mine(n) :
              v.position <= p /\ \A u \in Mine(n) : u.position <= p => ~Before(v, u)
      BY <1>1, <1>3, LastUpTo
    <2>2. v \in ring /\ v.nodeId = n
      BY DEF Mine
    <2>3. /\ Successor(v) \in Mine(n)
          /\ \/ Before(v, Successor(v))
             \/ Successor(v).position <= v.position
      BY <1>1, <2>2, SuccessorOf
    <2>4. Successor(v).position \in Nat /\ v.position \in Nat
      BY <1>1, <2>2, <2>3, FieldTypes DEF Mine
    <2>5. p <= MaxPosition
      BY DEF Position
    <2>6. p <= ShardEnd(v)
      <3>1. CASE Successor(v).position > v.position
        <4>1. Before(v, Successor(v))
          BY <2>3, <2>4, <3>1
        <4>2. ~(Successor(v).position <= p)
          BY <2>1, <2>3, <4>1
        <4> QED
          BY <1>1, <2>4, <3>1, <4>2 DEF ShardEnd
      <3>2. CASE ~(Successor(v).position > v.position)
        BY <2>5, <3>2 DEF ShardEnd
      <3> QED
        BY <3>1, <3>2
    <2>7. /\ ShardOf(v).nodeId = n /\ ShardOf(v).start = v.position
          /\ ShardOf(v).end = ShardEnd(v)
      BY <2>2 DEF ShardOf
    <2>8. ShardOf(v) \in shards
      BY <2>2, EveryVirtualNodeHasAShard
    <2> QED
      BY <2>1, <2>6, <2>7, <2>8 DEF IsKeyInShard
  <1>4. CASE found = {}
    <2>1. GetShardForKey(p) = Nil
      BY <1>4 DEF GetShardForKey, n
    <2>2. \A v \in Mine(n) : p < v.position
      <3>1. \A v \in Mine(n) : v.position \in Nat
        BY <1>1, FieldTypes DEF Mine
      <3> QED
        BY <1>1, <1>3, <1>4, <3>1
    <2> QED
      BY <2>1, <2>2 DEF n
  <1>5. CASE found # {}
    <2>1. \A s \in found : s \in Shard /\ s.number \in Nat
      <3>1. \A s \in found : s \in Shard
        BY EveryVirtualNodeHasAShard, ShardTypes
      <3> QED
        BY <3>1 DEF Shard
    <2>2. \E s \in found : \A t \in found : s.number <= t.number
      <3> DEFINE T == {s.number : s \in found}
      <3> HIDE DEF found
      <3>1. T \in SUBSET Nat /\ T # {}
        BY <1>5, <2>1
      <3>2. PICK x \in T : \A y \in T : x <= y
        BY <3>1, Loop!LeastNumber
      <3> QED
        BY <3>2
    <2>3. GetShardForKey(p) = CHOOSE s \in found : \A t \in found : s.number <= t.number
      BY <1>5 DEF GetShardForKey, n
    <2>4. GetShardForKey(p) \in found
      <3> HIDE DEF found
      <3> QED
        BY <2>2, <2>3
    <2>5. GetShardForKey(p) # Nil
      BY <2>1, <2>4, NilAssumption
    <2>6. \E v \in Mine(n) : v.position <= p
      BY <1>2, <1>5
    <2>7. \A v \in Mine(n) : v.position \in Nat
      BY <1>1, FieldTypes DEF Mine
    <2>8. ~ \A v \in Mine(n) : p < v.position
      BY <1>1, <2>6, <2>7
    <2> QED
      BY <2>5, <2>8 DEF n
  <1> QED
    BY <1>4, <1>5

\* HashRing!ShardsCoverTheRest: getShardForKey finds no shard exactly for the
\* keys that lie before every virtual node of their node.
THEOREM ShardsLeaveNoGap == Spec => []ShardsCoverTheRest
PROOF
  BY ShardInvariant, CoverFollows, PTL

-----------------------------------------------------------------------------
(* The array, read from a position on.                                     *)

\* Arrays, in the terms of this module.
LEMMA SortedArray ==
    ASSUME NEW S, IsFiniteSet(S), NEW R,
           \A u \in S : <<u, u>> \notin R,
           \A u, v \in S : u # v => <<u, v>> \in R \/ <<v, u>> \in R,
           \A u, v, w \in S : <<u, v>> \in R /\ <<v, w>> \in R => <<u, w>> \in R
    PROVE  LET a == [i \in 1..Cardinality(S) |->
                        CHOOSE v \in S : Cardinality({u \in S : <<u, v>> \in R}) = i - 1]
           IN  /\ a \in Seq(S) /\ Len(a) = Cardinality(S) /\ Cardinality(S) \in Nat
               /\ \A v \in S : \E i \in 1..Cardinality(S) : a[i] = v
               /\ \A i, j \in 1..Cardinality(S) : <<a[i], a[j]>> \in R <=> i < j
PROOF
  <1>1. Loop!IsFiniteSet(S)
    BY DEF IsFiniteSet, Loop!IsFiniteSet
  <1>2. ASSUME NEW T PROVE Loop!Cardinality(T) = Cardinality(T)
    BY DEF Cardinality, Loop!Cardinality
  <1> DEFINE a == [i \in 1..Cardinality(S) |->
                      CHOOSE v \in S : Cardinality({u \in S : <<u, v>> \in R}) = i - 1]
             b == Loop!Listed(S, R)
             ElementOf(i) == CHOOSE v \in S : Cardinality({u \in S : <<u, v>> \in R}) = i - 1
             LoopElementOf(i) ==
                 CHOOSE v \in S : Loop!Cardinality({u \in S : <<u, v>> \in R}) = i - 1
  <1>3. ASSUME NEW i PROVE ElementOf(i) = LoopElementOf(i)
    BY <1>2
  <1>4. a = b
    <2>1. a = [i \in 1..Cardinality(S) |-> ElementOf(i)]
      OBVIOUS
    <2>2. b = [i \in 1..Loop!Cardinality(S) |-> LoopElementOf(i)]
      BY DEF Loop!Listed
    <2> HIDE DEF a, b, ElementOf, LoopElementOf
    <2> QED
      BY <1>2, <1>3, <2>1, <2>2
  <1>5. /\ b \in Seq(S) /\ Len(b) = Loop!Cardinality(S) /\ Loop!Cardinality(S) \in Nat
        /\ \A v \in S : \E i \in 1..Loop!Cardinality(S) : b[i] = v
        /\ \A i, j \in 1..Loop!Cardinality(S) : <<b[i], b[j]>> \in R <=> i < j
    BY <1>1, Loop!SortedArray
  <1> HIDE DEF a, b
  <1>6. /\ a \in Seq(S) /\ Len(a) = Cardinality(S) /\ Cardinality(S) \in Nat
        /\ \A v \in S : \E i \in 1..Cardinality(S) : a[i] = v
        /\ \A i, j \in 1..Cardinality(S) : <<a[i], a[j]>> \in R <=> i < j
    BY <1>2, <1>4, <1>5
  <1> QED
    BY <1>6 DEF a

LEMMA BeforeIsTransitive ==
    ASSUME RingInv, NEW u \in ring, NEW v \in ring, NEW w \in ring, Before(u, v), Before(v, w)
    PROVE  Before(u, w)
PROOF
  BY FieldTypes DEF Before

LEMMA SoonerIsAnOrder ==
    ASSUME RingInv, NEW p \in Position
    PROVE  /\ \A u \in ring : ~Sooner(p, u, u)
           /\ \A u, v \in ring : u # v => (Sooner(p, u, v) <=> ~Sooner(p, v, u))
           /\ \A u, v, w \in ring : Sooner(p, u, v) /\ Sooner(p, v, w) => Sooner(p, u, w)
PROOF
  <1>1. ASSUME NEW u \in ring PROVE ~Sooner(p, u, u)
    BY FieldTypes DEF Sooner, Before
  <1>2. ASSUME NEW u \in ring, NEW v \in ring, u # v
        PROVE  Sooner(p, u, v) <=> ~Sooner(p, v, u)
    BY <1>2, BeforeIsTotal DEF Sooner
  <1>3. ASSUME NEW u \in ring, NEW v \in ring, NEW w \in ring,
               Sooner(p, u, v), Sooner(p, v, w)
        PROVE  Sooner(p, u, w)
    BY <1>3, BeforeIsTransitive DEF Sooner
  <1> QED
    BY <1>1, <1>2, <1>3

LEMMA ClockwiseIsSorted ==
    ASSUME RingInv, IsFiniteSet(ring), NEW p \in Position
    PROVE  /\ Clockwise(p) \in Seq(ring) /\ Len(Clockwise(p)) = Cardinality(ring)
           /\ Cardinality(ring) \in Nat
           /\ \A v \in ring : \E i \in 1..Cardinality(ring) : Clockwise(p)[i] = v
           /\ \A i, j \in 1..Cardinality(ring) :
                  Sooner(p, Clockwise(p)[i], Clockwise(p)[j]) <=> i < j
PROOF
  <1> DEFINE R == {w \in ring \X ring : Sooner(p, w[1], w[2])}
             n == Cardinality(ring)
             a == [i \in 1..n |->
                      CHOOSE v \in ring : Cardinality({u \in ring : <<u, v>> \in R}) = i - 1]
  <1>1. \A u, v \in ring : <<u, v>> \in R <=> Sooner(p, u, v)
    OBVIOUS
  <1>2. Clockwise(p) = a
    <2>1. \A v \in ring : {u \in ring : <<u, v>> \in R} = {u \in ring : Sooner(p, u, v)}
      BY <1>1
    <2> HIDE DEF R
    <2>2. ASSUME NEW i
          PROVE (CHOOSE v \in ring : Cardinality({u \in ring : <<u, v>> \in R}) = i - 1)
                  = CHOOSE v \in ring : Cardinality({u \in ring : Sooner(p, u, v)}) = i - 1
      BY <2>1
    <2>3. Clockwise(p) = [i \in 1..Cardinality(ring) |->
              CHOOSE v \in ring : Cardinality({u \in ring : Sooner(p, u, v)}) = i - 1]
      BY Zenon DEF Clockwise, Sorted
    <2> QED
      BY <2>2, <2>3
  <1>3. /\ \A u \in ring : <<u, u>> \notin R
        /\ \A u, v \in ring : u # v => <<u, v>> \in R \/ <<v, u>> \in R
        /\ \A u, v, w \in ring : <<u, v>> \in R /\ <<v, w>> \in R => <<u, w>> \in R
    <2> HIDE DEF R
    <2> QED
      BY <1>1, SoonerIsAnOrder
  <1>4. /\ a \in Seq(ring) /\ Len(a) = n /\ n \in Nat
        /\ \A v \in ring : \E i \in 1..n : a[i] = v
        /\ \A i, j \in 1..n : <<a[i], a[j]>> \in R <=> i < j
    <2> HIDE DEF R
    <2> QED
      BY <1>3, SortedArray
  <1> HIDE DEF R, a
  <1>5. \A i, j \in 1..n : Sooner(p, a[i], a[j]) <=> i < j
    <2>1. \A i \in 1..n : a[i] \in ring
      BY <1>4
    <2> QED
      BY <1>1, <1>4, <2>1
  <1> QED
    BY <1>2, <1>4, <1>5

\* The virtual node that is read first decides whose the key is.
LEMMA SoonestDecides ==
    ASSUME RingInv, NEW p \in Position, NEW v \in ring,
           \A u \in ring \ {v} : Sooner(p, v, u)
    PROVE  GetNode(p) = v.nodeId
PROOF
  <1>1. v \in Start(p)
    BY DEF Start, From, Sooner
  <1>2. ASSUME NEW u \in Start(p) \ {v} PROVE Before(v, u)
    BY <1>1, <1>2 DEF Start, From, Sooner
  <1>3. Start(p) \in SUBSET ring
    BY DEF Start, From
  <1>4. First(Start(p)) = v
    BY <1>1, <1>2, <1>3, FirstIsUnique
  <1> QED
    BY <1>4, GetNodeIsFirst

-----------------------------------------------------------------------------
(* The loop of getReplicaNodes.                                            *)

\* What the loop has found in r after it has read k virtual nodes of a: some
\* of their nodes, each once and the first one's first; all of them while
\* there are not enough; the second one where the array first leaves the first.
Found(a, count, k, r) ==
    /\ r \in Seq(Node) /\ Len(r) <= count
    /\ \A i, j \in 1..Len(r) : r[i] = r[j] => i = j
    /\ \A i \in 1..Len(r) : \E j \in 1..k : r[i] = a[j].nodeId
    /\ Len(r) < count => \A j \in 1..k : \E i \in 1..Len(r) : r[i] = a[j].nodeId
    /\ k # 0 => Len(r) # 0 /\ r[1] = a[1].nodeId
    /\ Len(r) >= 2 => \E j \in 1..k : /\ a[j].nodeId = r[2]
                                      /\ \A i \in 1..(j - 1) : a[i].nodeId = r[1]

LEMMA OneMore ==
    ASSUME NEW n \in Nat, NEW k \in 0..(n - 1), NEW a, \A i \in 1..n : a[i].nodeId \in Node,
           NEW count \in Nat, count # 0, NEW r, Found(a, count, k, r)
    PROVE  Found(a, count, k + 1, TakeReplica(count, r, a[k + 1]))
PROOF
  <1> DEFINE m == a[k + 1].nodeId
             t == TakeReplica(count, r, a[k + 1])
  <1>1. /\ k \in Nat /\ k + 1 \in 1..n /\ k + 1 \in 1..(k + 1) /\ m \in Node
        /\ r \in Seq(Node) /\ Len(r) \in Nat
        /\ \A i : i \in 1..(k + 1) <=> i \in 1..k \/ i = k + 1
    BY DEF Found
  <1>2. CASE Len(r) < count /\ m \notin Range(r)
    <2>1. /\ t = Append(r, m) /\ t \in Seq(Node) /\ Len(t) = Len(r) + 1
          /\ t[Len(r) + 1] = m /\ \A i \in 1..Len(r) : t[i] = r[i] /\ r[i] # m
      BY <1>1, <1>2 DEF TakeReplica, Range
    <2>2. \A i : i \in 1..Len(t) <=> i \in 1..Len(r) \/ i = Len(r) + 1
      BY <1>1, <2>1
    <2> HIDE DEF t, m
    <2>3. Len(t) <= count
      BY <1>1, <1>2, <2>1
    <2>4. \A i, j \in 1..Len(t) : t[i] = t[j] => i = j
      BY <2>1, <2>2 DEF Found
    <2>5. \A i \in 1..Len(t) : \E j \in 1..(k + 1) : t[i] = a[j].nodeId
      BY <1>1, <2>1, <2>2 DEF Found, m
    <2>6. \A j \in 1..(k + 1) : \E i \in 1..Len(t) : t[i] = a[j].nodeId
      BY <1>1, <1>2, <2>1, <2>2 DEF Found, m
    <2>7. t[1] = a[1].nodeId
      <3>1. CASE k = 0
        <4>1. Len(r) = 0
          <5>1. 1..k = {}
            BY <3>1
          <5>2. 1..Len(r) = {}
            BY <5>1 DEF Found
          <5> QED
            BY <1>1, <5>2
        <4> QED
          BY <2>1, <3>1, <4>1 DEF m
      <3>2. CASE k # 0
        <4>1. Len(r) # 0 /\ r[1] = a[1].nodeId
          BY <3>2 DEF Found
        <4>2. 1 \in 1..Len(r)
          BY <1>1, <4>1
        <4> QED
          BY <2>1, <4>1, <4>2
      <3> QED
        BY <3>1, <3>2
    <2>8. ASSUME Len(t) >= 2
          PROVE  \E j \in 1..(k + 1) : /\ a[j].nodeId = t[2]
                                        /\ \A i \in 1..(j - 1) : a[i].nodeId = t[1]
      <3>1. CASE Len(r) = 1
        <4>1. t[2] = m /\ t[1] = r[1] /\ 1..Len(r) = {1}
          BY <2>1, <3>1
        <4>2. \A i \in 1..k : a[i].nodeId = t[1]
          BY <1>2, <4>1 DEF Found
        <4>3. a[k + 1].nodeId = t[2] /\ (k + 1) - 1 = k
          BY <1>1, <4>1 DEF m
        <4> QED
          BY <1>1, <4>2, <4>3
      <3>2. CASE Len(r) >= 2
        <4>1. t[1] = r[1] /\ t[2] = r[2]
          BY <1>1, <2>1, <3>2
        <4>2. PICK j \in 1..k : /\ a[j].nodeId = r[2]
                                /\ \A i \in 1..(j - 1) : a[i].nodeId = r[1]
          BY <3>2 DEF Found
        <4> QED
          BY <1>1, <4>1, <4>2
      <3>3. Len(r) = 1 \/ Len(r) >= 2
        <4>1. Len(r) \in Nat /\ Len(t) = Len(r) + 1
          BY <1>1, <2>1
        <4>2. Len(r) + 1 >= 2
          BY <2>8, <4>1, Zenon
        <4>3. ASSUME NEW l \in Nat, l + 1 >= 2 PROVE l = 1 \/ l >= 2
          BY <4>3
        <4> QED
          BY <4>1, <4>2, <4>3
      <3> QED
        BY <3>1, <3>2, <3>3
    <2>9. Len(t) # 0
      BY <1>1, <2>1
    <2> QED
      BY <2>1, <2>3, <2>4, <2>5, <2>6, <2>7, <2>8, <2>9 DEF Found, t
  <1>3. CASE ~(Len(r) < count /\ m \notin Range(r))
    <2>1. t = r
      BY <1>3 DEF TakeReplica
    <2>2. k # 0
      <3>1. SUFFICES ASSUME k = 0 PROVE FALSE
        OBVIOUS
      <3>2. 1..k = {}
        BY <3>1
      <3>3. 1..Len(r) = {}
        BY <3>2 DEF Found
      <3>4. Len(r) < count
        <4>1. 1 \in 1..Len(r) \/ Len(r) < count
          BY <1>1
        <4> QED
          BY <3>3, <4>1
      <3>5. DOMAIN r = {}
        BY <1>1, <3>3
      <3>6. Range(r) = {}
        BY <3>5 DEF Range
      <3> QED
        BY <1>3, <3>4, <3>6
    <2>3. Len(r) < count => \E i \in 1..Len(r) : r[i] = m
      BY <1>3 DEF Range
    <2> HIDE DEF t
    <2>4. \A i \in 1..Len(r) : \E j \in 1..(k + 1) : r[i] = a[j].nodeId
      BY <1>1 DEF Found
    <2>5. Len(r) < count => \A j \in 1..(k + 1) : \E i \in 1..Len(r) : r[i] = a[j].nodeId
      BY <1>1, <2>3 DEF Found
    <2>6. Len(r) >= 2 => \E j \in 1..(k + 1) : /\ a[j].nodeId = r[2]
                                              /\ \A i \in 1..(j - 1) : a[i].nodeId = r[1]
      BY <1>1 DEF Found
    <2> QED
      BY <2>1, <2>2, <2>4, <2>5, <2>6 DEF Found, t
  <1> QED
    BY <1>2, <1>3

LEMMA ReplicasAreFound ==
    ASSUME NEW p, NEW a, a = Clockwise(p), NEW n \in Nat, DOMAIN a = 1..n,
           \A i \in 1..n : a[i].nodeId \in Node, NEW count \in Nat, count # 0
    PROVE  Found(a, count, n, GetReplicaNodes(p, count))
PROOF
  <1>1. GetReplicaNodes(p, count) = Loop!Fold(count, <<>>, a)
    BY DEF GetReplicaNodes, Loop!Fold, Loop!FoldLeft, Loop!MapThenFoldSet, FoldOver, MapThenFoldSet,
        Max, Loop!Max
  <1>2. PICK turn : Loop!Turning(count, <<>>, a, n, turn)
    BY Loop!Turns
  <1> DEFINE P == {k \in Nat : k <= n => Found(a, count, k, turn[k])}
  <1>3. 0 \in P
    <2>1. turn[0] = <<>> /\ <<>> \in Seq(Node) /\ Len(<<>>) = 0
      BY <1>2 DEF Loop!Turning
    <2>2. 1..0 = {}
      OBVIOUS
    <2>3. Found(a, count, 0, <<>>)
      BY <2>1, <2>2 DEF Found
    <2> QED
      BY <2>1, <2>3
  <1>4. ASSUME NEW k \in 0..(n - 1), k \in P PROVE k + 1 \in P
    <2>1. k + 1 \in 1..n /\ (k + 1) - 1 = k /\ Found(a, count, k, turn[k])
      BY <1>4
    <2>2. turn[k + 1] = TakeReplica(count, turn[k], a[k + 1])
      BY <1>2, <2>1 DEF Loop!Turning
    <2>3. Found(a, count, k + 1, TakeReplica(count, turn[k], a[k + 1]))
      BY <2>1, OneMore
    <2> QED
      BY <2>1, <2>2, <2>3
  <1>5. P \in SUBSET Nat
    OBVIOUS
  <1> HIDE DEF P
  <1>6. n \in P
    <2>1. 0..n \subseteq P
      BY <1>3, <1>4, <1>5, Loop!UpTo
    <2> QED
      BY <2>1
  <1>7. turn[n] = GetReplicaNodes(p, count)
    BY <1>1, <1>2 DEF Loop!Turning
  <1> QED
    BY <1>6, <1>7 DEF P

\* As many elements as places, when no element is in two places.
LEMMA DifferentElements ==
    ASSUME NEW S, NEW r \in Seq(S), \A i, j \in 1..Len(r) : r[i] = r[j] => i = j
    PROVE  /\ Range(r) = {r[i] : i \in 1..Len(r)}
           /\ IsFiniteSet(Range(r)) /\ Cardinality(Range(r)) = Len(r)
PROOF
  <1>1. Len(r) \in Nat /\ DOMAIN r = 1..Len(r)
    OBVIOUS
  <1>2. Range(r) = {r[i] : i \in 1..Len(r)}
    BY <1>1 DEF Range
  <1> DEFINE f == [i \in 1..Len(r) |-> r[i]]
  <1>3. IsFiniteSet(1..Len(r)) /\ Cardinality(1..Len(r)) = Len(r)
    BY <1>1, FS_Interval
  <1>4. f \in Bijection(1..Len(r), Range(r))
    BY <1>2 DEF Bijection, Injection, Surjection, IsInjective
  <1> HIDE DEF f
  <1>5. IsFiniteSet(Range(r)) /\ Cardinality(Range(r)) = Len(r)
    <2>1. IsFiniteSet(Range(r)) /\ Cardinality(Range(r)) = Cardinality(1..Len(r))
      <3>1. ExistsBijection(1..Len(r), Range(r))
        BY <1>4 DEF ExistsBijection
      <3> QED
        BY <1>3, <3>1, FS_Bijection
    <2> QED
      BY <1>3, <2>1
  <1> QED
    BY <1>2, <1>5

\* What the array gives the loop.
LEMMA TheArray ==
    ASSUME ShardInv, NEW p \in Position
    PROVE  LET a == Clockwise(p) IN
           /\ Len(a) \in Nat /\ DOMAIN a = 1..Len(a)
           /\ \A i \in 1..Len(a) : a[i] \in ring /\ a[i].nodeId \in Node
           /\ \A v \in ring : \E i \in 1..Len(a) : a[i] = v
           /\ \A i, j \in 1..Len(a) : Sooner(p, a[i], a[j]) <=> i < j
PROOF
  <1> DEFINE a == Clockwise(p)
  <1>1. /\ a \in Seq(ring) /\ Len(a) = Cardinality(ring) /\ Cardinality(ring) \in Nat
        /\ \A v \in ring : \E i \in 1..Cardinality(ring) : a[i] = v
        /\ \A i, j \in 1..Cardinality(ring) : Sooner(p, a[i], a[j]) <=> i < j
    BY ClockwiseIsSorted DEF ShardInv
  <1> HIDE DEF a
  <1>2. DOMAIN a = 1..Len(a) /\ \A i \in 1..Len(a) : a[i] \in ring
    BY <1>1
  <1>3. \A i \in 1..Len(a) : a[i].nodeId \in Node
    BY <1>2, FieldTypes DEF ShardInv
  <1> QED
    BY <1>1, <1>2, <1>3 DEF a

\* The replicas of a key, seen from the ring.
LEMMA ReplicasOfRing ==
    ASSUME ShardInv, NEW p \in Position, NEW count \in Nat, count # 0
    PROVE  LET r == GetReplicaNodes(p, count)
               placed == {v.nodeId : v \in ring}
           IN  /\ r \in Seq(Node) /\ Len(r) \in Nat /\ Len(r) <= count
               /\ \A i, j \in 1..Len(r) : r[i] = r[j] => i = j
               /\ Range(r) = {r[i] : i \in 1..Len(r)} /\ Range(r) \subseteq placed
               /\ Cardinality(Range(r)) = Len(r)
               /\ Len(r) < count => Range(r) = placed
               /\ ring # {} => Len(r) # 0 /\ r[1] = GetNode(p)
PROOF
  <1> DEFINE a == Clockwise(p)
             r == GetReplicaNodes(p, count)
             n == Len(a)
             placed == {v.nodeId : v \in ring}
  <1>1. /\ n \in Nat /\ DOMAIN a = 1..n
        /\ \A i \in 1..n : a[i] \in ring /\ a[i].nodeId \in Node
        /\ \A v \in ring : \E i \in 1..n : a[i] = v
        /\ \A i, j \in 1..n : Sooner(p, a[i], a[j]) <=> i < j
    BY TheArray
  <1>2. Found(a, count, n, r)
    BY <1>1, ReplicasAreFound
  <1> HIDE DEF a, r, n
  <1>3. /\ r \in Seq(Node) /\ Len(r) \in Nat /\ Len(r) <= count
        /\ \A i, j \in 1..Len(r) : r[i] = r[j] => i = j
    BY <1>2 DEF Found
  <1>4. Range(r) = {r[i] : i \in 1..Len(r)} /\ Cardinality(Range(r)) = Len(r)
    BY <1>3, DifferentElements
  <1>5. Range(r) \subseteq placed
    <2>1. \A i \in 1..Len(r) : \E j \in 1..n : r[i] = a[j].nodeId
      BY <1>2 DEF Found
    <2>2. \A i \in 1..Len(r) : r[i] \in placed
      BY <1>1, <2>1
    <2> HIDE DEF placed
    <2> QED
      BY <1>4, <2>2
  <1>6. ASSUME Len(r) < count PROVE Range(r) = placed
    <2>1. \A j \in 1..n : \E i \in 1..Len(r) : r[i] = a[j].nodeId
      BY <1>2, <1>6 DEF Found
    <2>2. ASSUME NEW v \in ring PROVE v.nodeId \in Range(r)
      BY <1>1, <1>4, <2>1
    <2> QED
      BY <1>5, <2>2
  <1>7. ASSUME ring # {} PROVE Len(r) # 0 /\ r[1] = GetNode(p)
    <2>1. n # 0 /\ 1 \in 1..n
      <3>1. PICK v \in ring : TRUE
        BY <1>7
      <3>2. PICK i \in 1..n : a[i] = v
        BY <1>1
      <3> QED
        BY <1>1, <3>2
    <2>2. Len(r) # 0 /\ r[1] = a[1].nodeId
      BY <1>2, <2>1 DEF Found
    <2>3. a[1] \in ring
      BY <1>1, <2>1
    <2>4. ASSUME NEW u \in ring \ {a[1]} PROVE Sooner(p, a[1], u)
      <3>1. PICK j \in 1..n : a[j] = u
        BY <1>1
      <3>2. 1 < j
        BY <1>1, <3>1
      <3> QED
        BY <1>1, <2>1, <3>1, <3>2
    <2>5. GetNode(p) = a[1].nodeId
      BY <2>3, <2>4, SoonestDecides DEF ShardInv
    <2> QED
      BY <2>2, <2>5
  <1> QED
    BY <1>3, <1>4, <1>5, <1>6, <1>7 DEF r

LEMMA ReplicasFollow == ShardInv => ReplicasAreNodes
PROOF
  <1> SUFFICES ASSUME ShardInv, NEW p \in Position, NEW count \in 1..Cardinality(Node)
               PROVE  LET replicas == GetReplicaNodes(p, count)
                          placed == {v.nodeId : v \in ring}
                      IN /\ Cardinality(Range(replicas)) = Len(replicas)
                         /\ Range(replicas) \subseteq placed
                         /\ Len(replicas) = IF count < Cardinality(placed)
                                            THEN count ELSE Cardinality(placed)
                         /\ ring # {} => replicas[1] = GetNode(p)
    BY DEF ReplicasAreNodes
  <1> DEFINE r == GetReplicaNodes(p, count)
             placed == {v.nodeId : v \in ring}
  <1>1. count \in Nat /\ count # 0
    OBVIOUS
  <1>2. /\ Len(r) \in Nat /\ Len(r) <= count
        /\ Range(r) \subseteq placed /\ Cardinality(Range(r)) = Len(r)
        /\ Len(r) < count => Range(r) = placed
        /\ ring # {} => r[1] = GetNode(p)
    BY <1>1, ReplicasOfRing
  <1>3. IsFiniteSet(placed)
    <2> DEFINE f == [v \in ring |-> v.nodeId]
    <2>1. f \in Surjection(ring, placed)
      BY DEF Surjection
    <2> HIDE DEF f, placed
    <2> QED
      BY <2>1, FS_Surjection DEF ShardInv
  <1> HIDE DEF r, placed
  <1>4. Cardinality(placed) \in Nat /\ Len(r) <= Cardinality(placed)
    BY <1>2, <1>3, FS_Subset, FS_CardinalityType
  <1>5. Len(r) = IF count < Cardinality(placed) THEN count ELSE Cardinality(placed)
    <2>1. CASE Len(r) < count
      BY <1>2, <1>4, <2>1
    <2>2. CASE Len(r) = count
      BY <1>1, <1>4, <2>2
    <2> QED
      BY <1>1, <1>2, <2>1, <2>2
  <1> QED
    BY <1>2, <1>5 DEF r, placed

\* HashRing!ReplicasAreNodes: the replicas of a key are different nodes, the
\* key's node first, and as many as asked for or as there are.
THEOREM ReplicasAreRight == Spec => []ReplicasAreNodes
PROOF
  BY ShardInvariant, ReplicasFollow, PTL

-----------------------------------------------------------------------------
(* Failover.                                                               *)

SoonestIsFound ==
    \A p \in Position, v \in ring :
        (\A u \in ring \ {v} : Sooner(p, v, u)) => GetNode(p) = v.nodeId

LEMMA SoonestHere == RingInv => SoonestIsFound
PROOF
  BY SoonestDecides DEF SoonestIsFound

LEMMA SoonestNext == RingInv' => SoonestIsFound'
PROOF
  BY SoonestHere, PTL

\* What stands second without the first node stands first when it has left.
LEMMA SecondBecomesFirst ==
    ASSUME ShardInv, RingInv', NEW n \in Node, RemoveNode(n), NEW p \in Position,
           GetNode(p) = n, ring' # {}
    PROVE  GetNode(p)' = GetReplicaNodes(p, 2)[2]
PROOF
  <1> DEFINE a == Clockwise(p)
             r == GetReplicaNodes(p, 2)
             m == Len(a)
  <1>1. /\ m \in Nat /\ DOMAIN a = 1..m
        /\ \A i \in 1..m : a[i] \in ring /\ a[i].nodeId \in Node
        /\ \A v \in ring : \E i \in 1..m : a[i] = v
        /\ \A i, j \in 1..m : Sooner(p, a[i], a[j]) <=> i < j
    BY TheArray
  <1>2. Found(a, 2, m, r)
    BY <1>1, ReplicasAreFound
  <1>3. /\ Len(r) \in Nat /\ Len(r) <= 2 /\ Len(r) # 0 /\ r[1] = n
        /\ \A i, j \in 1..Len(r) : r[i] = r[j] => i = j
        /\ Len(r) < 2 => \A v \in ring : \E i \in 1..Len(r) : r[i] = v.nodeId
    <2> DEFINE placed == {v.nodeId : v \in ring}
    <2>1. ring # {}
      BY DEF RemoveNode
    <2>2. /\ Len(r) \in Nat /\ Len(r) <= 2
          /\ \A i, j \in 1..Len(r) : r[i] = r[j] => i = j
          /\ Range(r) = {r[i] : i \in 1..Len(r)}
          /\ Len(r) < 2 => Range(r) = placed
          /\ ring # {} => Len(r) # 0 /\ r[1] = GetNode(p)
      BY ReplicasOfRing
    <2>3. \A v \in ring : v.nodeId \in placed
      OBVIOUS
    <2> HIDE DEF placed, r
    <2> QED
      BY <2>1, <2>2, <2>3
  <1> HIDE DEF a, r, m
  <1>4. ring' = {v \in ring : v.nodeId # n} /\ joined' = [joined EXCEPT ![n] = 0]
    BY DEF RemoveNode
  <1>5. Len(r) = 2 /\ r[2] # n
    <2>1. PICK v \in ring : v.nodeId # n
      BY <1>4
    <2>2. Len(r) # 1
      <3>1. SUFFICES ASSUME Len(r) = 1 PROVE FALSE
        OBVIOUS
      <3>2. \E i \in 1..1 : r[i] = v.nodeId
        BY <1>3, <3>1
      <3> QED
        BY <1>3, <2>1, <3>2
    <2>3. Len(r) = 2
      <3>1. ASSUME NEW l \in Nat, l <= 2, l # 0, l # 1 PROVE l = 2
        BY <3>1
      <3> QED
        BY <1>3, <2>2, <3>1
    <2>4. 1 \in 1..Len(r) /\ 2 \in 1..Len(r)
      BY <2>3
    <2> QED
      BY <1>3, <2>3, <2>4
  <1>6. PICK j \in 1..m : a[j].nodeId = r[2] /\ \A i \in 1..(j - 1) : a[i].nodeId = n
    BY <1>2, <1>3, <1>5 DEF Found
  <1>7. PICK v \in ring : v = a[j]
    BY <1>1
  <1>8. v \in ring' /\ v.nodeId # n
    BY <1>4, <1>5, <1>6, <1>7
  <1>9. ASSUME NEW u \in ring' \ {v} PROVE Sooner(p, v, u)'
    <2>1. u \in ring /\ u.nodeId # n
      BY <1>4
    <2>2. PICK i \in 1..m : a[i] = u
      BY <1>1, <2>1
    <2>3. i # j /\ i \notin 1..(j - 1)
      BY <1>6, <1>7, <2>1, <2>2
    <2>4. j < i
      BY <1>1, <2>3
    <2>5. Sooner(p, v, u)
      BY <1>1, <1>7, <2>2, <2>4
    <2>6. \A l \in Node \ {n} : joined'[l] = joined[l]
      BY <1>4 DEF ShardInv, RingInv
    <2>7. Before(v, u)' <=> Before(v, u)
      <3>1. u.nodeId \in Node /\ v.nodeId \in Node
        BY <2>1, FieldTypes DEF ShardInv
      <3> QED
        BY <1>8, <2>1, <2>6, <3>1, OrderStays
    <2> QED
      BY <2>5, <2>7 DEF Sooner
  <1>10. GetNode(p)' = v.nodeId
    BY <1>8, <1>9, SoonestNext DEF SoonestIsFound
  <1> QED
    BY <1>6, <1>7, <1>10 DEF r

\* HashRing!FailoverToReplica: when a key's node leaves, the key goes to the
\* node that already held its second replica.
THEOREM SecondReplicaTakesOver == Spec => FailoverToReplica
PROOF
  <1>1. ASSUME ShardInv, [Next]_vars, NEW p \in Position,
               GetNode(p) \in Members \ Members', ring' # {}
        PROVE  GetNode(p)' = GetReplicaNodes(p, 2)[2]
    <2>1. RingInv'
      BY <1>1, InvNext DEF ShardInv
    <2>2. PICK n \in Node : RemoveNode(n) /\ n = GetNode(p)
      <3>1. CASE UNCHANGED vars
        BY <1>1, <3>1 DEF vars, Members
      <3>2. ASSUME NEW n \in Node, NEW weight \in Weights, AddNode(n, weight) PROVE FALSE
        <4>1. joined' = [joined EXCEPT ![n] = joins + 1] /\ n \notin Members
          BY <3>2 DEF AddNode
        <4> QED
          BY <1>1, <4>1 DEF Members, ShardInv, RingInv
      <3>3. ASSUME NEW n \in Node, RemoveNode(n) PROVE n = GetNode(p)
        <4>1. joined' = [joined EXCEPT ![n] = 0]
          BY <3>3 DEF RemoveNode
        <4> QED
          BY <1>1, <4>1 DEF Members, ShardInv, RingInv
      <3> QED
        BY <1>1, <3>1, <3>2, <3>3 DEF Next
    <2>3. ring' # {}
      BY <1>1
    <2> QED
      BY <1>1, <2>1, <2>2, <2>3, SecondBecomesFirst
  <1>2. ShardInv /\ [Next]_vars =>
            [\A p \in Position : GetNode(p) \in Members \ Members' /\ ring' # {} =>
                GetNode(p)' = GetReplicaNodes(p, 2)[2]]_vars
    BY <1>1
  <1> QED
    BY <1>2, ShardInvariant, PTL DEF Spec, FailoverToReplica

-----------------------------------------------------------------------------
(* The shard manager.                                                      *)

\* The types, with the ring's own invariant.
ManagerInv ==
    /\ ShardInv
    /\ joins <= MaxJoins
    /\ operations \in Seq(Operation)
    /\ metrics \subseteq ShardId
    /\ EveryShardHasMetrics

-----------------------------------------------------------------------------
(* The shards of a node.                                                   *)

LEMMA Counts ==
    ASSUME ShardInv, NEW n \in Node
    PROVE  /\ Mine(n) \subseteq ring /\ IsFiniteSet(Mine(n))
           /\ Count(n) \in Nat /\ (Count(n) = 0 <=> n \notin Placed)
           /\ \A i \in 1..Count(n) : i - 1 \in Index
PROOF
  <1>1. RingInv /\ IsFiniteSet(ring) /\ Mine(n) \subseteq ring
    BY DEF ShardInv, Mine
  <1>2. IsFiniteSet(Mine(n)) /\ Count(n) \in Nat /\ (Count(n) = 0 <=> Mine(n) = {})
    BY <1>1, FS_Subset, FS_CardinalityType, FS_EmptySet DEF Count
  <1>3. Mine(n) = {} <=> n \notin Placed
    BY DEF Mine, Placed
  <1>4. ASSUME NEW i \in 1..Count(n) PROVE i - 1 \in Index
    <2> DEFINE f == [v \in Mine(n) |-> v.index]
               k == Replicas * Max(Weights) - 1
    <2>1. k \in Int /\ Index = 0..k
      BY LargestWeight DEF Index
    <2>2. \A u, v \in Mine(n) : u.index = v.index => u = v
      BY <1>1, SameVirtualNode DEF Mine
    <2>3. f \in Injection(Mine(n), Index)
      <3>1. \A v \in Mine(n) : v.index \in Index
        BY <1>1, FieldTypes
      <3> QED
        BY <2>2, <3>1 DEF Injection, IsInjective
    <2> HIDE DEF f, k
    <2>4. IsFiniteSet(Index) /\ Cardinality(Index) = IF 0 > k THEN 0 ELSE k - 0 + 1
      BY <2>1, FS_Interval
    <2>5. Count(n) <= Cardinality(Index)
      BY <2>3, <2>4, FS_Injection DEF Count
    <2> QED
      BY <1>2, <2>1, <2>4, <2>5
  <1> QED
    BY <1>1, <1>2, <1>3, <1>4

Number(v) == Cardinality({u \in Mine(v.nodeId) : Before(u, v)})

LEMMA Numbers ==
    ASSUME ShardInv, NEW v \in ring
    PROVE  Number(v) \in 0..(Count(v.nodeId) - 1) /\ Number(v) \in Index
PROOF
  <1> DEFINE n == v.nodeId
             S == {u \in Mine(n) : Before(u, v)}
  <1>1. n \in Node /\ v \in Mine(n)
    BY FieldTypes DEF ShardInv, Mine
  <1>2. S \in SUBSET (Mine(n) \ {v})
    BY FieldTypes DEF ShardInv, Before
  <1>3. IsFiniteSet(Mine(n)) /\ Count(n) \in Nat /\ \A i \in 1..Count(n) : i - 1 \in Index
    BY <1>1, Counts
  <1> HIDE DEF S
  <1>4. IsFiniteSet(Mine(n) \ {v}) /\ Cardinality(Mine(n) \ {v}) = Count(n) - 1
    BY <1>1, <1>3, FS_RemoveElement DEF Count
  <1>5. Cardinality(S) <= Count(n) - 1 /\ Cardinality(S) \in Nat
    BY <1>2, <1>4, FS_Subset, FS_CardinalityType
  <1>6. Number(v) = Cardinality(S)
    BY DEF Number, S
  <1> HIDE DEF n
  <1>7. Number(v) \in 0..(Count(n) - 1) /\ Number(v) + 1 \in 1..Count(n) /\ (Number(v) + 1) - 1 = Number(v)
    BY <1>3, <1>5, <1>6
  <1>8. Number(v) \in Index
    BY <1>3, <1>7
  <1> QED
    BY <1>7, <1>8 DEF n

\* In a form that holds of the next state as well.
NumbersAre == \A v \in ring : Number(v) \in Index

LEMMA NumbersNext == ShardInv' => NumbersAre'
PROOF
  <1>1. ShardInv => NumbersAre
    BY Numbers DEF NumbersAre
  <1> QED
    BY <1>1, PTL

LEMMA Ids ==
    ASSUME ShardInv, NEW n \in Node
    PROVE  IdsOf(n, shards) = {<<n, Number(v)>> : v \in Mine(n)}
PROOF
  <1>1. ASSUME NEW v \in Mine(n) PROVE <<n, Number(v)>> \in IdsOf(n, shards)
    <2>1. v \in ring /\ v.nodeId = n
      BY DEF Mine
    <2>2. ShardOf(v) \in shards /\ ShardOf(v).nodeId = n /\ ShardOf(v).number = Number(v)
      BY <2>1, EveryVirtualNodeHasAShard DEF ShardOf, Number
    <2> QED
      BY <2>2 DEF IdsOf
  <1>2. ASSUME NEW s \in shards, s.nodeId = n
        PROVE  \E v \in Mine(n) : <<s.nodeId, s.number>> = <<n, Number(v)>>
    <2>1. PICK v \in ring : s = ShardOf(v)
      BY EveryVirtualNodeHasAShard
    <2>2. v \in Mine(n) /\ s.number = Number(v)
      BY <1>2, <2>1 DEF ShardOf, Number, Mine
    <2> QED
      BY <1>2, <2>2
  <1> QED
    BY <1>1, <1>2 DEF IdsOf

IdsAre == \A n \in Node : IdsOf(n, shards) = {<<n, Number(v)>> : v \in Mine(n)}

LEMMA IdsNext == ShardInv' => IdsAre'
PROOF
  <1>1. ShardInv => IdsAre
    BY Ids DEF IdsAre
  <1> QED
    BY <1>1, PTL

-----------------------------------------------------------------------------
(* The order of the nodes.                                                 *)

LEMMA FirstOfMine ==
    ASSUME RingInv, NEW n \in Placed
    PROVE  First(Mine(n)) \in ring /\ First(Mine(n)).nodeId = n
PROOF
  <1>1. Mine(n) \in SUBSET ring /\ Mine(n) # {}
    BY DEF Mine, Placed
  <1>2. First(Mine(n)) \in Mine(n)
    BY <1>1, FirstExists
  <1> QED
    BY <1>2 DEF Mine

LEMMA AheadIsAnOrder ==
    ASSUME RingInv
    PROVE  /\ \A m \in Placed : ~Ahead(m, m)
           /\ \A m, n \in Placed : m # n => Ahead(m, n) \/ Ahead(n, m)
           /\ \A l, m, n \in Placed : Ahead(l, m) /\ Ahead(m, n) => Ahead(l, n)
PROOF
  <1>1. ASSUME NEW m \in Placed PROVE ~Ahead(m, m)
    <2> DEFINE u == First(Mine(m))
    <2>1. u \in ring
      BY FirstOfMine
    <2> HIDE DEF u
    <2>2. ~Before(u, u)
      BY <2>1, FieldTypes DEF Before
    <2> QED
      BY <2>2 DEF Ahead, u
  <1>2. ASSUME NEW m \in Placed, NEW n \in Placed, m # n PROVE Ahead(m, n) \/ Ahead(n, m)
    BY <1>2, FirstOfMine, BeforeIsTotal DEF Ahead
  <1>3. ASSUME NEW l \in Placed, NEW m \in Placed, NEW n \in Placed, Ahead(l, m), Ahead(m, n)
        PROVE  Ahead(l, n)
    BY <1>3, FirstOfMine, BeforeIsTransitive DEF Ahead
  <1> QED
    BY <1>1, <1>2, <1>3

LEMMA FirstNode ==
    ASSUME RingInv, NEW T \in SUBSET Placed, T # {}
    PROVE  \E n \in T : \A m \in T \ {n} : Ahead(n, m)
PROOF
  <1> DEFINE S == {First(Mine(m)) : m \in T}
  <1>1. S \in SUBSET ring /\ S # {}
    BY FirstOfMine
  <1>2. First(S) \in S /\ \A u \in S \ {First(S)} : Before(First(S), u)
    BY <1>1, FirstExists
  <1>3. PICK n \in T : First(S) = First(Mine(n))
    BY <1>2
  <1>4. ASSUME NEW m \in T \ {n} PROVE Ahead(n, m)
    <2>1. First(Mine(m)) \in S /\ First(Mine(m)) # First(Mine(n))
      BY FirstOfMine
    <2> HIDE DEF S
    <2> QED
      BY <1>2, <1>3, <2>1 DEF Ahead
  <1> QED
    BY <1>4

\* The manager finds a node with the fewest shards among the others.
LEMMA BestTarget ==
    ASSUME ShardInv, NEW source
    PROVE  IF Placed \ {source} = {} THEN FindBestTargetNode(source) = source
           ELSE /\ FindBestTargetNode(source) \in Placed \ {source}
                /\ \A m \in Placed \ {source} : Count(FindBestTargetNode(source)) <= Count(m)
PROOF
  <1> DEFINE others == Placed \ {source}
             least == {n \in others : \A m \in others : Count(n) <= Count(m)}
  <1>1. Placed \subseteq Node /\ RingInv
    BY FieldTypes DEF Placed, ShardInv
  <1>2. CASE others = {}
    BY <1>2 DEF FindBestTargetNode
  <1>3. CASE others # {}
    <2>1. least # {}
      <3> DEFINE T == {Count(n) : n \in others}
      <3>1. T \in SUBSET Nat /\ T # {}
        BY <1>1, <1>3, Counts
      <3>2. PICK x \in T : \A y \in T : x <= y
        BY <3>1, Loop!LeastNumber
      <3> QED
        BY <3>2
    <2>2. least \in SUBSET Placed
      OBVIOUS
    <2>3. \E n \in least : \A m \in least \ {n} : Ahead(n, m)
      BY <1>1, <2>1, <2>2, FirstNode
    <2>4. FindBestTargetNode(source) = CHOOSE n \in least : \A m \in least \ {n} : Ahead(n, m)
      BY <2>1 DEF FindBestTargetNode
    <2>5. FindBestTargetNode(source) \in least
      BY <2>3, <2>4
    <2> QED
      BY <1>3, <2>5
  <1> QED
    BY <1>2, <1>3

-----------------------------------------------------------------------------
(* Operations.                                                             *)

\* A migration of a node's shard, to a node or to wherever the manager finds.
LEMMA MoveType ==
    ASSUME ShardInv, NEW shard \in ShardId, NEW source \in Node, NEW target \in Node \cup {Nil}
    PROVE  /\ Move(shard, source, target) \in Operation
           /\ Move(shard, source, target).shard = shard
           /\ Move(shard, source, target).source = source
           /\ Move(shard, source, target).target =
                  IF target = Nil THEN FindBestTargetNode(source) ELSE target
PROOF
  <1>1. FindBestTargetNode(source) \in Node
    <2>1. Placed \subseteq Node
      BY FieldTypes DEF Placed, ShardInv
    <2> QED
      BY <2>1, BestTarget
  <1>2. target # Nil => target \in Node
    OBVIOUS
  <1> QED
    BY <1>1, <1>2 DEF Move, Operation

LEMMA Schedules ==
    ASSUME operations \in Seq(Operation), NEW moves \in Seq(Operation), ScheduleAll(moves)
    PROVE  /\ operations' \in Seq(Operation) /\ Scheduled = moves
           /\ \A i \in DOMAIN operations :
                  i \in DOMAIN operations' /\ operations'[i] = operations[i]
PROOF
  <1> DEFINE m == Len(operations)
             n == Len(moves)
             all == operations \o moves
  <1>1. operations' = all
    BY DEF ScheduleAll
  <1>2. /\ m \in Nat /\ n \in Nat /\ DOMAIN operations = 1..m /\ DOMAIN moves = 1..n
    OBVIOUS
  <1>3. /\ all \in Seq(Operation) /\ Len(all) = m + n
        /\ \A i \in 1..(m + n) : all[i] = IF i <= m THEN operations[i] ELSE moves[i - m]
    BY ConcatProperties
  <1>4. DOMAIN all = 1..(m + n)
    BY <1>3
  <1> HIDE DEF all, m, n
  <1>5. \A i \in DOMAIN operations : i \in DOMAIN all /\ all[i] = operations[i]
    BY <1>2, <1>3, <1>4
  <1>6. SubSeq(all, m + 1, m + n) = moves
    <2> DEFINE s == SubSeq(all, m + 1, m + n)
    <2>1. /\ s \in Seq(Operation) /\ Len(s) = n
          /\ \A i \in 1..n : s[i] = all[m + i]
      BY <1>2, <1>3
    <2> HIDE DEF s
    <2>2. ASSUME NEW i \in 1..n PROVE s[i] = moves[i]
      <3>1. m + i \in 1..(m + n) /\ ~(m + i <= m) /\ (m + i) - m = i
        BY <1>2
      <3>2. all[m + i] = moves[i]
        BY <1>3, <3>1
      <3> QED
        BY <2>1, <3>2
    <2>3. Len(moves) = n
      BY DEF n
    <2>4. s = moves
      BY <2>1, <2>2, <2>3, SeqEqual
    <2> QED
      BY <2>4 DEF s
  <1> QED
    BY <1>1, <1>3, <1>5, <1>6 DEF Scheduled, m

\* What removeNode schedules: every shard, to one and the same node.
LEMMA LeaversMoves ==
    ASSUME ShardInv, NEW n \in Node
    PROVE  LET moves == [i \in 1..Count(n) |-> Move(<<n, i - 1>>, n, Nil)] IN
           /\ moves \in Seq(Operation) /\ DOMAIN moves = 1..Count(n)
           /\ \A i \in 1..Count(n) : /\ moves[i].shard = <<n, i - 1>>
                                     /\ moves[i].target = FindBestTargetNode(n)
PROOF
  <1> DEFINE moves == [i \in 1..Count(n) |-> Move(<<n, i - 1>>, n, Nil)]
  <1>1. ASSUME NEW i \in 1..Count(n)
        PROVE  /\ moves[i] \in Operation /\ moves[i].shard = <<n, i - 1>>
               /\ moves[i].target = FindBestTargetNode(n)
    <2>1. <<n, i - 1>> \in ShardId
      BY Counts DEF ShardId
    <2> QED
      BY <2>1, MoveType
  <1>2. Count(n) \in Nat /\ DOMAIN moves = 1..Count(n)
    BY Counts
  <1>3. moves \in [1..Count(n) -> Operation]
    BY <1>1
  <1> HIDE DEF moves
  <1>4. moves \in Seq(Operation)
    BY <1>2, <1>3
  <1> QED
    BY <1>1, <1>2, <1>4 DEF moves

-----------------------------------------------------------------------------
(* The invariant.                                                          *)

\* The shards of a node that neither joins nor leaves keep their numbers.
LEMMA OthersKeepShards ==
    ASSUME ShardInv, ShardInv', NEW n \in Node, NEW m \in Node \ {n},
           \A v : v.nodeId = m => (v \in ring' <=> v \in ring),
           \A l \in Node \ {n} : joined'[l] = joined[l]
    PROVE  IdsOf(m, shards') = IdsOf(m, shards)
PROOF
  <1>1. Mine(m)' = Mine(m)
    BY DEF Mine
  <1>2. ASSUME NEW v \in Mine(m) PROVE Number(v)' = Number(v)
    <2>1. v.nodeId = m /\ \A u \in Mine(m) : u.nodeId = m
      BY <1>2 DEF Mine
    <2>2. \A u \in Mine(m) : Before(u, v)' <=> Before(u, v)
      BY <2>1 DEF Before
    <2> QED
      BY <1>1, <2>1, <2>2 DEF Number
  <1>3. IdsOf(m, shards) = {<<m, Number(v)>> : v \in Mine(m)}
    BY Ids
  <1>4. IdsOf(m, shards') = {<<m, Number(v)'>> : v \in Mine(m)'}
    BY IdsNext DEF IdsAre
  <1> QED
    BY <1>1, <1>2, <1>3, <1>4

LEMMA AddMemberInv ==
    ASSUME ManagerInv, NEW n \in Node, NEW weight \in Weights, AddMember(n, weight)
    PROVE  ManagerInv'
PROOF
  <1>1. /\ AddNode(n, weight) /\ metrics' = metrics \cup IdsOf(n, shards')
        /\ UNCHANGED operations
    BY DEF AddMember
  <1>2. ShardInv /\ ShardInv'
    BY <1>1, ShardInvNext DEF ManagerInv, Next
  <1>3. joins' <= MaxJoins
    BY <1>1, <1>2, RingAssumption DEF AddNode, ShardInv, RingInv
  <1>4. operations' \in Seq(Operation)'
    BY <1>1 DEF ManagerInv, Operation, ShardId, Index
  <1>5. IdsOf(n, shards') \subseteq ShardId
    <2>1. \A v \in Mine(n)' : Number(v)' \in Index
      BY <1>2, NumbersNext DEF NumbersAre, Mine
    <2> QED
      BY <1>2, <2>1, IdsNext DEF IdsAre, ShardId
  <1>6. metrics' \subseteq ShardId'
    BY <1>1, <1>5 DEF ManagerInv, ShardId, Index
  <1>7. ASSUME NEW m \in Node PROVE IdsOf(m, shards') \subseteq metrics'
    <2>1. CASE m = n
      BY <1>1, <2>1
    <2>2. CASE m # n
      <3>1. \A v : v.nodeId = m => (v \in ring' <=> v \in ring)
        <4> DEFINE I == 0..(Replicas * weight - 1)
                   new == {[nodeId |-> n, index |-> i, position |-> hash[<<n, i>>]] : i \in I}
        <4>1. ring' = ring \cup new
          BY <1>1 DEF AddNode
        <4> HIDE DEF I
        <4>2. \A v \in new : v.nodeId = n
          <5> TAKE v \in new
          <5>1. PICK i \in I : v = [nodeId |-> n, index |-> i, position |-> hash[<<n, i>>]]
            OBVIOUS
          <5> QED
            BY <5>1
        <4> HIDE DEF new
        <4> QED
          BY <2>2, <4>1, <4>2
      <3>2. \A l \in Node \ {n} : joined'[l] = joined[l]
        BY <1>1 DEF AddNode, ManagerInv, ShardInv, RingInv
      <3>3. IdsOf(m, shards') = IdsOf(m, shards)
        BY <1>2, <2>2, <3>1, <3>2, OthersKeepShards
      <3> QED
        BY <1>1, <3>3 DEF ManagerInv, EveryShardHasMetrics
    <2> QED
      BY <2>1, <2>2
  <1> QED
    BY <1>2, <1>3, <1>4, <1>6, <1>7 DEF ManagerInv, EveryShardHasMetrics

LEMMA RemoveMemberInv ==
    ASSUME ManagerInv, NEW n \in Node, RemoveMember(n)
    PROVE  ManagerInv'
PROOF
  <1>1. /\ RemoveNode(n) /\ metrics' = metrics \ IdsOf(n, shards')
        /\ ScheduleAll([i \in 1..Count(n) |-> Move(<<n, i - 1>>, n, Nil)])
    BY DEF RemoveMember
  <1>2. ShardInv /\ ShardInv'
    BY <1>1, ShardInvNext DEF ManagerInv, Next
  <1>3. joins' <= MaxJoins
    BY <1>1 DEF RemoveNode, ManagerInv
  <1>4. operations' \in Seq(Operation)
    <2> DEFINE moves == [i \in 1..Count(n) |-> Move(<<n, i - 1>>, n, Nil)]
    <2>1. moves \in Seq(Operation)
      BY <1>2, LeaversMoves
    <2> HIDE DEF moves
    <2>2. ScheduleAll(moves)
      BY <1>1 DEF moves
    <2> QED
      BY <2>1, <2>2, Schedules DEF ManagerInv
  <1>5. IdsOf(n, shards') = {}
    <2>1. Mine(n)' = {}
      BY <1>1 DEF RemoveNode, Mine
    <2> QED
      BY <1>2, <2>1, IdsNext DEF IdsAre
  <1>6. metrics' = metrics
    BY <1>1, <1>5
  <1>7. ASSUME NEW m \in Node PROVE IdsOf(m, shards') \subseteq metrics'
    <2>1. CASE m = n
      BY <1>5, <2>1
    <2>2. CASE m # n
      <3>1. \A v : v.nodeId = m => (v \in ring' <=> v \in ring)
        BY <1>1, <2>2 DEF RemoveNode
      <3>2. \A l \in Node \ {n} : joined'[l] = joined[l]
        BY <1>1 DEF RemoveNode, ManagerInv, ShardInv, RingInv
      <3>3. IdsOf(m, shards') = IdsOf(m, shards)
        BY <1>2, <2>2, <3>1, <3>2, OthersKeepShards
      <3> QED
        BY <1>6, <3>3 DEF ManagerInv, EveryShardHasMetrics
    <2> QED
      BY <2>1, <2>2
  <1>8. operations' \in Seq(Operation)' /\ metrics' \subseteq ShardId'
    BY <1>4, <1>6 DEF ManagerInv, Operation, ShardId, Index
  <1> QED
    BY <1>2, <1>3, <1>7, <1>8 DEF ManagerInv, EveryShardHasMetrics


-----------------------------------------------------------------------------
(* Rebalancing.                                                            *)

LEMMA NodesSorted ==
    ASSUME ShardInv, NEW T \in SUBSET Placed
    PROVE  /\ InOrder(T) \in Seq(T) /\ Len(InOrder(T)) = Cardinality(T)
           /\ IsFiniteSet(T) /\ Cardinality(T) \in Nat
           /\ \A i, j \in 1..Cardinality(T) : InOrder(T)[i] = InOrder(T)[j] => i = j
PROOF
  <1> DEFINE R == {w \in T \X T : Ahead(w[1], w[2])}
             n == Cardinality(T)
             a == [i \in 1..n |->
                      CHOOSE v \in T : Cardinality({u \in T : <<u, v>> \in R}) = i - 1]
  <1>1. \A u, v \in T : <<u, v>> \in R <=> Ahead(u, v)
    OBVIOUS
  <1>2. IsFiniteSet(T)
    <2> DEFINE f == [v \in ring |-> v.nodeId]
    <2>1. f \in Surjection(ring, Placed)
      BY DEF Surjection, Placed
    <2>2. IsFiniteSet(Placed)
      BY <2>1, FS_Surjection DEF ShardInv
    <2> QED
      BY <2>2, FS_Subset
  <1>3. InOrder(T) = a
    <2>1. \A v \in T : {u \in T : <<u, v>> \in R} = {u \in T : Ahead(u, v)}
      BY <1>1
    <2> HIDE DEF R
    <2>2. ASSUME NEW i
          PROVE (CHOOSE v \in T : Cardinality({u \in T : <<u, v>> \in R}) = i - 1)
                  = CHOOSE v \in T : Cardinality({u \in T : Ahead(u, v)}) = i - 1
      BY <2>1
    <2>3. InOrder(T) = [i \in 1..Cardinality(T) |->
              CHOOSE v \in T : Cardinality({u \in T : Ahead(u, v)}) = i - 1]
      BY Zenon DEF InOrder, Sorted
    <2> QED
      BY <2>2, <2>3
  <1>4. /\ \A u \in T : <<u, u>> \notin R
        /\ \A u, v \in T : u # v => <<u, v>> \in R \/ <<v, u>> \in R
        /\ \A u, v, w \in T : <<u, v>> \in R /\ <<v, w>> \in R => <<u, w>> \in R
    <2> HIDE DEF R
    <2>1. RingInv /\ \A u \in T : u \in Placed
      BY DEF ShardInv
    <2> QED
      BY <1>1, <2>1, AheadIsAnOrder
  <1>5. /\ a \in Seq(T) /\ Len(a) = n /\ n \in Nat
        /\ \A i, j \in 1..n : <<a[i], a[j]>> \in R <=> i < j
    <2> HIDE DEF R
    <2> QED
      BY <1>2, <1>4, SortedArray
  <1>6. \A i, j \in 1..n : a[i] = a[j] => i = j
    <2> HIDE DEF R, a, n
    <2> SUFFICES ASSUME NEW i \in 1..n, NEW j \in 1..n, a[i] = a[j], i # j PROVE FALSE
      OBVIOUS
    <2>1. i < j \/ j < i
      BY <1>5
    <2>2. <<a[i], a[i]>> \in R /\ a[i] \in T
      BY <1>5, <2>1
    <2> QED
      BY <1>4, <2>2
  <1> HIDE DEF R, a
  <1> QED
    BY <1>2, <1>3, <1>5, <1>6

LEMMA Numerals ==
    ASSUME ShardInv, NEW n \in Placed
    PROVE  /\ n \in Node /\ Count(n) \in Nat /\ Count(n) # 0
           /\ Cardinality(Placed) \in Nat /\ Cardinality(Placed) # 0 /\ Total \in Nat
           /\ Threshold \in Nat
PROOF
  <1>1. Placed \subseteq Node /\ Total \in Nat
    BY FieldTypes, FS_CardinalityType DEF Placed, ShardInv, Total
  <1>2. IsFiniteSet(Placed) /\ Cardinality(Placed) \in Nat
    BY NodesSorted
  <1>3. Cardinality(Placed) # 0
    BY <1>2, FS_EmptySet
  <1> QED
    BY <1>1, <1>2, <1>3, Counts, ManagerAssumption

\* How much an overloaded node has more than the average.
LEMMA ExcessIs ==
    ASSUME ShardInv, NEW n \in Overloaded
    PROVE  /\ Total < Count(n) * Cardinality(Placed)
           /\ Excess(n) \in Nat /\ Excess(n) <= Count(n)
           /\ Excess(n) * Cardinality(Placed) <= Count(n) * Cardinality(Placed) - Total
PROOF
  <1> DEFINE c == Count(n)
             p == Cardinality(Placed)
             t == Total
             d == Threshold
  <1>1. /\ n \in Placed /\ c \in Nat /\ p \in Nat /\ p # 0 /\ t \in Nat /\ d \in Nat
        /\ 100 * c * p > (100 + d) * t
        /\ Excess(n) = (c * p - t) \div p
    BY Numerals DEF Overloaded, Excess
  <1> HIDE DEF c, p, t, d
  <1>2. c * p \in Nat /\ d * t \in Nat
    BY <1>1
  <1>3. 100 * c * p = 100 * (c * p) /\ (100 + d) * t = 100 * t + d * t
    BY <1>1, Z3
  <1>4. t < c * p
    BY <1>1, <1>2, <1>3
  <1> DEFINE x == c * p - t
             e == x \div p
  <1>5. x \in Nat
    BY <1>1, <1>2, <1>4
  <1>6. ASSUME NEW y \in Nat PROVE y \div p \in Nat /\ (y \div p) * p <= y
    BY <1>1, <1>6, Z3
  <1> HIDE DEF x
  <1>7. e \in Nat /\ e * p <= x
    BY <1>5, <1>6
  <1> HIDE DEF e
  <1>8. e <= c
    <2>1. e * p <= c * p
      BY <1>1, <1>2, <1>7, Z3 DEF x
    <2> QED
      BY <1>1, <1>7, <2>1, Z3
  <1> QED
    BY <1>1, <1>4, <1>7, <1>8 DEF e, x, c, p, t, d

\* A node whose shards are more than the average is not alone, and another has
\* fewer: if each had as many, they would be more altogether than there are.
LEMMA AnotherHasFewer ==
    ASSUME ShardInv, NEW n \in Placed, Total < Count(n) * Cardinality(Placed)
    PROVE  \E m \in Placed \ {n} : Count(m) < Count(n)
PROOF
  <1> DEFINE c == Count(n)
             Of(T) == {v \in ring : v.nodeId \in T}
             P == {T \in SUBSET Placed : Cardinality(Of(T)) >= c * Cardinality(T)}
  <1>1. SUFFICES ASSUME \A m \in Placed \ {n} : ~(Count(m) < Count(n)) PROVE FALSE
    OBVIOUS
  <1>2. c \in Nat /\ \A m \in Placed : Count(m) \in Nat /\ Count(m) >= c
    BY <1>1, Numerals
  <1>3. {} \in P
    <2>1. Of({}) = {} /\ Cardinality({}) = 0
      BY FS_EmptySet
    <2> HIDE DEF Of
    <2> QED
      BY <1>2, <2>1
  <1>4. ASSUME NEW T \in SUBSET Placed, NEW m \in Placed, T \in P, m \notin T
        PROVE  T \cup {m} \in P
    <2>1. Of(T \cup {m}) = Of(T) \cup Mine(m) /\ Of(T) \cap Mine(m) = {}
      BY <1>4 DEF Mine
    <2>2. /\ IsFiniteSet(Of(T)) /\ IsFiniteSet(Mine(m))
          /\ Cardinality(Of(T)) \in Nat /\ Cardinality(Mine(m)) \in Nat
      <3>1. Of(T) \subseteq ring /\ Mine(m) \subseteq ring
        BY DEF Mine
      <3> QED
        BY <3>1, FS_Subset, FS_CardinalityType DEF ShardInv
    <2>3. IsFiniteSet(T) /\ Cardinality(T) \in Nat
      BY NodesSorted
    <2>4. Cardinality(T \cup {m}) = Cardinality(T) + 1
      BY <1>4, <2>3, FS_AddElement
    <2>5. Cardinality(Of(T)) >= c * Cardinality(T)
      BY <1>4
    <2> HIDE DEF Of
    <2>6. Cardinality(Of(T \cup {m})) = Cardinality(Of(T)) + Cardinality(Mine(m))
      <3>1. ASSUME NEW A, NEW B, IsFiniteSet(A), IsFiniteSet(B), A \cap B = {},
                   Cardinality(A) \in Nat, Cardinality(B) \in Nat
            PROVE  Cardinality(A \cup B) = Cardinality(A) + Cardinality(B)
        <4>1. Cardinality(A \cap B) = 0
          BY <3>1, FS_EmptySet
        <4> QED
          <5>1. Cardinality(A \cup B) = Cardinality(A) + Cardinality(B) - Cardinality(A \cap B)
            BY <3>1, FS_Union, Zenon
          <5> QED
            BY <3>1, <4>1, <5>1
      <3> QED
        BY <2>1, <2>2, <3>1
    <2>7. Cardinality(Mine(m)) >= c
      BY <1>2 DEF Count
    <2> HIDE DEF c
    <2>8. c * (Cardinality(T) + 1) = c * Cardinality(T) + c /\ c * Cardinality(T) \in Nat
      BY <1>2, <2>3, Z3
    <2>9. Cardinality(Of(T \cup {m})) >= c * Cardinality(T \cup {m})
      BY <1>2, <2>2, <2>3, <2>4, <2>5, <2>6, <2>7, <2>8
    <2> QED
      BY <2>9
  <1>5. Placed \in P
    <2>1. Loop!IsFiniteSet(Placed)
      BY NodesSorted DEF IsFiniteSet, Loop!IsFiniteSet
    <2> HIDE DEF P
    <2>2. \A T \in SUBSET Placed, m \in Placed : T \in P /\ m \notin T => T \cup {m} \in P
      BY <1>4
    <2> QED
      BY <1>3, <2>1, <2>2, Loop!Subsets
  <1>6. Of(Placed) = ring
    BY DEF Placed
  <1> HIDE DEF Of
  <1>7. Total >= c * Cardinality(Placed)
    BY <1>5, <1>6 DEF Total
  <1>8. c * Cardinality(Placed) = Count(n) * Cardinality(Placed) /\ c * Cardinality(Placed) \in Nat
    BY Numerals
  <1> QED
    BY <1>7, <1>8, Numerals

\* Where rebalancing moves a shard to has fewer.
LEMMA TargetHasFewer ==
    ASSUME ShardInv, NEW n \in Overloaded, NEW m,
           IF Underloaded = {} THEN m = FindBestTargetNode(n) ELSE m \in Underloaded
    PROVE  m \in Node /\ Count(m) < Count(n)
PROOF
  <1>1. n \in Placed /\ Total < Count(n) * Cardinality(Placed)
    BY ExcessIs DEF Overloaded
  <1>2. CASE Underloaded = {}
    <2>1. PICK l \in Placed \ {n} : Count(l) < Count(n)
      BY <1>1, AnotherHasFewer
    <2>2. m \in Placed \ {n} /\ Count(m) <= Count(l)
      BY <1>2, <2>1, BestTarget
    <2>3. m \in Node /\ Count(m) \in Nat /\ Count(l) \in Nat /\ Count(n) \in Nat
      BY <1>1, <2>1, <2>2, Numerals
    <2> QED
      BY <2>1, <2>2, <2>3
  <1>3. CASE Underloaded # {}
    <2> DEFINE c == Count(n)
               b == Count(m)
               p == Cardinality(Placed)
               t == Total
               d == Threshold
    <2>1. m \in Placed /\ m \in Underloaded
      BY <1>3 DEF Underloaded
    <2>2. /\ m \in Node /\ b \in Nat /\ c \in Nat /\ p \in Nat /\ p # 0 /\ t \in Nat /\ d \in Nat
          /\ 100 * c * p > (100 + d) * t /\ 100 * b * p < (100 - d) * t
      BY <1>1, <2>1, Numerals DEF Overloaded, Underloaded
    <2> HIDE DEF c, b, p, t, d
    <2>3. /\ 100 * c * p = 100 * (c * p) /\ (100 + d) * t = 100 * t + d * t
          /\ 100 * b * p = 100 * (b * p) /\ (100 - d) * t = 100 * t - d * t
      BY <2>2, Z3
    <2>4. d * t \in Nat /\ c * p \in Nat /\ b * p \in Nat
      BY <2>2
    <2>5. b * p < c * p
      BY <2>2, <2>3, <2>4
    <2>6. b < c
      BY <2>2, <2>5, Z3
    <2> QED
      BY <2>2, <2>6 DEF b, c
  <1> QED
    BY <1>2, <1>3

\* The moves of one overloaded node: as many as it has too many, of shards of
\* its own.
LEMMA MovesOfOne ==
    ASSUME ShardInv, NEW n \in Overloaded
    PROVE  /\ MovesFrom(n) \in Seq(Operation) /\ Len(MovesFrom(n)) = Excess(n)
           /\ \A i \in 1..Excess(n) :
                  /\ MovesFrom(n)[i].shard = <<n, i - 1>> /\ MovesFrom(n)[i].source = n
                  /\ Count(MovesFrom(n)[i].target) < Count(n)
PROOF
  <1> DEFINE under == InOrder(Underloaded)
             To(i) == IF Underloaded = {} THEN Nil ELSE under[((i - 1) % Len(under)) + 1]
             k == Excess(n)
  <1>1. n \in Node /\ n \in Placed /\ k \in Nat /\ k <= Count(n) /\ Count(n) \in Nat
    BY ExcessIs, Numerals DEF Overloaded
  <1>2. MovesFrom(n) = [i \in 1..k |-> Move(<<n, i - 1>>, n, To(i))]
    BY DEF MovesFrom
  <1>3. ASSUME NEW i \in 1..k PROVE IF Underloaded = {} THEN To(i) = Nil ELSE To(i) \in Underloaded
    <2>1. Underloaded \in SUBSET Placed
      BY DEF Underloaded
    <2>2. /\ under \in Seq(Underloaded) /\ Len(under) = Cardinality(Underloaded)
          /\ IsFiniteSet(Underloaded) /\ Cardinality(Underloaded) \in Nat
      BY <2>1, NodesSorted
    <2>3. CASE Underloaded # {}
      <3>1. Len(under) \in Nat /\ Len(under) # 0
        BY <2>2, <2>3, FS_EmptySet
      <3> HIDE DEF under
      <3>2. ASSUME NEW l \in Nat, l # 0, NEW x \in Nat PROVE (x % l) + 1 \in 1..l
        BY <3>2
      <3>3. i - 1 \in Nat
        BY <1>1
      <3>4. ((i - 1) % Len(under)) + 1 \in 1..Len(under)
        BY <3>1, <3>2, <3>3
      <3> QED
        BY <2>2, <2>3, <3>4
    <2> QED
      BY <2>3
  <1> HIDE DEF To, k
  <1>4. ASSUME NEW i \in 1..k
        PROVE  /\ MovesFrom(n)[i] \in Operation /\ MovesFrom(n)[i].shard = <<n, i - 1>>
               /\ MovesFrom(n)[i].source = n /\ Count(MovesFrom(n)[i].target) < Count(n)
    <2>1. <<n, i - 1>> \in ShardId
      <3>1. i \in 1..Count(n)
        BY <1>1
      <3> QED
        BY <1>1, <3>1, Counts DEF ShardId
    <2>2. Underloaded \subseteq Node /\ Nil \notin Node
      BY Numerals, NilAssumption DEF Underloaded
    <2>3. To(i) \in Node \cup {Nil} /\ (To(i) = Nil <=> Underloaded = {})
      BY <1>3, <2>2
    <2>4. MovesFrom(n)[i] = Move(<<n, i - 1>>, n, To(i))
      BY <1>2
    <2>5. /\ Move(<<n, i - 1>>, n, To(i)) \in Operation
          /\ Move(<<n, i - 1>>, n, To(i)).shard = <<n, i - 1>>
          /\ Move(<<n, i - 1>>, n, To(i)).source = n
          /\ Move(<<n, i - 1>>, n, To(i)).target =
                 IF To(i) = Nil THEN FindBestTargetNode(n) ELSE To(i)
      BY <1>1, <2>1, <2>3, MoveType
    <2>6. Count(Move(<<n, i - 1>>, n, To(i)).target) < Count(n)
      BY <1>3, <2>3, <2>5, TargetHasFewer
    <2> QED
      BY <2>4, <2>5, <2>6
  <1>5. MovesFrom(n) \in [1..k -> Operation]
    BY <1>2, <1>4
  <1>6. MovesFrom(n) \in Seq(Operation) /\ Len(MovesFrom(n)) = k
    BY <1>1, <1>5
  <1> QED
    BY <1>4, <1>6 DEF k


-----------------------------------------------------------------------------
(* The loop of rebalance.                                                  *)

MovesOfOneMore(none, moves, source) == moves \o MovesFrom(source)

Moving == INSTANCE LoopLemmas WITH Op <- MovesOfOneMore

\* A move that the loop may have collected.
GoodMove(move) ==
    /\ move.source \in Overloaded
    /\ \E i \in 1..Excess(move.source) : move.shard = <<move.source, i - 1>>
    /\ Count(move.target) < Count(move.source)

\* What the loop has collected in moves after it has looked at k nodes of
\* over: good moves of those nodes, no shard twice.
Collected(over, k, moves) ==
    /\ moves \in Seq(Operation)
    /\ \A i \in 1..Len(moves) : GoodMove(moves[i])
    /\ \A i \in 1..Len(moves) : \E j \in 1..k : moves[i].source = over[j]
    /\ \A i, j \in 1..Len(moves) : moves[i].shard = moves[j].shard => i = j

LEMMA OneMoreNode ==
    ASSUME ShardInv, NEW n \in Nat, NEW over, \A j \in 1..n : over[j] \in Overloaded,
           \A i, j \in 1..n : over[i] = over[j] => i = j,
           NEW k \in 0..(n - 1), NEW moves, Collected(over, k, moves)
    PROVE  Collected(over, k + 1, MovesOfOneMore(0, moves, over[k + 1]))
PROOF
  <1> DEFINE l == Len(moves)
             from == MovesFrom(over[k + 1])
             e == Excess(over[k + 1])
             all == moves \o from
  <1>1. k + 1 \in 1..n /\ over[k + 1] \in Overloaded
    OBVIOUS
  <1>2. /\ from \in Seq(Operation) /\ Len(from) = e /\ e \in Nat
        /\ \A i \in 1..e : /\ from[i].shard = <<over[k + 1], i - 1>> /\ from[i].source = over[k + 1]
                            /\ Count(from[i].target) < Count(over[k + 1])
    BY <1>1, MovesOfOne, ExcessIs
  <1>3. moves \in Seq(Operation) /\ l \in Nat
    BY DEF Collected
  <1> HIDE DEF from, e
  <1>4. /\ all \in Seq(Operation) /\ Len(all) = l + e
        /\ \A i \in 1..(l + e) : all[i] = IF i <= l THEN moves[i] ELSE from[i - l]
    BY <1>2, <1>3, ConcatProperties
  <1> HIDE DEF all, l
  <1>5. ASSUME NEW i \in 1..(l + e), ~(i <= l)
        PROVE  /\ i - l \in 1..e /\ all[i] = from[i - l]
               /\ all[i].source = over[k + 1] /\ all[i].shard = <<over[k + 1], (i - l) - 1>>
               /\ GoodMove(all[i])
    <2>1. i - l \in 1..e
      BY <1>2, <1>3, <1>5
    <2>2. all[i] = from[i - l]
      BY <1>4, <1>5
    <2> QED
      BY <1>1, <1>2, <2>1, <2>2 DEF GoodMove, e
  <1>6. ASSUME NEW i \in 1..(l + e), i <= l
        PROVE  /\ i \in 1..l /\ all[i] = moves[i] /\ GoodMove(all[i])
               /\ \E j \in 1..k : all[i].source = over[j]
    <2>1. i \in 1..l /\ all[i] = moves[i]
      BY <1>3, <1>4, <1>6
    <2> QED
      BY <2>1 DEF Collected, l
  <1>7. \A i \in 1..(l + e) : GoodMove(all[i])
    BY <1>5, <1>6
  <1>8. ASSUME NEW i \in 1..(l + e) PROVE \E j \in 1..(k + 1) : all[i].source = over[j]
    <2>1. k + 1 \in 1..(k + 1) /\ 1..k \subseteq 1..(k + 1)
      OBVIOUS
    <2> QED
      BY <1>5, <1>6, <2>1
  <1>9. \A i \in 1..(l + e) : all[i].shard[1] = all[i].source
    BY <1>7 DEF GoodMove
  <1>10. ASSUME NEW i \in 1..(l + e), NEW j \in 1..(l + e), i <= l, ~(j <= l)
         PROVE  all[i].shard # all[j].shard
    <2>1. PICK h \in 1..k : all[i].source = over[h]
      BY <1>6, <1>10
    <2>2. all[j].source = over[k + 1]
      BY <1>5, <1>10
    <2>3. h \in 1..n /\ h # k + 1
      BY <1>1
    <2>4. over[h] # over[k + 1]
      BY <1>1, <2>3
    <2> QED
      BY <1>9, <2>1, <2>2, <2>4
  <1>11. ASSUME NEW i \in 1..(l + e), NEW j \in 1..(l + e), all[i].shard = all[j].shard
         PROVE  i = j
    <2>1. CASE i <= l /\ j <= l
      <3>1. i \in 1..l /\ j \in 1..l /\ moves[i].shard = moves[j].shard
        BY <1>6, <1>11, <2>1
      <3> QED
        BY <3>1 DEF Collected, l
    <2>2. CASE ~(i <= l) /\ ~(j <= l)
      <3>1. <<over[k + 1], (i - l) - 1>> = <<over[k + 1], (j - l) - 1>>
        BY <1>5, <1>11, <2>2
      <3>2. (i - l) - 1 = (j - l) - 1
        BY <3>1
      <3> QED
        BY <1>2, <1>3, <3>2
    <2> QED
      BY <1>10, <1>11, <2>1, <2>2
  <1>12. Collected(over, k + 1, all)
    BY <1>4, <1>7, <1>8, <1>11 DEF Collected
  <1> QED
    BY <1>12 DEF MovesOfOneMore, all, from

LEMMA MovesCollected ==
    ASSUME ShardInv
    PROVE  Collected(InOrder(Overloaded), Cardinality(Overloaded), RebalancingMoves)
PROOF
  <1> DEFINE over == InOrder(Overloaded)
             n == Cardinality(Overloaded)
  <1>1. /\ over \in Seq(Overloaded) /\ Len(over) = n /\ n \in Nat
        /\ \A i, j \in 1..n : over[i] = over[j] => i = j
    <2>1. Overloaded \in SUBSET Placed
      BY DEF Overloaded
    <2> QED
      BY <2>1, NodesSorted
  <1>2. RebalancingMoves = Moving!Fold(0, <<>>, over)
    BY DEF RebalancingMoves, MovesOfOneMore, Moving!Fold, Moving!FoldLeft, Moving!MapThenFoldSet,
        FoldOver, MapThenFoldSet, Max, Moving!Max
  <1> HIDE DEF over, n
  <1>3. DOMAIN over = 1..n /\ \A j \in 1..n : over[j] \in Overloaded
    BY <1>1
  <1>4. PICK turn : Moving!Turning(0, <<>>, over, n, turn)
    BY <1>1, <1>3, Moving!Turns
  <1> DEFINE P == {k \in Nat : k <= n => Collected(over, k, turn[k])}
  <1>5. 0 \in P
    <2>1. turn[0] = <<>> /\ <<>> \in Seq(Operation) /\ Len(<<>>) = 0 /\ 1..0 = {}
      BY <1>4 DEF Moving!Turning
    <2>2. Collected(over, 0, <<>>)
      BY <2>1 DEF Collected
    <2> QED
      BY <2>1, <2>2
  <1>6. ASSUME NEW k \in 0..(n - 1), k \in P PROVE k + 1 \in P
    <2>1. k + 1 \in 1..n /\ (k + 1) - 1 = k /\ Collected(over, k, turn[k])
      BY <1>1, <1>6
    <2>2. turn[k + 1] = MovesOfOneMore(0, turn[k], over[k + 1])
      BY <1>4, <2>1 DEF Moving!Turning
    <2>3. Collected(over, k + 1, MovesOfOneMore(0, turn[k], over[k + 1]))
      BY <1>1, <1>3, <2>1, OneMoreNode
    <2> QED
      BY <2>1, <2>2, <2>3
  <1>7. P \in SUBSET Nat
    OBVIOUS
  <1> HIDE DEF P
  <1>8. n \in P
    <2>1. 0..n \subseteq P
      BY <1>1, <1>5, <1>6, <1>7, Loop!UpTo
    <2> QED
      BY <1>1, <2>1
  <1>9. turn[n] = RebalancingMoves
    BY <1>2, <1>4 DEF Moving!Turning
  <1> QED
    BY <1>1, <1>8, <1>9 DEF P, over, n


\* What moves take from one node: not more than it has above the average, no
\* shard twice, and none to a node that has as many.
TakenFairly(moves, n) ==
    LET gone == {i \in DOMAIN moves : moves[i].source = n}
    IN  /\ gone # {} => (Count(n) - Cardinality(gone)) * Cardinality(Placed) >= Total
        /\ Cardinality({moves[i].shard : i \in gone}) = Cardinality(gone)
        /\ \A i \in gone : Count(moves[i].target) < Count(n)

LEMMA TakenFromOne ==
    ASSUME ShardInv, NEW over, NEW k, NEW moves, Collected(over, k, moves), NEW n \in Placed
    PROVE  TakenFairly(moves, n)
PROOF
  <1> DEFINE gone == {i \in DOMAIN moves : moves[i].source = n}
             gives == {moves[i].shard : i \in gone}
             c == Count(n)
             p == Cardinality(Placed)
             e == Excess(n)
             g == Cardinality(gone)
  <1>1. Len(moves) \in Nat /\ DOMAIN moves = 1..Len(moves)
    BY DEF Collected
  <1>2. IsFiniteSet(gone) /\ g \in Nat
    <2>1. IsFiniteSet(1..Len(moves))
      BY <1>1, FS_Interval
    <2>2. gone \subseteq 1..Len(moves)
      BY <1>1
    <2> HIDE DEF gone
    <2> QED
      BY <2>1, <2>2, FS_Subset, FS_CardinalityType
  <1>3. \A i \in gone : GoodMove(moves[i]) /\ moves[i].source = n
    BY <1>1 DEF Collected
  <1>4. \A i, j \in gone : moves[i].shard = moves[j].shard => i = j
    BY <1>1 DEF Collected
  <1> HIDE DEF gone
  <1>5. ASSUME gone # {} PROVE n \in Overloaded /\ g <= e
    <2> DEFINE f == [i \in gone |-> moves[i].shard[2] + 1]
    <2>1. n \in Overloaded
      BY <1>3, <1>5 DEF GoodMove
    <2>2. e \in Nat
      BY <2>1, ExcessIs
    <2> HIDE DEF e
    <2>3. ASSUME NEW i \in gone
          PROVE  moves[i].shard = <<n, moves[i].shard[2]>> /\ moves[i].shard[2] + 1 \in 1..e
                 /\ moves[i].shard[2] \in Int
      <3>1. PICK j \in 1..e : moves[i].shard = <<n, j - 1>>
        BY <1>3 DEF GoodMove, e
      <3>2. moves[i].shard[2] = j - 1 /\ (j - 1) + 1 = j /\ j - 1 \in Int
        BY <2>2, <3>1
      <3> QED
        BY <3>1, <3>2
    <2>4. f \in Injection(gone, 1..e)
      <3>1. f \in [gone -> 1..e]
        BY <2>3
      <3>2. ASSUME NEW i \in gone, NEW j \in gone, f[i] = f[j] PROVE i = j
        <4>1. moves[i].shard[2] = moves[j].shard[2]
          BY <2>3, <3>2
        <4>2. moves[i].shard = moves[j].shard
          BY <2>3, <4>1
        <4> QED
          BY <1>4, <4>2
      <3> HIDE DEF f
      <3> QED
        BY <3>1, <3>2 DEF Injection, IsInjective
    <2> HIDE DEF f
    <2>5. IsFiniteSet(1..e) /\ Cardinality(1..e) = e
      BY <2>2, FS_Interval
    <2>6. g <= e
      BY <2>4, <2>5, FS_Injection
    <2> QED
      BY <2>1, <2>6
  <1>6. ASSUME gone # {} PROVE (c - g) * p >= Total
    <2>1. /\ c \in Nat /\ p \in Nat /\ Total \in Nat /\ e \in Nat /\ g \in Nat /\ g <= e
          /\ e * p <= c * p - Total
      BY <1>2, <1>5, <1>6, ExcessIs, Numerals
    <2> HIDE DEF c, p, g, e
    <2>2. g * p <= e * p /\ (c - g) * p = c * p - g * p
      BY <2>1, Z3
    <2>3. g * p \in Nat /\ e * p \in Nat /\ c * p \in Nat
      BY <2>1
    <2> QED
      BY <2>1, <2>2, <2>3
  <1>7. Cardinality(gives) = g
    <2> DEFINE h == [i \in gone |-> moves[i].shard]
    <2>1. h \in Bijection(gone, gives)
      BY <1>4 DEF Bijection, Injection, Surjection, IsInjective
    <2> HIDE DEF h, gives
    <2>2. ExistsBijection(gone, gives)
      BY <2>1 DEF ExistsBijection
    <2> QED
      BY <1>2, <2>2, FS_Bijection
  <1>8. \A i \in gone : Count(moves[i].target) < Count(n)
    BY <1>3 DEF GoodMove
  <1> QED
    BY <1>6, <1>7, <1>8 DEF gone, TakenFairly

-----------------------------------------------------------------------------
(* The invariant, and what no step does.                                   *)

LEMMA ManagerInvInit == ManagerInit => ManagerInv
PROOF
  <1> SUFFICES ASSUME ManagerInit PROVE ManagerInv
    OBVIOUS
  <1>1. ShardInv /\ joins <= MaxJoins
    BY ShardInvInit, RingAssumption DEF ManagerInit, Init
  <1>2. operations \in Seq(Operation) /\ metrics \subseteq ShardId /\ EveryShardHasMetrics
    BY DEF ManagerInit, Init, EveryShardHasMetrics, IdsOf
  <1> QED
    BY <1>1, <1>2 DEF ManagerInv

\* A step of the operations alone.
LEMMA OperationsInv ==
    ASSUME ManagerInv, UNCHANGED <<vars, metrics>>, operations' \in Seq(Operation)
    PROVE  ManagerInv'
PROOF
  <1>1. ShardInv'
    BY ShardInvNext DEF ManagerInv
  <1>2. UNCHANGED <<joins, shards, metrics>>
    BY DEF vars
  <1>3. EveryShardHasMetrics' /\ joins' <= MaxJoins
    BY <1>2 DEF ManagerInv, EveryShardHasMetrics, IdsOf
  <1>4. operations' \in Seq(Operation)' /\ metrics' \subseteq ShardId'
    BY <1>2 DEF ManagerInv, Operation, ShardId, Index
  <1> QED
    BY <1>1, <1>3, <1>4 DEF ManagerInv

LEMMA RequestedMoves ==
    ASSUME ShardInv, NEW r \in Requests
    PROVE  <<Move(r.shard, r.source, r.target)>> \in Seq(Operation)
PROOF
  <1>1. r.shard \in ShardId /\ r.source \in Node /\ r.target \in Node \cup {Nil}
    BY ManagerAssumption DEF Request
  <1>2. Move(r.shard, r.source, r.target) \in Operation
    BY <1>1, MoveType
  <1> QED
    BY <1>2

\* What a step of one operation does to the sequence.
LEMMA StatusChanges ==
    ASSUME ManagerInv, NEW i \in DOMAIN operations,
           NEW s \in {"pending", "in_progress", "completed"},
           operations' = [operations EXCEPT ![i].status = s]
    PROVE  /\ operations' \in Seq(Operation) /\ DOMAIN operations' = DOMAIN operations
           /\ operations'[i] = [operations[i] EXCEPT !.status = s]
           /\ \A j \in DOMAIN operations \ {i} : operations'[j] = operations[j]
PROOF
  <1>1. operations \in Seq(Operation) /\ operations[i] \in Operation
    BY DEF ManagerInv
  <1>2. [operations[i] EXCEPT !.status = s] \in Operation
    BY <1>1 DEF Operation
  <1>3. operations' = [operations EXCEPT ![i] = [operations[i] EXCEPT !.status = s]]
    BY <1>1
  <1>4. operations' \in Seq(Operation)
    BY <1>1, <1>2, <1>3
  <1> QED
    BY <1>1, <1>3, <1>4


LEMMA RebalanceSchedules ==
    ASSUME ManagerInv, Rebalance
    PROVE  /\ RebalancingMoves \in Seq(Operation) /\ Scheduled = RebalancingMoves
           /\ operations' \in Seq(Operation)
           /\ \A i \in DOMAIN operations : i \in DOMAIN operations' /\ operations'[i] = operations[i]
           /\ Collected(InOrder(Overloaded), Cardinality(Overloaded), RebalancingMoves)
PROOF
  <1>1. Collected(InOrder(Overloaded), Cardinality(Overloaded), RebalancingMoves)
    BY MovesCollected DEF ManagerInv
  <1>2. RebalancingMoves \in Seq(Operation)
    BY <1>1 DEF Collected
  <1> QED
    BY <1>1, <1>2, Schedules DEF Rebalance, ManagerInv

LEMMA ManagerInvNext == ManagerInv /\ [ManagerNext]_managerVars => ManagerInv'
PROOF
  <1> SUFFICES ASSUME ManagerInv, [ManagerNext]_managerVars PROVE ManagerInv'
    OBVIOUS
  <1>1. CASE UNCHANGED managerVars
    BY <1>1, OperationsInv DEF managerVars, ManagerInv
  <1>2. ASSUME NEW n \in Node, NEW weight \in Weights, AddMember(n, weight) PROVE ManagerInv'
    BY <1>2, AddMemberInv
  <1>3. ASSUME NEW n \in Node, RemoveMember(n) PROVE ManagerInv'
    BY <1>3, RemoveMemberInv
  <1>4. ASSUME NEW r \in Requests, ScheduleShardMigration(r) PROVE ManagerInv'
    <2>1. <<Move(r.shard, r.source, r.target)>> \in Seq(Operation)
      BY RequestedMoves DEF ManagerInv
    <2>2. operations' \in Seq(Operation)
      BY <1>4, <2>1, Schedules DEF ScheduleShardMigration, ManagerInv
    <2> QED
      BY <1>4, <2>2, OperationsInv DEF ScheduleShardMigration
  <1>5. CASE Rebalance
    BY <1>5, RebalanceSchedules, OperationsInv DEF Rebalance
  <1>6. ASSUME NEW i \in DOMAIN operations, ExecuteShardOperation(i) PROVE ManagerInv'
    BY <1>6, StatusChanges, OperationsInv DEF ExecuteShardOperation
  <1>7. ASSUME NEW i \in DOMAIN operations, ExecuteShardMove(i) PROVE ManagerInv'
    BY <1>7, StatusChanges, OperationsInv DEF ExecuteShardMove
  <1> QED
    BY <1>1, <1>2, <1>3, <1>4, <1>5, <1>6, <1>7 DEF ManagerNext

LEMMA ManagerInvariant == ManagerSpec => []ManagerInv
PROOF
  BY ManagerInvInit, ManagerInvNext, PTL DEF ManagerSpec

\* ShardManager!ManagerTypeOK: the types; and every shard of the ring has
\* metrics, although a join looks only at the node that joins.
THEOREM ManagerTypesOK == ManagerSpec => []ManagerTypeOK
PROOF
  <1>1. ASSUME ManagerInv PROVE ManagerTypeOK
    <2>1. ShardInv /\ RingInv /\ joins <= MaxJoins
      BY <1>1 DEF ManagerInv, ShardInv
    <2>2. joins \in 0..MaxJoins /\ joined \in [Node -> 0..MaxJoins]
      BY <2>1, RingAssumption DEF RingInv
    <2>3. ASSUME NEW s \in shards PROVE s \in Shard /\ s.number \in Index
      <3>1. PICK v \in ring : s = ShardOf(v)
        BY <2>1, EveryVirtualNodeHasAShard
      <3>2. s.number = Number(v)
        BY <3>1 DEF ShardOf, Number
      <3> QED
        BY <2>1, <3>1, <3>2, ShardTypes, Numbers
    <2>4. TypeOK
      BY <2>1, <2>2, <2>3 DEF TypeOK, RingInv
    <2> QED
      BY <1>1, <2>4 DEF ManagerTypeOK, ManagerInv
  <1>2. ManagerInv => ManagerTypeOK
    BY <1>1
  <1> QED
    BY <1>2, ManagerInvariant, PTL

\* ShardManager!OperationsRunOnce: whoever asks again, before, while or after
\* an operation runs, its status goes on from one to the next and nothing else
\* of it changes.
THEOREM EachOperationRunsOnce == ManagerSpec => OperationsRunOnce
PROOF
  <1> DEFINE RunsOn(i) ==
                 /\ i \in DOMAIN operations'
                 /\ operations'[i] # operations[i] =>
                       \/ /\ operations[i].status = "pending"
                          /\ operations'[i] = [operations[i] EXCEPT !.status = "in_progress"]
                       \/ /\ operations[i].status = "in_progress"
                          /\ operations'[i] = [operations[i] EXCEPT !.status = "completed"]
  <1>1. ASSUME ManagerInv, [ManagerNext]_managerVars, NEW i \in DOMAIN operations PROVE RunsOn(i)
    <2>1. CASE UNCHANGED operations
      BY <2>1
    <2>2. CASE \A j \in DOMAIN operations : j \in DOMAIN operations' /\ operations'[j] = operations[j]
      BY <2>2
    <2>3. ASSUME NEW n \in Node, RemoveMember(n)
          PROVE  \A j \in DOMAIN operations : j \in DOMAIN operations' /\ operations'[j] = operations[j]
      <3> DEFINE moves == [l \in 1..Count(n) |-> Move(<<n, l - 1>>, n, Nil)]
      <3>1. moves \in Seq(Operation)
        BY <1>1, LeaversMoves DEF ManagerInv
      <3> HIDE DEF moves
      <3>2. ScheduleAll(moves)
        BY <2>3 DEF RemoveMember, moves
      <3> QED
        BY <1>1, <3>1, <3>2, Schedules DEF ManagerInv
    <2>4. ASSUME NEW r \in Requests, ScheduleShardMigration(r)
          PROVE  \A j \in DOMAIN operations : j \in DOMAIN operations' /\ operations'[j] = operations[j]
      <3>1. <<Move(r.shard, r.source, r.target)>> \in Seq(Operation)
        BY <1>1, RequestedMoves DEF ManagerInv
      <3> QED
        BY <1>1, <2>4, <3>1, Schedules DEF ScheduleShardMigration, ManagerInv
    <2>5. CASE Rebalance
      BY <1>1, <2>2, <2>5, RebalanceSchedules
    <2>6. ASSUME NEW j \in DOMAIN operations, ExecuteShardOperation(j) PROVE RunsOn(i)
      <3>1. /\ DOMAIN operations' = DOMAIN operations
            /\ operations'[j] = [operations[j] EXCEPT !.status = "in_progress"]
            /\ \A l \in DOMAIN operations \ {j} : operations'[l] = operations[l]
        BY <1>1, <2>6, StatusChanges DEF ExecuteShardOperation
      <3> QED
        BY <2>6, <3>1 DEF ExecuteShardOperation
    <2>7. ASSUME NEW j \in DOMAIN operations, ExecuteShardMove(j) PROVE RunsOn(i)
      <3>1. /\ DOMAIN operations' = DOMAIN operations
            /\ operations'[j] = [operations[j] EXCEPT !.status = "completed"]
            /\ \A l \in DOMAIN operations \ {j} : operations'[l] = operations[l]
        BY <1>1, <2>7, StatusChanges DEF ExecuteShardMove
      <3> QED
        BY <2>7, <3>1 DEF ExecuteShardMove
    <2>8. ASSUME NEW n \in Node, NEW weight \in Weights, AddMember(n, weight) PROVE UNCHANGED operations
      BY <2>8 DEF AddMember
    <2>9. ManagerNext \/ UNCHANGED operations
      BY <1>1 DEF managerVars
    <2> HIDE DEF RunsOn
    <2> QED
      BY <2>1, <2>2, <2>3, <2>4, <2>5, <2>6, <2>7, <2>8, <2>9 DEF ManagerNext
  <1>2. ManagerInv /\ [ManagerNext]_managerVars =>
            [\A i \in DOMAIN operations : RunsOn(i)]_managerVars
    <2> HIDE DEF RunsOn
    <2> QED
      BY <1>1
  <1> QED
    BY <1>2, ManagerInvariant, PTL DEF ManagerSpec, OperationsRunOnce

\* ShardManager!LeaversShardsMoveToStayers: each shard of a node that leaves is
\* scheduled to move to one and the same node, one that stays if any does.
THEOREM LeaversShardsMove == ManagerSpec => LeaversShardsMoveToStayers
PROOF
  <1> DEFINE Settled(n, target) ==
                 /\ Placed \ {n} # {} => target \in Placed \ {n}
                 /\ \A id \in IdsOf(n, shards) : \E i \in DOMAIN Scheduled :
                        Scheduled[i].shard = id /\ Scheduled[i].target = target
  <1>1. ASSUME ManagerInv, [ManagerNext]_managerVars, NEW n \in Members \ Members'
        PROVE  \E target \in Node : Settled(n, target)
    <2>1. n \in Node /\ ShardInv
      BY <1>1 DEF Members, ManagerInv
    <2>2. RemoveMember(n)
      <3>1. joined' # joined
        BY <1>1 DEF Members
      <3>2. ASSUME NEW m \in Node, NEW weight \in Weights, AddMember(m, weight) PROVE FALSE
        <4>1. joined' = [joined EXCEPT ![m] = joins + 1] /\ m \notin Members
          BY <3>2 DEF AddMember, AddNode
        <4> QED
          BY <1>1, <4>1 DEF Members, ManagerInv, ShardInv, RingInv
      <3>3. ASSUME NEW m \in Node, RemoveMember(m) PROVE n = m
        <4>1. joined' = [joined EXCEPT ![m] = 0]
          BY <3>3 DEF RemoveMember, RemoveNode
        <4> QED
          BY <1>1, <4>1 DEF Members, ManagerInv, ShardInv, RingInv
      <3>4. ~(UNCHANGED vars)
        BY <3>1 DEF vars
      <3> QED
        BY <1>1, <3>2, <3>3, <3>4 DEF ManagerNext, managerVars, ScheduleShardMigration, Rebalance,
            ExecuteShardOperation, ExecuteShardMove
    <2> DEFINE moves == [l \in 1..Count(n) |-> Move(<<n, l - 1>>, n, Nil)]
               target == FindBestTargetNode(n)
    <2>3. /\ moves \in Seq(Operation) /\ DOMAIN moves = 1..Count(n)
          /\ \A i \in 1..Count(n) : moves[i].shard = <<n, i - 1>> /\ moves[i].target = target
      BY <2>1, LeaversMoves
    <2> HIDE DEF moves
    <2>4. Scheduled = moves
      <3>1. ScheduleAll(moves)
        BY <2>2 DEF RemoveMember, moves
      <3> QED
        BY <1>1, <2>3, <3>1, Schedules DEF ManagerInv
    <2>5. target \in Node /\ (Placed \ {n} # {} => target \in Placed \ {n})
      <3>1. Placed \subseteq Node
        BY <2>1, Numerals
      <3> QED
        BY <2>1, <3>1, BestTarget
    <2> HIDE DEF target
    <2>6. ASSUME NEW id \in IdsOf(n, shards)
          PROVE  \E i \in DOMAIN moves : moves[i].shard = id /\ moves[i].target = target
      <3>1. PICK v \in Mine(n) : id = <<n, Number(v)>>
        BY <2>1, Ids
      <3>2. v \in ring /\ v.nodeId = n
        BY DEF Mine
      <3>3. Number(v) \in 0..(Count(n) - 1) /\ Count(n) \in Nat
        BY <2>1, <3>2, Numbers, Counts
      <3>4. Number(v) + 1 \in 1..Count(n) /\ (Number(v) + 1) - 1 = Number(v)
        BY <3>3
      <3> QED
        BY <2>3, <3>1, <3>4
    <2>7. Settled(n, target)
      BY <2>4, <2>5, <2>6
    <2> HIDE DEF Settled
    <2> QED
      BY <2>5, <2>7
  <1>2. ManagerInv /\ [ManagerNext]_managerVars =>
            [\A n \in Members \ Members' : \E target \in Node : Settled(n, target)]_managerVars
    <2> HIDE DEF Settled
    <2> QED
      BY <1>1
  <1> QED
    BY <1>2, ManagerInvariant, PTL DEF ManagerSpec, LeaversShardsMoveToStayers

\* ShardManager!RebalancingEvensOut: a rebalancing takes no node below the
\* average, no shard twice, and no shard to a node that has as many.
THEOREM RebalancingIsFair == ManagerSpec => RebalancingEvensOut
PROOF
  <1>1. ASSUME ManagerInv, Rebalance, NEW n \in Placed PROVE TakenFairly(Scheduled, n)
    <2>1. ASSUME NEW moves, NEW over, NEW k, moves = Scheduled, Collected(over, k, moves)
          PROVE  TakenFairly(moves, n)
      BY <1>1, <2>1, TakenFromOne DEF ManagerInv
    <2> QED
      BY <1>1, <2>1, RebalanceSchedules
  <1>2. ManagerInv =>
            [Scheduled # <<>> /\ Rebalance => \A n \in Placed : TakenFairly(Scheduled, n)]_managerVars
    BY <1>1
  <1> QED
    BY <1>2, ManagerInvariant, PTL DEF RebalancingEvensOut, TakenFairly
=============================================================================
