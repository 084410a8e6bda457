------------------------------ MODULE LoopLemmas ------------------------------
(***************************************************************************)
(* Loops over an array, written with FoldLeft; sorted arrays; induction.   *)
(*                                                                         *)
(* The provers do not instantiate a theorem that has an operator for a     *)
(* parameter.  So the body of the loop is a constant of this module, and   *)
(* the module is instantiated for each loop; and induction is stated about *)
(* the set of the cases that a property holds of.                          *)
(***************************************************************************)
EXTENDS SequencesExt, SequenceTheorems, FiniteSetTheorems, WellFoundedInduction, TLAPS

\* The body of the loop: what it makes, with the variables around the loop, of a
\* result and an element.
CONSTANT Op(_, _, _)

Fold(with, base, s) == FoldLeft(LAMBDA r, e : Op(with, r, e), base, s)

-----------------------------------------------------------------------------
(* Induction.                                                              *)

\* Any set of natural numbers has a least one.
THEOREM LeastNumber ==
    ASSUME NEW T \in SUBSET Nat, T # {}
    PROVE  \E x \in T : \A y \in T : x <= y
PROOF
  <1>1. IsWellFoundedOn(OpToRel(<, Nat), Nat)
    BY NatLessThanWellFounded
  <1>2. PICK x \in T : \A y \in T : ~(<<y, x>> \in OpToRel(<, Nat))
    BY <1>1, WFMin
  <1>3. \A y \in T : ~(y < x)
    BY <1>2 DEF OpToRel
  <1> QED
    BY <1>3

\* Induction over the numbers of an interval.
THEOREM UpTo ==
    ASSUME NEW n \in Nat, NEW P \in SUBSET Nat, 0 \in P,
           \A k \in 0..(n - 1) : k \in P => k + 1 \in P
    PROVE  0..n \subseteq P
PROOF
  <1> DEFINE T == {k \in 0..n : k \notin P}
  <1>1. SUFFICES ASSUME T # {} PROVE FALSE
    OBVIOUS
  <1>2. PICK x \in T : \A y \in T : x <= y
    <2>1. T \in SUBSET Nat
      OBVIOUS
    <2> HIDE DEF T
    <2> QED
      BY <1>1, <2>1, LeastNumber
  <1>3. x \in Nat /\ x # 0 /\ x \in 0..n
    OBVIOUS
  <1>4. x - 1 \in 0..(n - 1) /\ x - 1 \notin T /\ (x - 1) + 1 = x
    BY <1>2, <1>3
  <1>5. x - 1 \in P
    BY <1>4
  <1> QED
    BY <1>4, <1>5

\* Induction over the subsets of a finite set.
THEOREM Subsets ==
    ASSUME NEW S, IsFiniteSet(S), NEW P, {} \in P,
           \A T \in SUBSET S, x \in S : T \in P /\ x \notin T => T \cup {x} \in P
    PROVE  S \in P
PROOF
  <1> DEFINE Bad == {Cardinality(S \ T) : T \in {T \in SUBSET S : T \in P}}
  <1>1. \A T \in SUBSET S : Cardinality(S \ T) \in Nat
    BY FS_Difference, FS_CardinalityType
  <1>2. Bad \in SUBSET Nat /\ Bad # {}
    BY <1>1
  <1>3. PICK x \in Bad : \A y \in Bad : x <= y
    BY <1>2, LeastNumber
  <1>4. PICK T \in SUBSET S : T \in P /\ x = Cardinality(S \ T)
    OBVIOUS
  <1>5. CASE T = S
    BY <1>4, <1>5
  <1>6. CASE T # S
    <2>1. PICK z \in S : z \notin T
      BY <1>6
    <2>2. T \cup {z} \in SUBSET S /\ T \cup {z} \in P
      BY <1>4, <2>1
    <2>3. Cardinality(S \ (T \cup {z})) = Cardinality(S \ T) - 1
      <3>1. S \ (T \cup {z}) = (S \ T) \ {z} /\ z \in S \ T
        BY <2>1
      <3>2. IsFiniteSet(S \ T)
        BY FS_Difference
      <3>3. ASSUME NEW U, IsFiniteSet(U), z \in U
            PROVE  Cardinality(U \ {z}) = Cardinality(U) - 1
        BY <3>3, FS_RemoveElement
      <3> QED
        BY <3>1, <3>2, <3>3
    <2>4. Cardinality(S \ (T \cup {z})) \in Bad
      BY <2>2
    <2>5. x \in Nat /\ x <= x - 1
      <3>1. x \in Nat
        BY <1>1, <1>4
      <3>2. x - 1 \in Bad
        BY <1>4, <2>3, <2>4
      <3> QED
        BY <1>3, <3>1, <3>2
    <2> QED
      BY <2>5
  <1> QED
    BY <1>5, <1>6

\* Induction over sequences.
THEOREM Appends ==
    ASSUME NEW S, NEW P, <<>> \in P,
           \A s \in Seq(S), e \in S : s \in P => Append(s, e) \in P
    PROVE  Seq(S) \subseteq P
PROOF
  <1> SUFFICES ASSUME NEW s \in Seq(S) PROVE s \in P
    OBVIOUS
  <1> DEFINE n == Len(s)
             Q == {k \in 0..n : SubSeq(s, 1, k) \in P}
  <1>1. n \in Nat
    OBVIOUS
  <1>2. 0 \in Q
    <2>1. SubSeq(s, 1, 0) = <<>>
      OBVIOUS
    <2>2. SubSeq(s, 1, 0) \in P
      BY <2>1, Zenon
    <2> QED
      BY <1>1, <2>2
  <1>3. ASSUME NEW k \in 0..(n - 1), k \in Q PROVE k + 1 \in Q
    <2>1. k + 1 \in 1..n /\ SubSeq(s, 1, k) \in Seq(S) /\ s[k + 1] \in S
      BY <1>1
    <2>2. SubSeq(s, 1, k + 1) = Append(SubSeq(s, 1, k), s[k + 1])
      BY <1>1, <2>1
    <2>3. SubSeq(s, 1, k + 1) \in P
      <3>1. SubSeq(s, 1, k) \in P
        BY <1>3
      <3> QED
        BY <2>1, <2>2, <3>1, Zenon
    <2>4. k + 1 \in 0..n
      BY <1>1
    <2> QED
      BY <2>3, <2>4
  <1>4. n \in Q
    <2>1. Q \in SUBSET Nat
      OBVIOUS
    <2> HIDE DEF Q
    <2>2. 0..n \subseteq Q
      BY <1>1, <1>2, <1>3, <2>1, UpTo
    <2> QED
      BY <1>1, <2>2
  <1>5. SubSeq(s, 1, n) = s
    BY <1>1
  <1> QED
    BY <1>4, <1>5

-----------------------------------------------------------------------------
(* The loop.                                                               *)

\* FoldLeft takes the indexes of the sequence by the greatest one.
Iter(with, base, s, k, iter) ==
    iter = [T \in SUBSET (1..k) |->
               IF T = {} THEN base ELSE Op(with, iter[T \ {Max(T)}], s[Max(T)])]

LEMMA GreatestIndex ==
    ASSUME NEW k \in Nat, NEW T \in SUBSET (1..k), T # {}
    PROVE  Max(T) \in T /\ \A x \in T : x <= Max(T)
PROOF
  <1> DEFINE D == {k - x : x \in T}
  <1>1. \A x \in T : x \in Int /\ 1 <= x /\ x <= k
    OBVIOUS
  <1>2. D \in SUBSET Nat /\ D # {}
    <2>1. \A x \in T : k - x \in Nat
      BY <1>1
    <2>2. D \subseteq Nat
      BY <2>1
    <2> QED
      BY <2>2
  <1>3. PICK d \in D : \A e \in D : d <= e
    BY <1>2, LeastNumber
  <1>4. PICK m \in T : d = k - m
    OBVIOUS
  <1>5. \A x \in T : k - m <= k - x
    BY <1>3, <1>4
  <1>6. \A x \in T : m >= x /\ x <= m
    BY <1>1, <1>5
  <1>7. Max(T) \in T /\ \A x \in T : Max(T) >= x
    BY <1>6 DEF Max
  <1> QED
    BY <1>1, <1>7

LEMMA GreatestIs ==
    ASSUME NEW k \in Nat, NEW T \in SUBSET (1..(k + 1)), k + 1 \in T
    PROVE  Max(T) = k + 1
PROOF
  <1>1. k + 1 \in Nat /\ T # {}
    OBVIOUS
  <1>2. Max(T) \in T /\ \A x \in T : x <= Max(T)
    BY <1>1, GreatestIndex
  <1>3. Max(T) \in 1..(k + 1) /\ k + 1 <= Max(T)
    BY <1>2
  <1> QED
    BY <1>3

\* The definition of FoldLeft defines something: one index after the other.
LEMMA IterExists ==
    ASSUME NEW with, NEW base, NEW s, NEW n \in Nat
    PROVE  \E iter : Iter(with, base, s, n, iter)
PROOF
  <1> DEFINE P == {k \in Nat : \E iter : Iter(with, base, s, k, iter)}
  <1>1. 0 \in P
    <2> DEFINE g == [T \in SUBSET (1..0) |-> base]
    <2>1. \A T \in SUBSET (1..0) : T = {}
      OBVIOUS
    <2>2. Iter(with, base, s, 0, g)
      BY <2>1 DEF Iter
    <2> QED
      BY <2>2
  <1>2. ASSUME NEW k \in 0..(n - 1), k \in P PROVE k + 1 \in P
    <2>1. PICK g : Iter(with, base, s, k, g)
      BY <1>2
    <2> DEFINE h == [T \in SUBSET (1..(k + 1)) |->
                        IF k + 1 \in T THEN Op(with, g[T \ {k + 1}], s[k + 1]) ELSE g[T]]
    <2>2. ASSUME NEW T \in SUBSET (1..(k + 1))
          PROVE  h[T] = IF T = {} THEN base ELSE Op(with, h[T \ {Max(T)}], s[Max(T)])
      <3>1. k \in Nat
        OBVIOUS
      <3>2. CASE k + 1 \in T
        <4>1. Max(T) = k + 1
          BY <3>1, <3>2, GreatestIs
        <4>2. T \ {k + 1} \in SUBSET (1..(k + 1)) /\ k + 1 \notin T \ {k + 1}
          OBVIOUS
        <4>3. h[T \ {k + 1}] = g[T \ {k + 1}]
          BY <4>2
        <4> QED
          BY <3>2, <4>1, <4>3
      <3>3. CASE k + 1 \notin T
        <4>1. T \in SUBSET (1..k) /\ h[T] = g[T]
          BY <3>1, <3>3
        <4>2. g[T] = IF T = {} THEN base ELSE Op(with, g[T \ {Max(T)}], s[Max(T)])
          BY <2>1, <4>1 DEF Iter
        <4>3. T # {} => /\ T \ {Max(T)} \in SUBSET (1..(k + 1))
                        /\ k + 1 \notin T \ {Max(T)}
          BY <3>3
        <4>4. T # {} => h[T \ {Max(T)}] = g[T \ {Max(T)}]
          BY <4>3
        <4> QED
          BY <4>1, <4>2, <4>4
      <3> QED
        BY <3>2, <3>3
    <2>3. Iter(with, base, s, k + 1, h)
      BY <2>2 DEF Iter
    <2> QED
      BY <2>3
  <1>3. P \in SUBSET Nat
    OBVIOUS
  <1> HIDE DEF P
  <1>4. 0..n \subseteq P
    BY <1>1, <1>2, <1>3, UpTo
  <1> QED
    BY <1>4 DEF P

\* The results after each turn of the loop, from the first to the last.
Turning(with, base, s, n, turn) ==
    /\ DOMAIN turn = 0..n
    /\ turn[0] = base
    /\ \A k \in 1..n : turn[k] = Op(with, turn[k - 1], s[k])
    /\ turn[n] = Fold(with, base, s)

THEOREM Turns ==
    ASSUME NEW with, NEW base, NEW s, NEW n \in Nat, DOMAIN s = 1..n
    PROVE  \E turn : Turning(with, base, s, n, turn)
PROOF
  <1> DEFINE iter == CHOOSE iter : Iter(with, base, s, n, iter)
             turn == [k \in 0..n |-> iter[1..k]]
  <1>1. Iter(with, base, s, n, iter)
    BY IterExists
  <1>2. Fold(with, base, s) = iter[1..n]
    BY DEF Fold, FoldLeft, MapThenFoldSet, Iter
  <1> HIDE DEF iter
  <1>3. turn[0] = base
    <2>1. 1..0 = {} /\ {} \in SUBSET (1..n)
      OBVIOUS
    <2> QED
      BY <1>1, <2>1 DEF Iter
  <1>4. ASSUME NEW k \in 1..n PROVE turn[k] = Op(with, turn[k - 1], s[k])
    <2>1. Max(1..k) = k
      <3>1. k - 1 \in Nat /\ k = (k - 1) + 1 /\ k \in 1..k
        OBVIOUS
      <3> QED
        BY <3>1, GreatestIs
    <2>2. 1..k \in SUBSET (1..n) /\ 1..k # {} /\ (1..k) \ {k} = 1..(k - 1)
      OBVIOUS
    <2>3. iter[1..k] = Op(with, iter[1..(k - 1)], s[k])
      BY <1>1, <2>1, <2>2 DEF Iter
    <2> QED
      BY <2>3
  <1>5. DOMAIN turn = 0..n /\ turn[n] = Fold(with, base, s)
    BY <1>2
  <1> HIDE DEF turn
  <1> QED
    BY <1>3, <1>4, <1>5 DEF Turning

THEOREM FoldEmpty ==
    ASSUME NEW with, NEW base
    PROVE  Fold(with, base, <<>>) = base
PROOF
  <1>1. 0 \in Nat /\ DOMAIN <<>> = 1..0
    OBVIOUS
  <1>2. PICK turn : Turning(with, base, <<>>, 0, turn)
    BY <1>1, Turns
  <1> QED
    BY <1>2 DEF Turning

THEOREM FoldAppend ==
    ASSUME NEW with, NEW base, NEW S, NEW s \in Seq(S), NEW e \in S
    PROVE  Fold(with, base, Append(s, e)) = Op(with, Fold(with, base, s), e)
PROOF
  <1> DEFINE n == Len(s)
             t == Append(s, e)
  <1>1. /\ n \in Nat /\ DOMAIN s = 1..n /\ DOMAIN t = 1..(n + 1)
        /\ t[n + 1] = e /\ \A i \in 1..n : t[i] = s[i]
    OBVIOUS
  <1>2. PICK f : Turning(with, base, s, n, f)
    BY <1>1, Turns
  <1>3. PICK g : Turning(with, base, t, n + 1, g)
    <2>1. n + 1 \in Nat
      BY <1>1
    <2> QED
      BY <1>1, <2>1, Turns
  <1> HIDE DEF n, t
  <1> DEFINE P == {k \in Nat : k <= n => g[k] = f[k]}
  <1>4. 0..n \subseteq P
    <2>1. 0 \in P
      BY <1>2, <1>3 DEF Turning
    <2>2. ASSUME NEW k \in 0..(n - 1), k \in P PROVE k + 1 \in P
      <3>1. k + 1 \in 1..n /\ k + 1 \in 1..(n + 1) /\ (k + 1) - 1 = k /\ g[k] = f[k]
        BY <1>1, <2>2
      <3>2. g[k + 1] = Op(with, g[k], t[k + 1]) /\ f[k + 1] = Op(with, f[k], s[k + 1])
        BY <1>2, <1>3, <3>1 DEF Turning
      <3>3. t[k + 1] = s[k + 1]
        BY <1>1, <3>1
      <3> QED
        BY <3>1, <3>2, <3>3
    <2>3. P \in SUBSET Nat
      OBVIOUS
    <2> HIDE DEF P
    <2> QED
      BY <1>1, <2>1, <2>2, <2>3, UpTo
  <1>5. g[n] = f[n]
    BY <1>1, <1>4
  <1>6. g[n + 1] = Op(with, g[n], t[n + 1])
    <2>1. n + 1 \in 1..(n + 1) /\ (n + 1) - 1 = n
      BY <1>1
    <2> QED
      BY <1>3, <2>1 DEF Turning
  <1> QED
    BY <1>1, <1>2, <1>3, <1>5, <1>6 DEF t, Turning

-----------------------------------------------------------------------------
(* A sorted array: the i-th element is the one that has i - 1 before it.   *)

\* How many elements of a finite, totally ordered set are before each one.
LEMMA Ranks ==
    ASSUME NEW S, IsFiniteSet(S), NEW R,
           \A u \in S : <<u, u>> \notin R,
           \A u, v \in S : u # v => <<u, v>> \in R \/ <<v, u>> \in R,
           \A u, v, w \in S : <<u, v>> \in R /\ <<v, w>> \in R => <<u, w>> \in R
    PROVE  \E rank \in [S -> Int] :
               /\ \A v \in S : rank[v] = Cardinality({u \in S : <<u, v>> \in R})
               /\ \A u, v \in S : <<u, v>> \in R <=> rank[u] < rank[v]
               /\ \A i \in 1..Cardinality(S) : \E v \in S : rank[v] = i - 1
               /\ \A v \in S : rank[v] + 1 \in 1..Cardinality(S)
PROOF
  <1> DEFINE n == Cardinality(S)
             Below(v) == {u \in S : <<u, v>> \in R}
             rank == [v \in S |-> Cardinality(Below(v))]
  <1>1. n \in Nat
    BY FS_CardinalityType
  <1>2. ASSUME NEW v \in S
        PROVE  /\ IsFiniteSet(Below(v)) /\ Cardinality(Below(v)) \in 0..(n - 1)
               /\ rank[v] = Cardinality(Below(v))
    <2>1. Below(v) \subseteq S \ {v}
      OBVIOUS
    <2>2. IsFiniteSet(S \ {v}) /\ Cardinality(S \ {v}) = n - 1
      BY FS_RemoveElement
    <2> HIDE DEF Below
    <2>3. IsFiniteSet(Below(v)) /\ Cardinality(Below(v)) <= n - 1
      BY <2>1, <2>2, FS_Subset
    <2>4. Cardinality(Below(v)) \in Nat
      BY <2>3, FS_CardinalityType
    <2> HIDE DEF n
    <2>5. Cardinality(Below(v)) \in 0..(n - 1)
      BY <1>1, <2>3, <2>4
    <2> QED
      BY <2>3, <2>5
  <1>3. ASSUME NEW u \in S, NEW v \in S, <<u, v>> \in R
        PROVE  Cardinality(Below(u)) < Cardinality(Below(v))
    <2>1. Below(u) \cup {u} \subseteq Below(v) /\ u \notin Below(u)
      BY <1>3
    <2> HIDE DEF Below
    <2>2. IsFiniteSet(Below(u)) /\ IsFiniteSet(Below(v))
      BY <1>2
    <2>3. Cardinality(Below(u) \cup {u}) = Cardinality(Below(u)) + 1
      BY <2>1, <2>2, FS_AddElement
    <2>4. Cardinality(Below(u) \cup {u}) <= Cardinality(Below(v))
      BY <2>1, <2>2, FS_Subset
    <2>5. Cardinality(Below(u)) \in Int /\ Cardinality(Below(v)) \in Int
      BY <1>2
    <2> QED
      BY <2>3, <2>4, <2>5
  <1>4. \A v \in S : rank[v] = Cardinality(Below(v))
    OBVIOUS
  <1>5. rank \in [S -> 0..(n - 1)]
    <2> HIDE DEF Below, n
    <2> QED
      BY <1>2
  <1> HIDE DEF n, rank, Below
  <1>6. \A v \in S : rank[v] \in Int
    BY <1>5
  <1>7. \A u, v \in S : u # v => rank[u] # rank[v]
    <2> SUFFICES ASSUME NEW u \in S, NEW v \in S, u # v PROVE rank[u] # rank[v]
      OBVIOUS
    <2>1. CASE <<u, v>> \in R
      <3>1. rank[u] < rank[v]
        BY <1>3, <1>4, <2>1
      <3> QED
        BY <1>6, <3>1
    <2>2. CASE <<v, u>> \in R
      <3>1. rank[v] < rank[u]
        BY <1>3, <1>4, <2>2
      <3> QED
        BY <1>6, <3>1
    <2> QED
      BY <2>1, <2>2
  <1>8. rank \in Surjection(S, 0..(n - 1))
    <2>1. rank \in Injection(S, 0..(n - 1))
      BY <1>5, <1>7 DEF Injection, IsInjective
    <2>2. IsFiniteSet(0..(n - 1)) /\ Cardinality(0..(n - 1)) = n
      <3>1. n - 1 \in Int /\ 0 \in Int
        BY <1>1
      <3>2. /\ IsFiniteSet(0..(n - 1))
            /\ Cardinality(0..(n - 1)) = IF 0 > n - 1 THEN 0 ELSE (n - 1) - 0 + 1
        BY <3>1, FS_Interval
      <3> QED
        BY <1>1, <3>2
    <2> QED
      BY <2>1, <2>2, FS_Injection DEF n
  <1>9. ASSUME NEW i \in 1..n PROVE \E v \in S : rank[v] = i - 1
    <2>1. i - 1 \in 0..(n - 1)
      BY <1>1
    <2> QED
      BY <1>8, <2>1 DEF Surjection
  <1>10. ASSUME NEW u \in S, NEW v \in S PROVE <<u, v>> \in R <=> rank[u] < rank[v]
    <2>1. rank[u] \in Int /\ rank[v] \in Int
      BY <1>6
    <2>2. <<u, v>> \in R => rank[u] < rank[v]
      BY <1>3, <1>4
    <2>3. <<v, u>> \in R => rank[v] < rank[u]
      BY <1>3, <1>4
    <2> QED
      BY <2>1, <2>2, <2>3
  <1>11. ASSUME NEW v \in S PROVE rank[v] + 1 \in 1..n
    <2>1. rank[v] \in 0..(n - 1)
      BY <1>5
    <2> QED
      BY <1>1, <2>1
  <1>12. rank \in [S -> Int]
    <2>1. rank = [v \in S |-> rank[v]]
      BY <1>5
    <2> QED
      BY <1>6, <2>1
  <1> QED
    BY <1>4, <1>9, <1>10, <1>11, <1>12 DEF n, Below

\* The elements of S in the order of R.
Listed(S, R) ==
    [i \in 1..Cardinality(S) |->
        CHOOSE v \in S : Cardinality({u \in S : <<u, v>> \in R}) = i - 1]

THEOREM SortedArray ==
    ASSUME NEW S, IsFiniteSet(S), NEW R,
           \A u \in S : <<u, u>> \notin R,
           \A u, v \in S : u # v => <<u, v>> \in R \/ <<v, u>> \in R,
           \A u, v, w \in S : <<u, v>> \in R /\ <<v, w>> \in R => <<u, w>> \in R
    PROVE  /\ Listed(S, R) \in Seq(S) /\ Len(Listed(S, R)) = Cardinality(S)
           /\ Cardinality(S) \in Nat
           /\ \A v \in S : \E i \in 1..Cardinality(S) : Listed(S, R)[i] = v
           /\ \A i, j \in 1..Cardinality(S) :
                  <<Listed(S, R)[i], Listed(S, R)[j]>> \in R <=> i < j
PROOF
  <1> DEFINE n == Cardinality(S)
             Count(v) == Cardinality({u \in S : <<u, v>> \in R})
             a == [i \in 1..n |-> CHOOSE v \in S : Count(v) = i - 1]
  <1>1. n \in Nat
    BY FS_CardinalityType
  <1>2. PICK rank \in [S -> Int] :
               /\ \A v \in S : rank[v] = Count(v)
               /\ \A u, v \in S : <<u, v>> \in R <=> rank[u] < rank[v]
               /\ \A i \in 1..n : \E v \in S : rank[v] = i - 1
               /\ \A v \in S : rank[v] + 1 \in 1..n
    BY Ranks
  <1> HIDE DEF n, Count
  <1>3. ASSUME NEW i \in 1..n PROVE a[i] \in S /\ rank[a[i]] = i - 1
    <2>1. PICK v \in S : Count(v) = i - 1
      BY <1>2
    <2>2. a[i] \in S /\ Count(a[i]) = i - 1
      BY <2>1
    <2> HIDE DEF a
    <2> QED
      BY <1>2, <2>2
  <1>4. a \in Seq(S) /\ Len(a) = n
    <2>1. a \in [1..n -> S]
      BY <1>3
    <2> HIDE DEF a
    <2> QED
      BY <1>1, <2>1
  <1> HIDE DEF a
  <1>5. ASSUME NEW v \in S PROVE \E i \in 1..n : a[i] = v
    <2> DEFINE i == rank[v] + 1
    <2>1. rank[v] \in Int
      BY <1>2
    <2>2. i \in 1..n /\ i - 1 = rank[v]
      BY <1>2, <2>1
    <2> HIDE DEF i
    <2>3. a[i] \in S /\ rank[a[i]] = rank[v]
      BY <1>3, <2>2
    <2>4. ~(<<a[i], v>> \in R) /\ ~(<<v, a[i]>> \in R)
      BY <1>2, <2>1, <2>3
    <2>5. a[i] = v
      BY <2>3, <2>4
    <2> QED
      BY <2>2, <2>5
  <1>6. ASSUME NEW i \in 1..n, NEW j \in 1..n PROVE <<a[i], a[j]>> \in R <=> i < j
    <2>1. a[i] \in S /\ a[j] \in S /\ rank[a[i]] = i - 1 /\ rank[a[j]] = j - 1
      BY <1>3
    <2>2. <<a[i], a[j]>> \in R <=> i - 1 < j - 1
      BY <1>2, <2>1
    <2> QED
      BY <1>1, <2>2
  <1> QED
    BY <1>1, <1>4, <1>5, <1>6 DEF n, a, Count, Listed

THEOREM LeastElement ==
    ASSUME NEW S, IsFiniteSet(S), S # {}, NEW R,
           \A u \in S : <<u, u>> \notin R,
           \A u, v \in S : u # v => <<u, v>> \in R \/ <<v, u>> \in R,
           \A u, v, w \in S : <<u, v>> \in R /\ <<v, w>> \in R => <<u, w>> \in R
    PROVE  \E v \in S : \A u \in S \ {v} : <<v, u>> \in R
PROOF
  <1>1. PICK rank \in [S -> Int] :
               /\ \A u, v \in S : <<u, v>> \in R <=> rank[u] < rank[v]
               /\ \A i \in 1..Cardinality(S) : \E v \in S : rank[v] = i - 1
               /\ \A v \in S : rank[v] + 1 \in 1..Cardinality(S)
    BY Ranks
  <1>2. 1 \in 1..Cardinality(S)
    BY FS_CardinalityType, FS_EmptySet
  <1>3. PICK v \in S : rank[v] = 0
    BY <1>1, <1>2
  <1>4. ASSUME NEW u \in S \ {v} PROVE <<v, u>> \in R
    <2>1. rank[u] \in Int /\ rank[u] + 1 \in 1..Cardinality(S)
      BY <1>1
    <2>2. ~(rank[u] < rank[v])
      BY <1>2, <1>3, <2>1
    <2> QED
      BY <1>1, <2>2
  <1> QED
    BY <1>4

Asymmetric(R) == \A x, y : <<x, y>> \in R => <<y, x>> \notin R

\* Array a, of length m, is in the order of R; its elements are among those of b.
Ascending(a, m, R) == \A i, j \in 1..m : i < j => <<a[i], a[j]>> \in R
Among(a, m, b, n) == \A i \in 1..m : \E j \in 1..n : a[i] = b[j]

\* Two arrays of the same elements, both in the order of R, are the same.
THEOREM OneOrder ==
    ASSUME NEW a, NEW b, NEW m \in Nat, NEW n \in Nat, NEW R, Asymmetric(R),
           Ascending(a, m, R), Ascending(b, n, R), Among(a, m, b, n), Among(b, n, a, m)
    PROVE  m = n /\ \A i \in 1..m : a[i] = b[i]
PROOF
  <1> USE DEF Asymmetric, Ascending, Among
  <1> DEFINE P == {k \in Nat : k <= m => k <= n /\ \A i \in 1..k : a[i] = b[i]}
  <1>1. 0 \in P
    OBVIOUS
  <1>2. ASSUME NEW k \in 0..(m - 1), k \in P PROVE k + 1 \in P
    <2>1. /\ k \in Nat /\ k <= m /\ k <= n /\ k + 1 \in 1..m
          /\ \A i \in 1..k : a[i] = b[i]
      BY <1>2
    <2>2. PICK j \in 1..n : a[k + 1] = b[j]
      BY <2>1
    <2>3. ~(j <= k)
      <3>1. SUFFICES ASSUME j <= k PROVE FALSE
        OBVIOUS
      <3>2. j \in 1..k /\ j \in 1..m /\ j < k + 1
        BY <2>1, <3>1
      <3>3. <<a[j], a[k + 1]>> \in R /\ a[j] = a[k + 1]
        BY <2>1, <2>2, <3>2
      <3> QED
        BY <3>3
    <2>4. k + 1 \in 1..n /\ k + 1 <= j
      BY <2>1, <2>3
    <2>5. a[k + 1] = b[k + 1]
      <3>1. PICK i \in 1..m : b[k + 1] = a[i]
        BY <2>4
      <3>2. ~(i <= k)
        <4>1. SUFFICES ASSUME i <= k PROVE FALSE
          OBVIOUS
        <4>2. i \in 1..k /\ i \in 1..n /\ i < k + 1
          BY <2>1, <4>1
        <4>3. <<b[i], b[k + 1]>> \in R /\ b[i] = b[k + 1]
          BY <2>1, <2>4, <3>1, <4>2
        <4> QED
          BY <4>3
      <3>3. SUFFICES ASSUME a[k + 1] # b[k + 1] PROVE FALSE
        OBVIOUS
      <3>4. i # k + 1 /\ j # k + 1
        BY <2>2, <3>1, <3>3
      <3>5. k + 1 < i /\ k + 1 < j
        BY <2>1, <2>3, <3>2, <3>4
      <3>6. <<a[k + 1], a[i]>> \in R /\ <<b[k + 1], b[j]>> \in R
        BY <2>1, <2>4, <3>5
      <3> QED
        BY <2>2, <3>1, <3>6
    <2>6. ASSUME NEW i \in 1..(k + 1) PROVE a[i] = b[i]
      <3>1. CASE i = k + 1
        BY <2>5, <3>1
      <3>2. CASE i # k + 1
        <4>1. i \in 1..k
          BY <2>1, <3>2
        <4> QED
          BY <2>1, <4>1
      <3> QED
        BY <3>1, <3>2
    <2>7. k + 1 \in Nat /\ k + 1 <= n
      BY <2>4
    <2> QED
      BY <2>6, <2>7
  <1>3. P \in SUBSET Nat
    OBVIOUS
  <1> HIDE DEF P
  <1>4. m \in P
    <2>1. 0..m \subseteq P
      BY <1>1, <1>2, <1>3, UpTo
    <2> QED
      BY <2>1
  <1>5. m <= n /\ \A i \in 1..m : a[i] = b[i]
    BY <1>4 DEF P
  <1>6. ~(m < n)
    <2>1. SUFFICES ASSUME m < n PROVE FALSE
      OBVIOUS
    <2>2. n \in 1..n
      BY <2>1
    <2>3. PICK i \in 1..m : b[n] = a[i]
      BY <2>2
    <2>4. i \in 1..n /\ i < n /\ a[i] = b[i]
      BY <1>5, <2>1
    <2>5. <<b[i], b[n]>> \in R /\ b[i] = b[n]
      BY <2>2, <2>3, <2>4
    <2> QED
      BY <2>5
  <1> QED
    BY <1>5, <1>6
=============================================================================
