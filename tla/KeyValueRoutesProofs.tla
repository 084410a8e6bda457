------------------------ MODULE KeyValueRoutesProofs ------------------------
(* What a node's clients may rely on, proved for every set of nodes, keys    *)
(* and values: first of the node itself, under Spec; then of the HTTP       *)
(* interface over it, under RoutesSpec, which implements the abstract map.  *)
EXTENDS KeyValueRoutes, SequenceTheorems, TLAPS

Entry == Engine!Entry

\* The part of the types that the arguments below use.
LogTypes ==
    /\ currentTerm \in [Server -> Nat]
    /\ log \in [Server -> Seq(Entry)]
    /\ lastApplied \in [Server -> Nat]
    /\ applied \in [Server -> Seq(Entry)]

MapTypes ==
    /\ store \in [Server -> Maps]
    /\ told \in [Server -> Maps]
    /\ DOMAIN reply = Server

\* A node applies each command as it appends it, the first one excepted.
AppliedUpToDate ==
    \A s \in Server : lastApplied[s] = IF log[s] = <<>> THEN 0 ELSE Len(log[s]) - 1

NodeInv == LogTypes /\ MapTypes /\ AppliedUpToDate /\ OnlyTheFirstSetIsLost

-----------------------------------------------------------------------------
\* What was concatenated to a sequence can be cut off it again.
LEMMA SuffixOfConcat ==
    ASSUME NEW S, NEW a \in Seq(S), NEW b \in Seq(S)
    PROVE  SubSeq(a \o b, Len(a) + 1, Len(a \o b)) = b
PROOF
  <1>1. Len(a \o b) = Len(a) + Len(b) /\ a \o b \in Seq(S)
    OBVIOUS
  <1>2. \A i \in 1..Len(b) : (a \o b)[Len(a) + i] = b[i]
    OBVIOUS
  <1> DEFINE t == SubSeq(a \o b, Len(a) + 1, Len(a \o b))
  <1>3. t \in Seq(S) /\ Len(t) = Len(b) /\ \A i \in 1..Len(b) : t[i] = (a \o b)[Len(a) + i]
    BY <1>1
  <1> QED
    BY <1>1, <1>2, <1>3, SeqEqual

LEMMA SliceOfLast ==
    ASSUME NEW S, NEW a \in Seq(S), NEW e \in S
    PROVE  SubSeq(Append(a, e), Len(a) + 1, Len(a) + 1) = <<e>>
PROOF
  <1> DEFINE t == SubSeq(Append(a, e), Len(a) + 1, Len(a) + 1)
  <1>1. Append(a, e) \in Seq(S) /\ Len(Append(a, e)) = Len(a) + 1
    OBVIOUS
  <1>2. t \in Seq(S) /\ Len(t) = 1 /\ t[1] = Append(a, e)[Len(a) + 1]
    BY <1>1
  <1>3. Append(a, e)[Len(a) + 1] = e
    OBVIOUS
  <1>4. <<e>> \in Seq(S) /\ Len(<<e>>) = 1 /\ <<e>>[1] = e
    OBVIOUS
  <1> HIDE DEF t
  <1>5. \A i \in 1..Len(t) : t[i] = <<e>>[i]
    BY <1>2, <1>3, <1>4
  <1>6. t = <<e>>
    BY <1>2, <1>4, <1>5, SeqEqual
  <1> QED
    BY <1>6 DEF t

-----------------------------------------------------------------------------
(* Applying entries to a map.                                              *)

LEMMA ApplyNone == ASSUME NEW m \in Maps PROVE AfterApplying(m, <<>>) = m
PROOF
  BY DEF AfterApplying, Maps

LEMMA ApplyOne ==
    ASSUME NEW m \in Maps, NEW e \in Entry
    PROVE  AfterApplying(m, <<e>>) = [m EXCEPT ![e.command.key] = e.command.value]
PROOF
  <1>1. ASSUME NEW k \in Key
        PROVE  {i \in 1..Len(<<e>>) : <<e>>[i].command.key = k}
                  = IF e.command.key = k THEN {1} ELSE {}
    OBVIOUS
  <1>2. (CHOOSE i \in {1} : \A j \in {1} : j <= i) = 1
    OBVIOUS
  <1>3. ASSUME NEW k \in Key
        PROVE  AfterApplying(m, <<e>>)[k] =
                   IF e.command.key = k THEN e.command.value ELSE m[k]
    BY <1>1, <1>2 DEF AfterApplying
  <1> QED
    BY <1>3 DEF AfterApplying, Maps

\* What is in a command, and what it makes of a map.
LEMMA CommandFields ==
    ASSUME NEW c \in Commands
    PROVE  /\ c.key \in Key
           /\ c.value \in Value \cup {Absent}
PROOF
  BY DEF Commands, SetCommand, DeleteCommand

\* An append adds the entry at the end of the log, and commits that entry
\* unless it is the first.
LEMMA AppendCommits ==
    ASSUME NodeInv, NEW s \in Server, NEW c \in Commands, Engine!AppendCommand(s, c)
    PROVE  LET e == [term |-> currentTerm[s], index |-> Len(log[s]), command |-> c]
           IN  /\ e \in Entry
               /\ log' = [log EXCEPT ![s] = Append(@, e)]
               /\ lastApplied' = [lastApplied EXCEPT ![s] = Len(log[s])]
               /\ applied' \in [Server -> Seq(Entry)]
               /\ Committed(s) = IF log[s] = <<>> THEN <<>> ELSE <<e>>
               /\ UNCHANGED currentTerm
PROOF
  <1> DEFINE e == [term |-> currentTerm[s], index |-> Len(log[s]), command |-> c]
             l == Append(log[s], e)
             new == SubSeq(l, lastApplied[s] + 2, Len(l))
  <1>1. e \in Entry /\ log[s] \in Seq(Entry) /\ applied[s] \in Seq(Entry)
    <2>1. log[s] \in Seq(Entry) /\ applied[s] \in Seq(Entry) /\ currentTerm[s] \in Nat
      BY DEF NodeInv, LogTypes, MapTypes
    <2>2. Len(log[s]) \in Nat
      BY <2>1
    <2> QED
      BY <2>1, <2>2 DEF Entry, Engine!Entry
  <1>2. l \in Seq(Entry) /\ Len(l) = Len(log[s]) + 1 /\ l[Len(l)] = e
    BY <1>1
  <1>3. new = IF log[s] = <<>> THEN <<>> ELSE <<e>>
    <2>1. CASE log[s] = <<>>
      <3>1. lastApplied[s] + 2 = 2 /\ Len(l) = 1
        BY <1>2, <2>1 DEF NodeInv, AppliedUpToDate
      <3> QED
        BY <1>2, <2>1, <3>1
    <2>2. CASE log[s] # <<>>
      <3>1. lastApplied[s] + 2 = Len(l)
        BY <1>1, <1>2, <2>2 DEF NodeInv, AppliedUpToDate
      <3>2. SubSeq(l, Len(log[s]) + 1, Len(log[s]) + 1) = <<e>>
        BY <1>1, SliceOfLast
      <3> QED
        BY <1>2, <2>2, <3>1, <3>2
    <2> QED
      BY <2>1, <2>2
  <1>4. /\ log' = [log EXCEPT ![s] = l]
        /\ lastApplied' = [lastApplied EXCEPT ![s] = Engine!Larger(@, Len(log[s]))]
        /\ applied' = [applied EXCEPT ![s] =
               @ \o SubSeq(l, lastApplied[s] + 2, Engine!Smaller(Len(log[s]) + 1, Len(l)))]
        /\ UNCHANGED currentTerm
    BY DEF Engine!AppendCommand, Engine!ApplyCommittedEntries, Engine!termVars
  <1>5. Engine!Smaller(Len(log[s]) + 1, Len(l)) = Len(l)
    BY <1>2 DEF Engine!Smaller
  <1>6. Engine!Larger(lastApplied[s], Len(log[s])) = Len(log[s])
    BY <1>1 DEF Engine!Larger, NodeInv, LogTypes, MapTypes, AppliedUpToDate
  <1>7. applied'[s] = applied[s] \o new /\ new \in Seq(Entry)
    <2>1. new \in Seq(Entry)
      <3>1. <<>> \in Seq(Entry) /\ <<e>> \in Seq(Entry)
        BY <1>1
      <3> QED
        BY <1>3, <3>1
    <2>2. applied' = [applied EXCEPT ![s] = applied[s] \o new]
      BY <1>4, <1>5
    <2> QED
      BY <2>1, <2>2 DEF NodeInv, LogTypes, MapTypes
  <1>8. SubSeq(applied[s] \o new, Len(applied[s]) + 1, Len(applied[s] \o new)) = new
    BY <1>1, <1>7, SuffixOfConcat
  <1>9. Committed(s) = new
    BY <1>7, <1>8 DEF Committed
  <1>10. applied' \in [Server -> Seq(Entry)]
    <2>1. applied' = [applied EXCEPT ![s] = applied[s] \o new]
      BY <1>4, <1>5
    <2>2. applied[s] \o new \in Seq(Entry)
      <3>1. applied[s] \in Seq(Entry)
        BY DEF NodeInv, LogTypes
      <3>2. new \in Seq(Entry)
        BY <1>7
      <3> HIDE DEF new
      <3> QED
        BY <3>1, <3>2
    <2> HIDE DEF new
    <2> QED
      BY <2>1, <2>2 DEF NodeInv, LogTypes
  <1> QED
    BY <1>1, <1>3, <1>4, <1>6, <1>9, <1>10

-----------------------------------------------------------------------------
(* The invariant.                                                          *)

LEMMA InvInit == Init => NodeInv
PROOF
  <1> SUFFICES ASSUME Init PROVE NodeInv
    OBVIOUS
  <1> USE DEF Init, Engine!Init
  <1>1. LogTypes /\ MapTypes
    BY DEF LogTypes, MapTypes
  <1>2. AppliedUpToDate
    BY DEF AppliedUpToDate
  <1>3. OnlyTheFirstSetIsLost
    BY DEF OnlyTheFirstSetIsLost
  <1> QED
    BY <1>1, <1>2, <1>3 DEF NodeInv

\* A step that leaves the log, the storage and the history alone keeps it.
LEMMA InvQuiet ==
    ASSUME NodeInv, UNCHANGED <<log, lastApplied, applied, store, told>>,
           currentTerm' \in [Server -> Nat], DOMAIN reply' = Server
    PROVE  NodeInv'
PROOF
  BY DEF NodeInv, LogTypes, MapTypes, AppliedUpToDate, OnlyTheFirstSetIsLost

LEMMA InvNodeStep ==
    ASSUME NodeInv, NEW s \in Server, NodeStep(s)
    PROVE  NodeInv'
PROOF
  <1>1. UNCHANGED <<log, lastApplied, applied>>
    BY DEF NodeStep, Engine!Start, Engine!Stop, Engine!TimerStep, Engine!StartElection,
           Engine!IgnoreElectionTimeout, Engine!BecomeLeader, Engine!DropVoteTimer, Engine!logVars
  <1>2. currentTerm' \in [Server -> Nat]
    <2>1. CASE Engine!StartElection(s)
      BY <2>1 DEF Engine!StartElection, NodeInv, LogTypes, MapTypes
    <2>2. CASE ~Engine!StartElection(s)
      <3>1. UNCHANGED currentTerm
        BY <2>2 DEF NodeStep, Engine!Start, Engine!Stop, Engine!TimerStep,
                    Engine!IgnoreElectionTimeout, Engine!BecomeLeader, Engine!DropVoteTimer,
                    Engine!termVars
      <3> QED
        BY <3>1 DEF NodeInv, LogTypes, MapTypes
    <2> QED
      BY <2>1, <2>2
  <1>3. UNCHANGED <<store, reply, told>>
    BY DEF NodeStep
  <1>4. DOMAIN reply' = Server
    BY <1>3 DEF NodeInv, LogTypes, MapTypes
  <1> QED
    BY <1>1, <1>2, <1>3, <1>4, InvQuiet

\* What a command leaves in the log, whose only new entry is its own.
LEMMA LogAfterCommand ==
    ASSUME NodeInv, NEW s \in Server, NEW c \in Commands, Engine!AppendCommand(s, c)
    PROVE  /\ LogTypes'
           /\ AppliedUpToDate'
           /\ \A t \in Server \ {s} : log'[t] = log[t]
           /\ Len(log'[s]) = Len(log[s]) + 1
           /\ log'[s][Len(log[s]) + 1].command = c
           /\ \A i \in 1..Len(log[s]) : log'[s][i] = log[s][i]
PROOF
  <1> DEFINE e == [term |-> currentTerm[s], index |-> Len(log[s]), command |-> c]
  <1>1. /\ e \in Entry
        /\ log' = [log EXCEPT ![s] = Append(@, e)]
        /\ lastApplied' = [lastApplied EXCEPT ![s] = Len(log[s])]
        /\ applied' \in [Server -> Seq(Entry)]
        /\ UNCHANGED currentTerm
    BY AppendCommits
  <1>2. e.command = c
    OBVIOUS
  <1> HIDE DEF e
  <1>3. log \in [Server -> Seq(Entry)] /\ lastApplied \in [Server -> Nat] /\ log[s] \in Seq(Entry)
    BY DEF NodeInv, LogTypes, MapTypes
  <1>4. /\ Append(log[s], e) \in Seq(Entry)
        /\ Len(Append(log[s], e)) = Len(log[s]) + 1
        /\ Append(log[s], e)[Len(log[s]) + 1] = e
        /\ \A i \in 1..Len(log[s]) : Append(log[s], e)[i] = log[s][i]
    BY <1>1, <1>3
  <1>5. log'[s] = Append(log[s], e) /\ \A t \in Server \ {s} : log'[t] = log[t]
    BY <1>1, <1>3
  <1>6. log' \in [Server -> Seq(Entry)]
    BY <1>1, <1>3, <1>4
  <1>7. Len(log[s]) \in Nat /\ lastApplied' \in [Server -> Nat]
    BY <1>1, <1>3
  <1>8. AppliedUpToDate'
    <2> SUFFICES ASSUME NEW t \in Server
                 PROVE  lastApplied'[t] = IF log'[t] = <<>> THEN 0 ELSE Len(log'[t]) - 1
      BY DEF AppliedUpToDate
    <2>1. CASE t = s
      <3>1. log'[s] # <<>>
        BY <1>4, <1>5, <1>7
      <3> QED
        BY <1>1, <1>3, <1>4, <1>5, <1>7, <2>1, <3>1
    <2>2. CASE t # s
      BY <1>1, <1>3, <1>5, <2>2 DEF NodeInv, AppliedUpToDate
    <2> QED
      BY <2>1, <2>2
  <1>9. currentTerm' \in [Server -> Nat]
    BY <1>1 DEF NodeInv, LogTypes, MapTypes
  <1> QED
    BY <1>1, <1>2, <1>4, <1>5, <1>6, <1>7, <1>8, <1>9 DEF LogTypes

LEMMA InvSet ==
    ASSUME NodeInv, NEW s \in Server, NEW k \in Key, NEW v \in Value, Set(s, k, v)
    PROVE  NodeInv'
PROOF
  <1> DEFINE c == SetCommand(k, v)
             e == [term |-> currentTerm[s], index |-> Len(log[s]), command |-> c]
  <1>1. c \in Commands /\ c.key = k /\ c.value = v /\ e.command = c
    BY DEF Commands, SetCommand
  <1>2. Engine!AppendCommand(s, c)
    BY DEF Set
  <1>3. e \in Entry /\ Committed(s) = IF log[s] = <<>> THEN <<>> ELSE <<e>>
    BY <1>1, <1>2, AppendCommits
  <1>4. /\ LogTypes' /\ AppliedUpToDate'
        /\ \A t \in Server \ {s} : log'[t] = log[t]
        /\ Len(log'[s]) = Len(log[s]) + 1
        /\ log'[s][Len(log[s]) + 1].command = c
        /\ \A i \in 1..Len(log[s]) : log'[s][i] = log[s][i]
    BY <1>1, <1>2, LogAfterCommand
  <1> HIDE DEF c, e
  <1>5. store[s] \in Maps /\ told[s] \in Maps /\ log[s] \in Seq(Entry)
    BY DEF NodeInv, MapTypes, LogTypes
  <1>6. store'[s] = IF log[s] = <<>> THEN store[s] ELSE [store[s] EXCEPT ![k] = v]
    <2>1. store'[s] = AfterApplying(store[s], Committed(s))
      BY DEF Set, NodeInv, MapTypes
    <2>2. AfterApplying(store[s], <<>>) = store[s]
      BY <1>5, ApplyNone
    <2>3. AfterApplying(store[s], <<e>>) = [store[s] EXCEPT ![k] = v]
      BY <1>1, <1>3, <1>5, ApplyOne
    <2> QED
      BY <1>3, <2>1, <2>2, <2>3
  <1>7. told' = [told EXCEPT ![s] = [told[s] EXCEPT ![k] = v]]
    BY DEF Set
  <1>8. MapTypes'
    <2>1. store'[s] \in Maps /\ [told[s] EXCEPT ![k] = v] \in Maps
      BY <1>5, <1>6 DEF Maps
    <2>2. store' \in [Server -> Maps]
      BY <2>1 DEF Set, NodeInv, MapTypes
    <2> QED
      BY <1>7, <2>1, <2>2 DEF Set, NodeInv, MapTypes
  <1>9. OnlyTheFirstSetIsLost'
    <2> SUFFICES ASSUME NEW t \in Server, NEW j \in Key, store'[t][j] # told'[t][j]
                 PROVE  /\ log'[t] # <<>>
                        /\ log'[t][1].command = SetCommand(j, told'[t][j])
                        /\ \A i \in 2..Len(log'[t]) : log'[t][i].command.key # j
      BY DEF OnlyTheFirstSetIsLost
    <2>1. CASE t # s
      BY <1>4, <1>7, <2>1 DEF Set, NodeInv, MapTypes, OnlyTheFirstSetIsLost
    <2>2. CASE t = s /\ log[s] = <<>>
      <3>1. store[s][j] = told[s][j] /\ store'[s][j] = store[s][j]
        BY <1>6, <2>2 DEF NodeInv, OnlyTheFirstSetIsLost
      <3>2. told'[s][j] = IF j = k THEN v ELSE told[s][j]
        BY <1>5, <1>7 DEF Maps, NodeInv, MapTypes
      <3>3. j = k /\ told'[s][j] = v
        BY <2>2, <3>1, <3>2
      <3>4. Len(log'[s]) = 1 /\ log'[s][1].command = c
        BY <1>4, <2>2
      <3>5. log'[s] # <<>>
        BY <3>4
      <3> QED
        BY <2>2, <3>3, <3>4, <3>5 DEF c
    <2>3. CASE t = s /\ log[s] # <<>>
      <3>1. /\ told'[s][j] = IF j = k THEN v ELSE told[s][j]
            /\ store'[s][j] = IF j = k THEN v ELSE store[s][j]
        BY <1>5, <1>6, <1>7, <2>3 DEF Maps, NodeInv, MapTypes
      <3>2. j # k /\ told'[s][j] = told[s][j] /\ store[s][j] # told[s][j]
        BY <2>3, <3>1
      <3>3. /\ log[s][1].command = SetCommand(j, told[s][j])
            /\ \A i \in 2..Len(log[s]) : log[s][i].command.key # j
        BY <3>2 DEF NodeInv, OnlyTheFirstSetIsLost
      <3>4. Len(log[s]) \in Nat \ {0} /\ 1 \in 1..Len(log[s])
        BY <1>5, <2>3
      <3>5. log'[s][1] = log[s][1] /\ log'[s] # <<>>
        BY <1>4, <3>4
      <3>6. \A i \in 2..Len(log'[s]) : log'[s][i].command.key # j
        BY <1>1, <1>4, <3>2, <3>3, <3>4
      <3> QED
        BY <2>3, <3>2, <3>3, <3>5, <3>6
    <2> QED
      BY <2>1, <2>2, <2>3
  <1> QED
    BY <1>4, <1>8, <1>9 DEF NodeInv

\* Whether or not the log applied the delete, the key is gone after it.
LEMMA DeleteMaps ==
    ASSUME NodeInv, NEW s \in Server, NEW k \in Key, Delete(s, k)
    PROVE  LET map == AfterApplying(store[s], Committed(s))
           IN  /\ map \in Maps
               /\ map = store[s] \/ map = [store[s] EXCEPT ![k] = Absent]
               /\ store' = [store EXCEPT ![s] = [map EXCEPT ![k] = Absent]]
               /\ store'[s] = [store[s] EXCEPT ![k] = Absent]
               /\ store' \in [Server -> Maps]
               /\ reply' = [reply EXCEPT ![s] = Reply("delete", k, Absent, map[k] # Absent)]
PROOF
  <1> DEFINE c == DeleteCommand(k)
             e == [term |-> currentTerm[s], index |-> Len(log[s]), command |-> c]
             map == AfterApplying(store[s], Committed(s))
  <1>1. c \in Commands /\ c.key = k /\ c.value = Absent /\ e.command = c
    BY DEF Commands, DeleteCommand
  <1>2. Engine!AppendCommand(s, c)
    BY DEF Delete
  <1>3. e \in Entry /\ Committed(s) = IF log[s] = <<>> THEN <<>> ELSE <<e>>
    BY <1>1, <1>2, AppendCommits
  <1> HIDE DEF c, e
  <1>4. store[s] \in Maps
    BY DEF NodeInv, MapTypes
  <1>5. AfterApplying(store[s], <<>>) = store[s]
    BY <1>4, ApplyNone
  <1>6. AfterApplying(store[s], <<e>>) = [store[s] EXCEPT ![k] = Absent]
    BY <1>1, <1>3, <1>4, ApplyOne
  <1>7. map = store[s] \/ map = [store[s] EXCEPT ![k] = Absent]
    BY <1>3, <1>5, <1>6
  <1>8. /\ store' = [store EXCEPT ![s] = [map EXCEPT ![k] = Absent]]
        /\ reply' = [reply EXCEPT ![s] = Reply("delete", k, Absent, map[k] # Absent)]
    BY DEF Delete
  <1> HIDE DEF map
  <1>9. map \in Maps /\ [map EXCEPT ![k] = Absent] = [store[s] EXCEPT ![k] = Absent]
    BY <1>4, <1>7 DEF Maps
  <1>10. store'[s] = [store[s] EXCEPT ![k] = Absent]
    BY <1>8, <1>9 DEF NodeInv, MapTypes
  <1>11. store' \in [Server -> Maps]
    <2>1. [map EXCEPT ![k] = Absent] \in Maps
      BY <1>9 DEF Maps
    <2> QED
      BY <1>8, <2>1 DEF NodeInv, MapTypes
  <1> QED
    BY <1>7, <1>8, <1>9, <1>10, <1>11 DEF map

LEMMA InvDelete ==
    ASSUME NodeInv, NEW s \in Server, NEW k \in Key, Delete(s, k)
    PROVE  NodeInv'
PROOF
  <1> DEFINE c == DeleteCommand(k)
  <1>1. c \in Commands /\ c.key = k
    BY DEF Commands, DeleteCommand
  <1>2. Engine!AppendCommand(s, c)
    BY DEF Delete
  <1>3. /\ LogTypes' /\ AppliedUpToDate'
        /\ \A t \in Server \ {s} : log'[t] = log[t]
        /\ Len(log'[s]) = Len(log[s]) + 1
        /\ log'[s][Len(log[s]) + 1].command = c
        /\ \A i \in 1..Len(log[s]) : log'[s][i] = log[s][i]
    BY <1>1, <1>2, LogAfterCommand
  <1> HIDE DEF c
  <1>4. store[s] \in Maps /\ told[s] \in Maps /\ log[s] \in Seq(Entry)
    BY DEF NodeInv, MapTypes, LogTypes
  <1>5. /\ store'[s] = [store[s] EXCEPT ![k] = Absent]
        /\ \A t \in Server \ {s} : store'[t] = store[t]
        /\ DOMAIN store' = Server /\ DOMAIN reply' = Server
    BY DeleteMaps DEF NodeInv, MapTypes
  <1>6. told' = [told EXCEPT ![s] = [told[s] EXCEPT ![k] = Absent]]
    BY DEF Delete
  <1>7. MapTypes'
    <2>1. store'[s] \in Maps /\ [told[s] EXCEPT ![k] = Absent] \in Maps
      BY <1>4, <1>5 DEF Maps
    <2>2. store' \in [Server -> Maps]
      BY DeleteMaps
    <2> QED
      BY <1>5, <1>6, <2>1, <2>2 DEF NodeInv, MapTypes
  <1>8. OnlyTheFirstSetIsLost'
    <2> SUFFICES ASSUME NEW t \in Server, NEW j \in Key, store'[t][j] # told'[t][j]
                 PROVE  /\ log'[t] # <<>>
                        /\ log'[t][1].command = SetCommand(j, told'[t][j])
                        /\ \A i \in 2..Len(log'[t]) : log'[t][i].command.key # j
      BY DEF OnlyTheFirstSetIsLost
    <2>1. CASE t # s
      BY <1>3, <1>5, <1>6, <2>1 DEF NodeInv, MapTypes, OnlyTheFirstSetIsLost
    <2>2. CASE t = s
      <3>1. /\ told'[s][j] = IF j = k THEN Absent ELSE told[s][j]
            /\ store'[s][j] = IF j = k THEN Absent ELSE store[s][j]
        BY <1>4, <1>5, <1>6 DEF Maps, NodeInv, MapTypes
      <3>2. j # k /\ told'[s][j] = told[s][j] /\ store[s][j] # told[s][j]
        BY <2>2, <3>1
      <3>3. /\ log[s] # <<>>
            /\ log[s][1].command = SetCommand(j, told[s][j])
            /\ \A i \in 2..Len(log[s]) : log[s][i].command.key # j
        BY <3>2 DEF NodeInv, OnlyTheFirstSetIsLost
      <3>4. Len(log[s]) \in Nat \ {0} /\ 1 \in 1..Len(log[s])
        BY <1>4, <3>3
      <3>5. log'[s][1] = log[s][1] /\ log'[s] # <<>>
        BY <1>3, <3>4
      <3>6. \A i \in 2..Len(log'[s]) : log'[s][i].command.key # j
        BY <1>1, <1>3, <3>2, <3>3, <3>4
      <3> QED
        BY <2>2, <3>2, <3>3, <3>5, <3>6
    <2> QED
      BY <2>1, <2>2
  <1> QED
    BY <1>3, <1>7, <1>8 DEF NodeInv

LEMMA InvClear ==
    ASSUME NodeInv, NEW s \in Server, Clear(s)
    PROVE  NodeInv'
PROOF
  <1>1. LogTypes' /\ AppliedUpToDate'
    BY DEF NodeInv, LogTypes, AppliedUpToDate, Clear, engineVars
  <1>2. [k \in Key |-> Absent] \in Maps
    BY DEF Maps
  <1>3. MapTypes'
    BY <1>2 DEF NodeInv, MapTypes, Clear
  <1>4. OnlyTheFirstSetIsLost'
    BY DEF NodeInv, MapTypes, OnlyTheFirstSetIsLost, Clear, engineVars
  <1> QED
    BY <1>1, <1>3, <1>4 DEF NodeInv

LEMMA InvNext == NodeInv /\ [Next]_vars => NodeInv'
PROOF
  <1> SUFFICES ASSUME NodeInv, [Next]_vars PROVE NodeInv'
    OBVIOUS
  <1>1. ASSUME NEW s \in Server, NodeStep(s) PROVE NodeInv'
    BY <1>1, InvNodeStep
  <1>2. ASSUME NEW s \in Server, NEW k \in Key, NEW v \in Value, Set(s, k, v) PROVE NodeInv'
    BY <1>2, InvSet
  <1>3. ASSUME NEW s \in Server, NEW k \in Key, Delete(s, k) PROVE NodeInv'
    BY <1>3, InvDelete
  <1>4. ASSUME NEW s \in Server, Clear(s) PROVE NodeInv'
    BY <1>4, InvClear
  <1>5. ASSUME NEW s \in Server, Refuse(s) \/ Read(s) PROVE NodeInv'
    <2>1. UNCHANGED <<log, lastApplied, applied, store, told, currentTerm>>
      BY <1>5 DEF Refuse, Read, Get, Has, GetAllKeys, engineVars
    <2>2. DOMAIN reply' = Server /\ currentTerm' \in [Server -> Nat]
      BY <1>5, <2>1 DEF Refuse, Read, Get, Has, GetAllKeys, NodeInv, MapTypes, LogTypes
    <2> QED
      BY <2>1, <2>2, InvQuiet
  <1>6. CASE UNCHANGED vars
    <2>1. UNCHANGED <<log, lastApplied, applied, store, told, currentTerm, reply>>
      BY <1>6 DEF vars, engineVars
    <2> QED
      BY <2>1, InvQuiet DEF NodeInv, MapTypes, LogTypes
  <1> QED
    BY <1>1, <1>2, <1>3, <1>4, <1>5, <1>6 DEF Next, Request

\* NodeServer!OnlyTheFirstSetIsLost: of all the writes a client was told
\* were done, only the first set of the process's life can be missing.
THEOREM AcknowledgedIsStored == Spec => []OnlyTheFirstSetIsLost
PROOF
  <1>1. NodeInv => OnlyTheFirstSetIsLost
    BY DEF NodeInv
  <1> QED
    BY InvInit, InvNext, <1>1, PTL DEF Spec

-----------------------------------------------------------------------------
(* The reply to a delete.                                                  *)

\* Of all the steps only Delete appends a delete command.
LEMMA OnlyDeleteAnswers ==
    ASSUME NodeInv, [Next]_vars, NEW s \in Server, AnswersDelete(s)
    PROVE  \E k \in Key : Delete(s, k)
PROOF
  <1>1. log'[s] # log[s]
    BY DEF AnswersDelete, NodeInv, LogTypes
  <1>2. PICK t \in Server : NodeStep(t) \/ Request(t)
    BY <1>1 DEF Next, vars, engineVars
  <1>3. ASSUME NodeStep(t) PROVE FALSE
    BY <1>1, <1>3 DEF NodeStep, Engine!Start, Engine!Stop, Engine!TimerStep, Engine!StartElection,
           Engine!IgnoreElectionTimeout, Engine!BecomeLeader, Engine!DropVoteTimer, Engine!logVars
  <1>4. ASSUME Clear(t) \/ Refuse(t) \/ Read(t) PROVE FALSE
    BY <1>1, <1>4 DEF Clear, Refuse, Read, Get, Has, GetAllKeys, engineVars
  <1>5. ASSUME NEW k \in Key, NEW v \in Value, Set(t, k, v) PROVE FALSE
    <2>1. SetCommand(k, v) \in Commands /\ SetCommand(k, v).type = "set"
      BY DEF Commands, SetCommand
    <2>2. /\ \A u \in Server \ {t} : log'[u] = log[u]
          /\ Len(log'[t]) = Len(log[t]) + 1
          /\ log'[t][Len(log[t]) + 1].command = SetCommand(k, v)
      BY <1>5, <2>1, LogAfterCommand DEF Set
    <2>3. t = s
      BY <1>1, <2>2
    <2> QED
      BY <2>1, <2>2, <2>3 DEF AnswersDelete
  <1>6. ASSUME NEW k \in Key, Delete(t, k) PROVE t = s
    <2>1. DeleteCommand(k) \in Commands
      BY DEF Commands
    <2>2. \A u \in Server \ {t} : log'[u] = log[u]
      BY <1>6, <2>1, LogAfterCommand DEF Delete
    <2> QED
      BY <1>1, <2>2
  <1> QED
    BY <1>2, <1>3, <1>4, <1>5, <1>6 DEF Request

LEMMA HonestStep ==
    ASSUME NodeInv, [Next]_vars, NEW s \in Server, AnswersDelete(s), reply'[s].done
    PROVE  /\ store[s][reply'[s].key] # Absent
           /\ store'[s][reply'[s].key] = Absent
PROOF
  <1>1. PICK k \in Key : Delete(s, k)
    BY OnlyDeleteAnswers
  <1> DEFINE map == AfterApplying(store[s], Committed(s))
  <1>2. /\ map = store[s] \/ map = [store[s] EXCEPT ![k] = Absent]
        /\ store'[s] = [store[s] EXCEPT ![k] = Absent]
        /\ reply' = [reply EXCEPT ![s] = Reply("delete", k, Absent, map[k] # Absent)]
    BY <1>1, DeleteMaps
  <1> HIDE DEF map
  <1>3. store[s] \in Maps /\ DOMAIN reply = Server
    BY DEF NodeInv, MapTypes
  <1>4. reply'[s].key = k /\ reply'[s].done = (map[k] # Absent)
    BY <1>2, <1>3 DEF Reply
  <1>5. map[k] # Absent
    BY <1>4
  <1> QED
    BY <1>2, <1>3, <1>4, <1>5 DEF Maps

\* NodeServer!DeletedIsHonest: "deleted: true" names a key that was there and
\* is gone.
THEOREM DeleteRepliesHonestly == Spec => DeletedIsHonest
PROOF
  <1>1. NodeInv /\ [Next]_vars =>
            [\A s \in Server :
                AnswersDelete(s) /\ reply'[s].done =>
                    /\ store[s][reply'[s].key] # Absent
                    /\ store'[s][reply'[s].key] = Absent]_vars
    BY HonestStep
  <1> QED
    BY InvInit, InvNext, <1>1, PTL DEF Spec, DeletedIsHonest

-----------------------------------------------------------------------------
(* The engine within the node: what RaftEngineProofs proves of an engine    *)
(* that receives any well-formed requests holds of one that receives none.  *)

Proved == INSTANCE RaftEngineProofs WITH
    Command <- Commands, Peer <- {}, AppendRequests <- {}, VoteRequests <- {}

LEMMA EngineAssumptions ==
    Proved!IdAssumption /\ Proved!RequestAssumption /\ Proved!BoundAssumption
PROOF
  BY NodeAssumption DEF Proved!IdAssumption, Proved!RequestAssumption, Proved!BoundAssumption

\* The two instances are one module with one substitution.
LEMMA SameEngine ==
    /\ Engine!Init => Proved!Init
    /\ \A s \in Server : Engine!Start(s) \/ Engine!Stop(s) \/ Engine!TimerStep(s)
                             => Proved!Start(s) \/ Proved!Stop(s) \/ Proved!TimerStep(s)
    /\ \A s \in Server, c \in Commands : Engine!AppendCommand(s, c) => Proved!AppendCommand(s, c)
    /\ Engine!TypeOK <=> Proved!TypeOK
PROOF
  <1>1. Engine!Init => Proved!Init
    BY DEF Engine!Init, Proved!Init
  <1>2. ASSUME NEW s \in Server
        PROVE  /\ Engine!Start(s) => Proved!Start(s)
               /\ Engine!Stop(s) => Proved!Stop(s)
               /\ Engine!TimerStep(s) => Proved!TimerStep(s)
    BY DEF Engine!Start, Proved!Start, Engine!Stop, Proved!Stop, Engine!TimerStep, Proved!TimerStep,
           Engine!StartElection, Proved!StartElection, Engine!BecomeLeader, Proved!BecomeLeader,
           Engine!IgnoreElectionTimeout, Proved!IgnoreElectionTimeout,
           Engine!DropVoteTimer, Proved!DropVoteTimer, Engine!termVars, Proved!termVars,
           Engine!roleVars, Proved!roleVars, Engine!logVars, Proved!logVars,
           Engine!timerVars, Proved!timerVars
  <1>3. \A s \in Server, c \in Commands : Engine!AppendCommand(s, c) => Proved!AppendCommand(s, c)
    BY DEF Engine!AppendCommand, Proved!AppendCommand, Engine!ApplyCommittedEntries,
           Proved!ApplyCommittedEntries, Engine!Larger, Proved!Larger, Engine!Smaller, Proved!Smaller,
           Engine!termVars, Proved!termVars, Engine!roleVars, Proved!roleVars,
           Engine!timerVars, Proved!timerVars
  <1>4. Engine!TypeOK <=> Proved!TypeOK
    BY DEF Engine!TypeOK, Proved!TypeOK, Engine!Entry, Proved!Entry
  <1> QED
    BY <1>1, <1>2, <1>3, <1>4

LEMMA EngineStep == [Next]_vars => [Proved!Next]_(Proved!vars)
PROOF
  <1> SUFFICES ASSUME [Next]_vars PROVE Proved!Next \/ UNCHANGED Proved!vars
    OBVIOUS
  <1>1. UNCHANGED engineVars => UNCHANGED Proved!vars
    BY DEF engineVars, Proved!vars, Proved!termVars, Proved!roleVars, Proved!logVars, Proved!timerVars
  <1>2. ASSUME NEW s \in Server, NodeStep(s) PROVE Proved!Next
    BY <1>2, SameEngine DEF NodeStep, Proved!Next, Proved!LocalStep
  <1>3. ASSUME NEW s \in Server, NEW c \in Commands, Engine!AppendCommand(s, c) PROVE Proved!Next
    BY <1>3, SameEngine DEF Proved!Next, Proved!LocalStep
  <1>4. ASSUME NEW s \in Server, NEW k \in Key, NEW v \in Value, Set(s, k, v) PROVE Proved!Next
    <2>1. SetCommand(k, v) \in Commands
      BY DEF Commands
    <2> QED
      BY <1>3, <1>4, <2>1 DEF Set
  <1>5. ASSUME NEW s \in Server, NEW k \in Key, Delete(s, k) PROVE Proved!Next
    <2>1. DeleteCommand(k) \in Commands
      BY DEF Commands
    <2> QED
      BY <1>3, <1>5, <2>1 DEF Delete
  <1>6. ASSUME NEW s \in Server, Clear(s) \/ Read(s) \/ Refuse(s) PROVE UNCHANGED engineVars
    BY <1>6 DEF Clear, Read, Get, Has, GetAllKeys, Refuse
  <1>7. CASE UNCHANGED vars
    BY <1>1, <1>7 DEF vars
  <1> QED
    BY <1>1, <1>2, <1>4, <1>5, <1>6, <1>7 DEF Next, Request

\* Serving its clients, a node takes only steps of its engine: all that is
\* proved of RaftEngine.Spec holds in it.
THEOREM NodeRunsTheEngine == Spec => Proved!Spec
PROOF
  <1>1. Init => Proved!Init
    BY SameEngine DEF Init
  <1> QED
    BY <1>1, EngineStep, PTL DEF Spec, Proved!Spec

LEMMA EngineTypes == Spec => []Engine!TypeOK
PROOF
  <1>1. Proved!Spec => []Proved!TypeOK
    BY EngineAssumptions, Proved!TypeCorrect
  <1>2. Proved!TypeOK => Engine!TypeOK
    BY SameEngine
  <1> QED
    BY <1>1, <1>2, NodeRunsTheEngine, PTL

ReplyType ==
    [op : {"none", "set", "delete", "get", "exists", "keys", "clear", "refused"},
     key : Key \cup Server \cup {Nil}, value : Value \cup {Absent}, done : BOOLEAN]

Replies == reply \in [Server -> ReplyType]

LEMMA ReplyTypes ==
    ASSUME NEW op \in {"none", "set", "delete", "get", "exists", "keys", "clear", "refused"},
           NEW k \in Key \cup Server \cup {Nil}, NEW v \in Value \cup {Absent}, NEW done \in BOOLEAN
    PROVE  Reply(op, k, v, done) \in ReplyType
PROOF
  BY DEF Reply, ReplyType

LEMMA RepliesNext == NodeInv /\ Engine!TypeOK /\ Replies /\ [Next]_vars => Replies'
PROOF
  <1> SUFFICES ASSUME NodeInv, Engine!TypeOK, Replies, [Next]_vars PROVE Replies'
    OBVIOUS
  <1>1. ASSUME NEW s \in Server, NEW x \in ReplyType, reply' = [reply EXCEPT ![s] = x]
        PROVE  Replies'
    BY <1>1 DEF Replies
  <1>2. ASSUME NEW s \in Server, NEW k \in Key, NEW v \in Value, Set(s, k, v) PROVE Replies'
    BY <1>1, <1>2, ReplyTypes DEF Set
  <1>3. ASSUME NEW s \in Server, NEW k \in Key, Delete(s, k) PROVE Replies'
    <2> DEFINE done == AfterApplying(store[s], Committed(s))[k] # Absent
    <2>1. reply' = [reply EXCEPT ![s] = Reply("delete", k, Absent, done)]
      BY <1>3 DEF Delete
    <2>2. done \in BOOLEAN
      OBVIOUS
    <2> HIDE DEF done
    <2>3. Reply("delete", k, Absent, done) \in ReplyType
      BY <2>2, ReplyTypes
    <2> QED
      BY <1>1, <2>1, <2>3
  <1>4. ASSUME NEW s \in Server, Clear(s) PROVE Replies'
    BY <1>1, <1>4, ReplyTypes DEF Clear
  <1>5. ASSUME NEW s \in Server, Read(s) PROVE Replies'
    <2>1. ASSUME NEW k \in Key, Get(s, k) PROVE Replies'
      <3> DEFINE v == store[s][k]
                 done == v # Absent
      <3>1. v \in Value \cup {Absent}
        BY DEF NodeInv, MapTypes, Maps
      <3>2. done \in BOOLEAN
        OBVIOUS
      <3>3. reply' = [reply EXCEPT ![s] = Reply("get", k, v, done)]
        BY <2>1 DEF Get
      <3> HIDE DEF v, done
      <3>4. Reply("get", k, v, done) \in ReplyType
        BY <3>1, <3>2, ReplyTypes
      <3> QED
        BY <1>1, <3>3, <3>4
    <2>2. ASSUME NEW k \in Key, Has(s, k) PROVE Replies'
      <3> DEFINE done == store[s][k] # Absent
      <3>1. done \in BOOLEAN
        OBVIOUS
      <3>2. reply' = [reply EXCEPT ![s] = Reply("exists", k, Absent, done)]
        BY <2>2 DEF Has
      <3> HIDE DEF done
      <3>3. Reply("exists", k, Absent, done) \in ReplyType
        BY <3>1, ReplyTypes
      <3> QED
        BY <1>1, <3>2, <3>3
    <2>3. CASE GetAllKeys(s)
      BY <1>1, <2>3, ReplyTypes DEF GetAllKeys
    <2> QED
      BY <1>5, <2>1, <2>2, <2>3 DEF Read
  <1>6. ASSUME NEW s \in Server, Refuse(s) PROVE Replies'
    <2>1. leaderId[s] \in Key \cup Server \cup {Nil}
      BY DEF Engine!TypeOK
    <2> QED
      BY <1>1, <1>6, <2>1, ReplyTypes DEF Refuse
  <1>7. CASE (\E s \in Server : NodeStep(s)) \/ UNCHANGED vars
    BY <1>7 DEF NodeStep, vars, Replies
  <1> QED
    BY <1>2, <1>3, <1>4, <1>5, <1>6, <1>7 DEF Next, Request

\* A node's state has its types: the engine's from the engine's own theorem,
\* the maps' and the replies' from the node's steps.
THEOREM TypeCorrect == Spec => []TypeOK
PROOF
  <1>1. Init => Replies
    <2>1. NoReply \in ReplyType
      BY ReplyTypes DEF NoReply
    <2> QED
      BY <2>1 DEF Init, Replies
  <1>2. NodeInv /\ Engine!TypeOK /\ Replies => TypeOK
    BY DEF NodeInv, MapTypes, Replies, ReplyType, TypeOK
  <1> QED
    BY <1>1, <1>2, InvInit, InvNext, EngineTypes, RepliesNext, PTL DEF Spec

-----------------------------------------------------------------------------
(* The HTTP interface.                                                     *)
RoleTypes ==
    /\ status \in [Server -> {"follower", "candidate", "leader"}]
    /\ leaderId \in [Server -> Server \cup {Nil}]

\* What the steps of the interface need beyond NodeInv.
RoutesInv ==
    /\ NodeInv
    /\ RoleTypes
    /\ RefusalsAreEarlyAndBlind
    /\ DOMAIN response = Server

-----------------------------------------------------------------------------
(* The interface over the node.                                            *)

\* What the routes pass on is a value, whatever the schema made of it.
LEMMA StoredIsAValue ==
    ASSUME NEW r \in Route, NEW v \in Value
    PROVE  Stored(r, v) \in Value
PROOF
  BY RouteAssumption DEF Stored, Truthy

\* Every request of the interface is one of the node, or none of its business.
LEMMA RoutesStepIsNodeStep == [RoutesNext]_routeVars => [Next]_vars
PROOF
  <1> SUFFICES ASSUME [RoutesNext]_routeVars PROVE [Next]_vars
    OBVIOUS
  <1>1. CASE UNCHANGED routeVars
    BY <1>1 DEF routeVars
  <1>2. ASSUME NEW s \in Server, NodeStep(s) PROVE Next
    BY <1>2 DEF Next
  <1>3. ASSUME NEW s \in Server, NEW k \in Key, KeyRequest(s, k) PROVE Next
    <2>1. ASSUME NEW r \in Route, NEW v \in Value, SetKeyValue(r, s, k, v) PROVE Next
      BY <2>1, StoredIsAValue DEF SetKeyValue, Next, Request
    <2>2. ASSUME NEW r \in Route, DeleteKey(r, s, k) PROVE Next
      BY <2>2 DEF DeleteKey, Next, Request
    <2>3. ASSUME NEW r \in Route, GetValue(r, s, k) PROVE Next
      BY <2>3 DEF GetValue, Next, Request, Read
    <2>4. CASE KeyExists(s, k)
      BY <2>4 DEF KeyExists, Next, Request, Read
    <2> QED
      BY <1>3, <2>1, <2>2, <2>3, <2>4 DEF KeyRequest
  <1>4. ASSUME NEW s \in Server, ClearAll(s) PROVE Next
    BY <1>4 DEF ClearAll, Next, Request
  <1>5. ASSUME NEW s \in Server, ListKeys(s) PROVE Next
    BY <1>5 DEF ListKeys, Next, Request, Read
  <1>6. ASSUME NEW s \in Server, NotLeader(s) PROVE Next
    BY <1>6 DEF NotLeader, Next, Request
  <1>7. ASSUME NEW s \in Server, Invalid(s) PROVE UNCHANGED vars
    BY <1>7 DEF Invalid
  <1> QED
    BY <1>1, <1>2, <1>3, <1>4, <1>5, <1>6, <1>7 DEF RoutesNext

\* Each step answers at one node, or at none.
LEMMA ResponseStays ==
    ASSUME DOMAIN response = Server, [RoutesNext]_routeVars
    PROVE  DOMAIN response' = Server
PROOF
  <1>1. UNCHANGED response \/ \E s \in Server : \E p : response' = [response EXCEPT ![s] = p]
    <2>1. CASE UNCHANGED routeVars
      BY <2>1 DEF routeVars
    <2>2. ASSUME NEW s \in Server, NEW k \in Key, KeyRequest(s, k)
          PROVE  \E p : response' = [response EXCEPT ![s] = p]
      BY <2>2 DEF KeyRequest, SetKeyValue, DeleteKey, GetValue, KeyExists, Respond
    <2>3. ASSUME NEW s \in Server, ClearAll(s) \/ ListKeys(s) \/ NotLeader(s) \/ Invalid(s)
          PROVE  \E p : response' = [response EXCEPT ![s] = p]
      BY <2>3 DEF ClearAll, ListKeys, NotLeader, Invalid, Respond
    <2> QED
      BY <2>1, <2>2, <2>3 DEF RoutesNext
  <1> QED
    BY <1>1

-----------------------------------------------------------------------------
(* Refusals.                                                               *)

\* A node becomes a leader and stays one, and only a leader's log grows.
LEMMA RefusalsStep ==
    ASSUME NodeInv, RoleTypes, RefusalsAreEarlyAndBlind, [Next]_vars
    PROVE  RoleTypes' /\ RefusalsAreEarlyAndBlind'
PROOF
  <1> USE DEF RoleTypes, RefusalsAreEarlyAndBlind, IsLeader
  <1>1. ASSUME UNCHANGED <<status, leaderId, log>> PROVE RoleTypes' /\ RefusalsAreEarlyAndBlind'
    BY <1>1
  <1>2. ASSUME NEW s \in Server, NodeStep(s) PROVE RoleTypes' /\ RefusalsAreEarlyAndBlind'
    <2>1. CASE Engine!Start(s) \/ Engine!Stop(s) \/ Engine!IgnoreElectionTimeout(s)
                 \/ Engine!DropVoteTimer(s)
      <3>1. UNCHANGED <<status, leaderId, log>>
        BY <2>1 DEF Engine!Start, Engine!Stop, Engine!IgnoreElectionTimeout,
               Engine!DropVoteTimer, Engine!roleVars, Engine!logVars
      <3> QED
        BY <3>1, <1>1
    <2>2. CASE Engine!StartElection(s)
      <3>1. /\ status[s] # "leader"
            /\ status' = [status EXCEPT ![s] = "candidate"]
            /\ UNCHANGED <<leaderId, log>>
        BY <2>2 DEF Engine!StartElection, Engine!logVars
      <3> QED
        BY <3>1
    <2>3. CASE Engine!BecomeLeader(s)
      <3>1. /\ status' = [status EXCEPT ![s] = "leader"]
            /\ leaderId' = [leaderId EXCEPT ![s] = s]
            /\ UNCHANGED log
        BY <2>3 DEF Engine!BecomeLeader, Engine!logVars
      <3> QED
        BY <3>1
    <2> QED
      BY <1>2, <2>1, <2>2, <2>3 DEF NodeStep, Engine!TimerStep
  <1>3. ASSUME NEW s \in Server, NEW c \in Commands, IsLeader(s), Engine!AppendCommand(s, c)
        PROVE  RoleTypes' /\ RefusalsAreEarlyAndBlind'
    <2>1. UNCHANGED <<status, leaderId>> /\ \A t \in Server \ {s} : log'[t] = log[t]
      BY <1>3, LogAfterCommand DEF Engine!AppendCommand, Engine!roleVars
    <2> QED
      BY <1>3, <2>1
  <1>4. ASSUME NEW s \in Server, Request(s) PROVE RoleTypes' /\ RefusalsAreEarlyAndBlind'
    <2>1. ASSUME NEW k \in Key, NEW v \in Value, Set(s, k, v)
          PROVE  RoleTypes' /\ RefusalsAreEarlyAndBlind'
      BY <2>1, <1>3 DEF Set, Commands
    <2>2. ASSUME NEW k \in Key, Delete(s, k)
          PROVE  RoleTypes' /\ RefusalsAreEarlyAndBlind'
      BY <2>2, <1>3 DEF Delete, Commands
    <2>3. CASE Clear(s) \/ Read(s) \/ Refuse(s)
      BY <2>3, <1>1 DEF Clear, Read, Get, Has, GetAllKeys, Refuse, engineVars
    <2> QED
      BY <1>4, <2>1, <2>2, <2>3 DEF Request
  <1>5. CASE UNCHANGED vars
    BY <1>5, <1>1 DEF vars, engineVars
  <1> QED
    BY <1>2, <1>4, <1>5 DEF Next

LEMMA RoutesInvInit == InitRoutes => RoutesInv
PROOF
  <1> SUFFICES ASSUME InitRoutes PROVE RoutesInv
    OBVIOUS
  <1>1. NodeInv
    BY InvInit DEF InitRoutes
  <1>2. RoleTypes /\ RefusalsAreEarlyAndBlind
    BY DEF InitRoutes, Init, Engine!Init, RoleTypes, RefusalsAreEarlyAndBlind
  <1>3. DOMAIN response = Server
    BY DEF InitRoutes
  <1> QED
    BY <1>1, <1>2, <1>3 DEF RoutesInv

LEMMA RoutesInvNext == RoutesInv /\ [RoutesNext]_routeVars => RoutesInv'
PROOF
  BY RoutesStepIsNodeStep, InvNext, RefusalsStep, ResponseStays DEF RoutesInv

\* KeyValueRoutes!RefusalsAreEarlyAndBlind: only a node that has never accepted
\* a write refuses one, and it names nobody to go to.
THEOREM RefusalsComeFirst == RoutesSpec => []RefusalsAreEarlyAndBlind
PROOF
  <1>1. RoutesInv => RefusalsAreEarlyAndBlind
    BY DEF RoutesInv
  <1> QED
    BY RoutesInvInit, RoutesInvNext, <1>1, PTL DEF RoutesSpec

-----------------------------------------------------------------------------
(* Reads.                                                                  *)

\* Where the first set is not the key's last write, the storage has what the
\* client was told, and the routes show it as far as they show anything.
LEMMA ReadsFollow == NodeInv => ReadsShowTheAcknowledged
PROOF
  <1> SUFFICES ASSUME NodeInv, NEW s \in Server, NEW k \in Key, ~LostFirstSet(s, k)
               PROVE  LET v == told[s][k] IN
                      /\ GetResponse("api", ReadNode(s, k)) =
                             IF v \in {Absent, Null} THEN Response(404, Absent, {})
                             ELSE Response(200, v, {})
                      /\ GetResponse("kv", ReadNode(s, k)) =
                             IF v \in {Absent, Null} THEN Response(404, Absent, {})
                             ELSE Response(200, IF v \in Truthy THEN v ELSE Absent, {})
                      /\ k \in Keys(s) <=> v # Absent
    BY DEF ReadsShowTheAcknowledged
  <1>1. store[s][k] = told[s][k]
    <2> SUFFICES ASSUME store[s][k] # told[s][k] PROVE LostFirstSet(s, k)
      OBVIOUS
    <2>1. /\ log[s] # <<>>
          /\ log[s][1].command = SetCommand(k, told[s][k])
          /\ \A i \in 2..Len(log[s]) : log[s][i].command.key # k
      BY DEF NodeInv, OnlyTheFirstSetIsLost
    <2>2. log[s][1].command.type = "set" /\ log[s][1].command.key = k
      BY <2>1 DEF SetCommand
    <2> QED
      BY <2>1, <2>2 DEF LostFirstSet
  <1>2. told[s][k] \in Value \cup {Absent}
    BY DEF NodeInv, MapTypes, Maps
  <1>3. k \in Keys(s) <=> told[s][k] # Absent
    BY <1>1 DEF Keys
  <1> DEFINE v == told[s][k]
  <1>4. ReadNode(s, k) = IF v = Absent THEN Null ELSE v
    BY <1>1 DEF ReadNode
  <1>5. GetResponse("api", ReadNode(s, k)) =
            IF v \in {Absent, Null} THEN Response(404, Absent, {}) ELSE Response(200, v, {})
    BY <1>4 DEF GetResponse
  <1>6. GetResponse("kv", ReadNode(s, k)) =
            IF v \in {Absent, Null} THEN Response(404, Absent, {})
            ELSE Response(200, IF v \in Truthy THEN v ELSE Absent, {})
    BY <1>2, <1>4 DEF GetResponse, Truthy
  <1> QED
    BY <1>3, <1>5, <1>6

\* KeyValueRoutes!ReadsShowTheAcknowledged: what clients were told is stored is
\* what both sets of routes show.
THEOREM ReadersSeeWhatWasTold == RoutesSpec => []ReadsShowTheAcknowledged
PROOF
  <1>1. RoutesInv => ReadsShowTheAcknowledged
    BY ReadsFollow DEF RoutesInv
  <1> QED
    BY RoutesInvInit, RoutesInvNext, <1>1, PTL DEF RoutesSpec

-----------------------------------------------------------------------------
(* The refinement.                                                         *)

\* What the client sees of a reply of the node in a response of the routes.
AnswerOf(rep, resp) ==
    IF resp.code = 400 THEN
        [op |-> "rejected", key |-> Nil, value |-> Absent, done |-> FALSE, keys |-> {}]
    ELSE
        [op    |-> rep.op,
         key   |-> IF rep.op = "refused" THEN Nil ELSE rep.key,
         value |-> resp.value,
         done  |-> rep.done /\ resp.code = 200,
         keys  |-> resp.keys]

Shown == [s \in Server |-> ClientAnswer(s)]
Fresh == [s \in Server |-> log[s] = <<>>]

\* The step answers the client of node s: q is what the node replies, p what
\* the route makes of it.
Answers(s, q, p) ==
    /\ reply' = [reply EXCEPT ![s] = q]
    /\ response' = [response EXCEPT ![s] = p]

LEMMA AnswerFields ==
    ASSUME NEW q, NEW p, p.code # 400, NEW k, k = IF q.op = "refused" THEN Nil ELSE q.key,
           NEW done \in BOOLEAN, done <=> q.done /\ p.code = 200
    PROVE  AnswerOf(q, p) = Promise!Answer(q.op, k, p.value, done, p.keys)
PROOF
  <1>1. (q.done /\ p.code = 200) = done
    OBVIOUS
  <1>2. AnswerOf(q, p) = [op |-> q.op, key |-> k, value |-> p.value,
                          done |-> (q.done /\ p.code = 200), keys |-> p.keys]
    BY DEF AnswerOf
  <1>3. AnswerOf(q, p) = [op |-> q.op, key |-> k, value |-> p.value, done |-> done, keys |-> p.keys]
    BY <1>1, <1>2
  <1> QED
    BY <1>3 DEF Promise!Answer

LEMMA ShownAfter ==
    ASSUME NEW s \in Server, NEW q, NEW p, DOMAIN reply = Server, DOMAIN response = Server,
           \A t \in Server \ {s} : reply'[t] = reply[t] /\ response'[t] = response[t],
           reply'[s] = q, response'[s] = p
    PROVE  Shown' = [Shown EXCEPT ![s] = AnswerOf(q, p)]
PROOF
  <1>1. \A t \in Server : ClientAnswer(t) = AnswerOf(reply[t], response[t])
    BY DEF ClientAnswer, AnswerOf
  <1>2. \A t \in Server : ClientAnswer(t)' = AnswerOf(reply'[t], response'[t])
    BY DEF ClientAnswer, AnswerOf
  <1>3. \A t \in Server : Shown'[t] = IF t = s THEN AnswerOf(q, p) ELSE Shown[t]
    BY <1>1, <1>2 DEF Shown
  <1>4. Shown' = [t \in Server |-> ClientAnswer(t)']
    BY DEF Shown
  <1>5. Shown' = [t \in Server |-> IF t = s THEN AnswerOf(q, p) ELSE Shown[t]]
    BY <1>3, <1>4
  <1> QED
    BY <1>5 DEF Shown

LEMMA TellsTheClient ==
    ASSUME NEW s \in Server, NEW q, NEW p, DOMAIN reply = Server, DOMAIN response = Server,
           Answers(s, q, p), p.code # 400,
           NEW k, k = IF q.op = "refused" THEN Nil ELSE q.key,
           NEW done \in BOOLEAN, done <=> q.done /\ p.code = 200
    PROVE  Shown' = [Shown EXCEPT ![s] = Promise!Answer(q.op, k, p.value, done, p.keys)]
PROOF
  <1>1. /\ \A t \in Server \ {s} : reply'[t] = reply[t] /\ response'[t] = response[t]
        /\ reply'[s] = q /\ response'[s] = p
    BY DEF Answers
  <1>2. Shown' = [Shown EXCEPT ![s] = AnswerOf(q, p)]
    BY <1>1, ShownAfter
  <1>3. AnswerOf(q, p) = Promise!Answer(q.op, k, p.value, done, p.keys)
    BY AnswerFields
  <1> QED
    BY <1>2, <1>3

\* Reads and refusals leave the log as it is; so do clears.
LEMMA FreshStays == UNCHANGED log => UNCHANGED Fresh
PROOF
  BY DEF Fresh

\* A set and a delete make a log that is not empty.
LEMMA FreshAfterCommand ==
    ASSUME NodeInv, NEW s \in Server, NEW c \in Commands, Engine!AppendCommand(s, c)
    PROVE  Fresh' = [Fresh EXCEPT ![s] = FALSE]
PROOF
  <1>1. /\ \A t \in Server \ {s} : log'[t] = log[t]
        /\ Len(log'[s]) = Len(log[s]) + 1
    BY LogAfterCommand
  <1>2. Len(log[s]) \in Nat
    BY DEF NodeInv, LogTypes
  <1>3. log'[s] # <<>>
    BY <1>1, <1>2
  <1>4. \A t \in Server : Fresh'[t] = IF t = s THEN FALSE ELSE Fresh[t]
    BY <1>1, <1>3 DEF Fresh
  <1> QED
    BY <1>4 DEF Fresh

\* The first set is not applied, every other one is.
LEMMA SetMaps ==
    ASSUME NodeInv, NEW s \in Server, NEW k \in Key, NEW v \in Value, Set(s, k, v)
    PROVE  store' = [store EXCEPT ![s][k] = v] \/ (log[s] = <<>> /\ UNCHANGED store)
PROOF
  <1> DEFINE c == SetCommand(k, v)
             e == [term |-> currentTerm[s], index |-> Len(log[s]), command |-> c]
  <1>1. c \in Commands /\ c.key = k /\ c.value = v /\ e.command = c
    BY DEF Commands, SetCommand
  <1>2. Engine!AppendCommand(s, c)
    BY DEF Set
  <1>3. e \in Entry /\ Committed(s) = IF log[s] = <<>> THEN <<>> ELSE <<e>>
    BY <1>1, <1>2, AppendCommits
  <1> HIDE DEF c, e
  <1>4. store \in [Server -> Maps] /\ store[s] \in Maps
    BY DEF NodeInv, MapTypes
  <1>5. store' = [store EXCEPT ![s] = AfterApplying(store[s], Committed(s))]
    BY DEF Set
  <1>6. CASE log[s] = <<>>
    <2>1. AfterApplying(store[s], Committed(s)) = store[s]
      BY <1>3, <1>4, <1>6, ApplyNone
    <2> QED
      BY <1>4, <1>5, <1>6, <2>1
  <1>7. CASE log[s] # <<>>
    <2>1. AfterApplying(store[s], Committed(s)) = [store[s] EXCEPT ![k] = v]
      BY <1>1, <1>3, <1>4, <1>7, ApplyOne
    <2>2. store' = [store EXCEPT ![s] = [store[s] EXCEPT ![k] = v]]
      BY <1>5, <2>1
    <2> QED
      BY <2>2
  <1> QED
    BY <1>6, <1>7

LEMMA SetImplements ==
    ASSUME RoutesInv, NEW r \in Route, NEW s \in Server, NEW k \in Key, NEW v \in Value,
           SetKeyValue(r, s, k, v)
    PROVE  Promise!Put(s, k, Stored(r, v))
PROOF
  <1>1. DOMAIN reply = Server /\ DOMAIN response = Server
    BY DEF RoutesInv, NodeInv, MapTypes
  <1> DEFINE q == Reply("set", k, Stored(r, v), TRUE)
             p == Response(200, Absent, {})
             done == TRUE
  <1>2. q.op = "set" /\ q.key = k /\ q.done = TRUE
    BY DEF Reply
  <1>3. p.code = 200 /\ p.value = Absent /\ p.keys = {}
    BY DEF Response
  <1>4. Answers(s, q, p)
    BY DEF Answers, SetKeyValue, Set, Respond
  <1>5. done \in BOOLEAN /\ (done <=> q.done /\ p.code = 200)
    BY <1>2, <1>3
  <1> HIDE DEF q, p, done
  <1>6. Shown' = [Shown EXCEPT ![s] = Promise!Answer(q.op, k, p.value, done, p.keys)]
    BY <1>1, <1>2, <1>3, <1>4, <1>5, TellsTheClient
  <1>7. Shown' = [Shown EXCEPT ![s] = Promise!Answer("set", k, Absent, done, {})]
    BY <1>2, <1>3, <1>6
  <1>8. NodeInv /\ Set(s, k, Stored(r, v))
    BY DEF RoutesInv, SetKeyValue
  <1>9. Fresh' = [Fresh EXCEPT ![s] = FALSE]
    <2> DEFINE w == Stored(r, v)
    <2>1. w \in Value
      BY StoredIsAValue
    <2> HIDE DEF w
    <2>2. NodeInv /\ Set(s, k, w)
      BY <1>8 DEF w
    <2>3. SetCommand(k, w) \in Commands /\ Engine!AppendCommand(s, SetCommand(k, w))
      BY <2>1, <2>2 DEF Set, Commands
    <2> QED
      BY <2>2, <2>3, FreshAfterCommand
  <1>10. store' = [store EXCEPT ![s][k] = Stored(r, v)] \/ (Fresh[s] /\ UNCHANGED store)
    BY <1>8, StoredIsAValue, SetMaps DEF Fresh
  <1> QED
    BY <1>7, <1>9, <1>10 DEF done, Promise!Put, Promise!Tell, Shown, Fresh

LEMMA DeleteImplements ==
    ASSUME RoutesInv, NEW r \in Route, NEW s \in Server, NEW k \in Key, DeleteKey(r, s, k)
    PROVE  Promise!Remove(s, k)
PROOF
  <1> DEFINE map == AfterApplying(store[s], Committed(s))
             existed == map[k] # Absent
             p == Response(DeleteCode(r, existed), Absent, {})
  <1>1. NodeInv /\ Delete(s, k) /\ DOMAIN reply = Server /\ DOMAIN response = Server
    BY DEF RoutesInv, NodeInv, MapTypes, DeleteKey
  <1>2. /\ map = store[s] \/ map = [store[s] EXCEPT ![k] = Absent]
        /\ store'[s] = [store[s] EXCEPT ![k] = Absent]
        /\ store' = [store EXCEPT ![s] = [map EXCEPT ![k] = Absent]]
        /\ reply' = [reply EXCEPT ![s] = Reply("delete", k, Absent, map[k] # Absent)]
    BY <1>1, DeleteMaps
  <1> HIDE DEF map
  <1>3. reply'[s].done = existed
    BY <1>1, <1>2 DEF Reply
  <1> DEFINE q == Reply("delete", k, Absent, existed)
             done == existed /\ DeleteCode(r, existed) = 200
  <1>4. Answers(s, q, p)
    BY <1>2, <1>3 DEF Answers, DeleteKey, Respond
  <1>5. /\ q.op = "delete" /\ q.key = k /\ q.done = existed
        /\ p.code = DeleteCode(r, existed) /\ p.value = Absent /\ p.keys = {}
    BY DEF Reply, Response
  <1>6. p.code # 400 /\ done \in BOOLEAN /\ (done <=> q.done /\ p.code = 200)
    <2>1. DeleteCode(r, existed) \in {200, 404}
      BY DEF DeleteCode
    <2>2. p.code # 400
      <3> HIDE DEF p
      <3> QED
        BY <1>5, <2>1
    <2>3. p.code = DeleteCode(r, existed) /\ q.done = existed
      BY <1>5
    <2>4. done \in BOOLEAN
      OBVIOUS
    <2> HIDE DEF p, q, existed
    <2>5. done <=> q.done /\ p.code = 200
      BY <2>3
    <2> QED
      BY <2>2, <2>4, <2>5
  <1>7. done \in BOOLEAN /\ (done => store[s][k] # Absent)
    <2>1. store[s] \in Maps
      BY <1>1 DEF NodeInv, MapTypes
    <2> QED
      BY <1>2, <2>1 DEF Maps
  <1>8. store' = [store EXCEPT ![s][k] = Absent]
    <2>1. store \in [Server -> Maps] /\ store' \in [Server -> Maps]
      BY <1>1, DeleteMaps DEF NodeInv, MapTypes
    <2>2. \A t \in Server : t # s => store'[t] = store[t]
      BY <1>2, <2>1
    <2> QED
      BY <1>2, <2>1, <2>2
  <1>9. Fresh' = [Fresh EXCEPT ![s] = FALSE]
    BY <1>1, FreshAfterCommand DEF Delete, Commands
  <1> HIDE DEF q, p, done, existed
  <1>10. Shown' = [Shown EXCEPT ![s] = Promise!Answer(q.op, k, p.value, done, p.keys)]
    BY <1>1, <1>4, <1>5, <1>6, TellsTheClient
  <1>11. Shown' = [Shown EXCEPT ![s] = Promise!Answer("delete", k, Absent, done, {})]
    BY <1>5, <1>10
  <1> QED
    BY <1>7, <1>8, <1>9, <1>11 DEF Promise!Remove, Promise!Tell, Shown, Fresh

LEMMA ClearImplements ==
    ASSUME RoutesInv, NEW s \in Server, ClearAll(s)
    PROVE  Promise!RemoveAll(s)
PROOF
  <1>1. DOMAIN reply = Server /\ DOMAIN response = Server
    BY DEF RoutesInv, NodeInv, MapTypes
  <1> DEFINE q == Reply("clear", Nil, Absent, TRUE)
             p == Response(200, Absent, {})
             done == TRUE
  <1>2. q.op = "clear" /\ q.key = Nil /\ q.done = TRUE
    BY DEF Reply
  <1>3. p.code = 200 /\ p.value = Absent /\ p.keys = {}
    BY DEF Response
  <1>4. Answers(s, q, p)
    BY DEF Answers, ClearAll, Clear, Respond
  <1>5. done \in BOOLEAN /\ (done <=> q.done /\ p.code = 200)
    BY <1>2, <1>3
  <1> HIDE DEF q, p, done
  <1>6. Shown' = [Shown EXCEPT ![s] = Promise!Answer(q.op, Nil, p.value, done, p.keys)]
    BY <1>1, <1>2, <1>3, <1>4, <1>5, TellsTheClient
  <1>7. Shown' = [Shown EXCEPT ![s] = Promise!Answer("clear", Nil, Absent, done, {})]
    BY <1>2, <1>3, <1>6
  <1>8. UNCHANGED Fresh /\ store' = [store EXCEPT ![s] = [k \in Key |-> Absent]]
    BY FreshStays DEF ClearAll, Clear, engineVars
  <1> QED
    BY <1>7, <1>8 DEF done, Promise!RemoveAll, Promise!Tell, Shown, Fresh

LEMMA GetImplements ==
    ASSUME RoutesInv, NEW r \in Route, NEW s \in Server, NEW k \in Key, GetValue(r, s, k)
    PROVE  Promise!Look(s, k)
PROOF
  <1> DEFINE v == store[s][k]
             there == v # Absent
             p == GetResponse(r, ReadNode(s, k))
             q == Reply("get", k, v, there)
             done == there /\ p.code = 200
  <1>1. /\ DOMAIN reply = Server /\ DOMAIN response = Server
        /\ v \in Value \cup {Absent}
    BY DEF RoutesInv, NodeInv, MapTypes, Maps
  <1>2. q.op = "get" /\ q.key = k /\ q.done = there
    BY DEF Reply
  <1>3. /\ p.keys = {} /\ p.code # 400
        /\ \/ p.value = v /\ (there => p.code = 200)
           \/ v \in Hollow /\ p.value = Absent
    BY <1>1, NodeAssumption DEF GetResponse, ReadNode, Response, Hollow
  <1>4. Answers(s, q, p)
    BY DEF Answers, GetValue, Get
  <1>5. done \in BOOLEAN /\ (done <=> q.done /\ p.code = 200)
    BY <1>2
  <1>7. UNCHANGED <<store, Fresh>>
    BY FreshStays DEF GetValue, Get, engineVars
  <1> HIDE DEF p, q, done
  <1>8. Shown' = [Shown EXCEPT ![s] = Promise!Answer(q.op, k, p.value, done, p.keys)]
    BY <1>1, <1>2, <1>3, <1>4, <1>5, TellsTheClient
  <1>9. Shown' = [Shown EXCEPT ![s] = Promise!Answer("get", k, p.value, done, {})]
    BY <1>2, <1>3, <1>8
  <1>10. CASE p.value = v /\ (there => p.code = 200)
    <2>1. done = there
      BY <1>2, <1>5, <1>10
    <2>2. Shown' = [Shown EXCEPT ![s] = Promise!Answer("get", k, v, there, {})]
      BY <1>9, <1>10, <2>1
    <2> QED
      BY <1>7, <2>2 DEF Promise!Look, Promise!Tell, Shown, Fresh
  <1>11. CASE v \in Hollow /\ p.value = Absent
    <2>1. Shown' = [Shown EXCEPT ![s] = Promise!Answer("get", k, Absent, done, {})]
      BY <1>9, <1>11
    <2> QED
      BY <1>5, <1>7, <1>11, <2>1 DEF Promise!Look, Promise!Tell, Shown, Fresh
  <1> QED
    BY <1>3, <1>10, <1>11

LEMMA ExistsImplements ==
    ASSUME RoutesInv, NEW s \in Server, NEW k \in Key, KeyExists(s, k)
    PROVE  Promise!LookFor(s, k)
PROOF
  <1>1. DOMAIN reply = Server /\ DOMAIN response = Server
    BY DEF RoutesInv, NodeInv, MapTypes
  <1> DEFINE done == store[s][k] # Absent
             q == Reply("exists", k, Absent, done)
             p == Response(200, Absent, {})
  <1>2. q.op = "exists" /\ q.key = k /\ q.done = done
    BY DEF Reply
  <1>3. p.code = 200 /\ p.value = Absent /\ p.keys = {}
    BY DEF Response
  <1>4. Answers(s, q, p)
    BY DEF Answers, KeyExists, Has, Respond
  <1>5. done \in BOOLEAN /\ (done <=> q.done /\ p.code = 200)
    BY <1>2, <1>3
  <1> HIDE DEF q, p, done
  <1>6. Shown' = [Shown EXCEPT ![s] = Promise!Answer(q.op, k, p.value, done, p.keys)]
    BY <1>1, <1>2, <1>3, <1>4, <1>5, TellsTheClient
  <1>7. Shown' = [Shown EXCEPT ![s] = Promise!Answer("exists", k, Absent, done, {})]
    BY <1>2, <1>3, <1>6
  <1>8. UNCHANGED <<store, Fresh>>
    BY FreshStays DEF KeyExists, Has, engineVars
  <1> QED
    BY <1>7, <1>8 DEF done, Promise!LookFor, Promise!Tell, Shown, Fresh

LEMMA ListImplements ==
    ASSUME RoutesInv, NEW s \in Server, ListKeys(s)
    PROVE  Promise!List(s)
PROOF
  <1>1. DOMAIN reply = Server /\ DOMAIN response = Server
    BY DEF RoutesInv, NodeInv, MapTypes
  <1> DEFINE q == Reply("keys", Nil, Absent, TRUE)
             p == Response(200, Absent, Keys(s))
             done == TRUE
  <1>2. q.op = "keys" /\ q.key = Nil /\ q.done = TRUE
    BY DEF Reply
  <1>3. p.code = 200 /\ p.value = Absent /\ p.keys = Keys(s)
    BY DEF Response
  <1>4. Answers(s, q, p)
    BY DEF Answers, ListKeys, GetAllKeys
  <1>5. done \in BOOLEAN /\ (done <=> q.done /\ p.code = 200)
    BY <1>2, <1>3
  <1> HIDE DEF q, p, done
  <1>6. Shown' = [Shown EXCEPT ![s] = Promise!Answer(q.op, Nil, p.value, done, p.keys)]
    BY <1>1, <1>2, <1>3, <1>4, <1>5, TellsTheClient
  <1>7. Shown' = [Shown EXCEPT ![s] = Promise!Answer("keys", Nil, Absent, done, Keys(s))]
    BY <1>2, <1>3, <1>6
  <1>8. UNCHANGED <<store, Fresh>>
    BY FreshStays DEF ListKeys, GetAllKeys, engineVars
  <1> QED
    BY <1>7, <1>8 DEF done, Promise!List, Promise!Tell, Keys, Shown, Fresh

LEMMA RefusalImplements ==
    ASSUME RoutesInv, NEW s \in Server, NotLeader(s)
    PROVE  Promise!Refuse(s)
PROOF
  <1>1. DOMAIN reply = Server /\ DOMAIN response = Server
    BY DEF RoutesInv, NodeInv, MapTypes
  <1> DEFINE q == Reply("refused", leaderId[s], Absent, FALSE)
             p == Response(503, Absent, {})
             done == FALSE
  <1>2. q.op = "refused" /\ q.key = leaderId[s] /\ q.done = FALSE
    BY DEF Reply
  <1>3. p.code = 503 /\ p.value = Absent /\ p.keys = {}
    BY DEF Response
  <1>4. Answers(s, q, p)
    BY DEF Answers, NotLeader, Refuse, Respond
  <1>5. done \in BOOLEAN /\ (done <=> q.done /\ p.code = 200)
    BY <1>2, <1>3
  <1> DEFINE none == Nil
  <1>6. none = IF q.op = "refused" THEN Nil ELSE q.key
    BY <1>2
  <1> HIDE DEF q, p, done, none
  <1>7. p.code # 400
    BY <1>3
  <1>8. Shown' = [Shown EXCEPT ![s] = Promise!Answer(q.op, none, p.value, done, p.keys)]
    BY <1>1, <1>4, <1>5, <1>6, <1>7, TellsTheClient
  <1>9. Shown' = [Shown EXCEPT ![s] = Promise!Answer(q.op, Nil, p.value, done, p.keys)]
    BY <1>8 DEF none
  <1>10. Shown' = [Shown EXCEPT ![s] = Promise!Answer("refused", Nil, Absent, done, {})]
    BY <1>2, <1>3, <1>9
  <1>11. UNCHANGED <<store, Fresh>>
    BY FreshStays DEF NotLeader, Refuse, engineVars
  <1>12. Fresh[s]
    BY DEF NotLeader, Refuse, RoutesInv, RefusalsAreEarlyAndBlind, Fresh
  <1> QED
    BY <1>10, <1>11, <1>12 DEF done, Promise!Refuse, Promise!Tell, Shown, Fresh

LEMMA InvalidImplements ==
    ASSUME RoutesInv, NEW s \in Server, Invalid(s)
    PROVE  Promise!Reject(s)
PROOF
  <1>1. DOMAIN reply = Server /\ DOMAIN response = Server
    BY DEF RoutesInv, NodeInv, MapTypes
  <1>2. UNCHANGED <<store, reply, log>>
    BY DEF Invalid, vars, engineVars
  <1> DEFINE q == reply[s]
             p == Response(400, Absent, {})
  <1>3. p.code = 400
    BY DEF Response
  <1>4. /\ \A t \in Server \ {s} : reply'[t] = reply[t] /\ response'[t] = response[t]
        /\ reply'[s] = q /\ response'[s] = p
    BY <1>1, <1>2 DEF Invalid, Respond
  <1> HIDE DEF q, p
  <1>5. Shown' = [Shown EXCEPT ![s] = AnswerOf(q, p)]
    BY <1>1, <1>4, ShownAfter
  <1>6. AnswerOf(q, p) = Promise!Answer("rejected", Nil, Absent, FALSE, {})
    BY <1>3 DEF AnswerOf, Promise!Answer
  <1>7. Shown' = [Shown EXCEPT ![s] = Promise!Answer("rejected", Nil, Absent, FALSE, {})]
    BY <1>5, <1>6
  <1>8. UNCHANGED Fresh
    BY <1>2, FreshStays
  <1> QED
    BY <1>2, <1>7, <1>8 DEF Promise!Reject, Promise!Tell, Shown, Fresh

\* Timers, start and stop are no business of a client.
LEMMA QuietImplements ==
    ASSUME UNCHANGED <<store, reply, response, log>>
    PROVE  UNCHANGED Promise!vars
PROOF
  <1>1. UNCHANGED Fresh
    BY FreshStays
  <1>2. UNCHANGED Shown
    BY DEF Shown, ClientAnswer
  <1> QED
    BY <1>1, <1>2 DEF Promise!vars, Shown, Fresh

LEMMA InitImplements == InitRoutes => Promise!Init
PROOF
  <1> SUFFICES ASSUME InitRoutes PROVE Promise!Init
    OBVIOUS
  <1>1. store \in [Server -> Promise!Maps]
    BY DEF InitRoutes, Init, Maps, Promise!Maps
  <1>2. Fresh = [s \in Server |-> TRUE]
    BY DEF InitRoutes, Init, Engine!Init, Fresh
  <1>3. ASSUME NEW s \in Server PROVE ClientAnswer(s) = Promise!Answer("none", Nil, Absent, FALSE, {})
    <2> DEFINE q == NoReply
               p == Response(0, Absent, {})
               done == FALSE
    <2>1. q.op = "none" /\ q.key = Nil /\ q.done = FALSE
      BY DEF NoReply, Reply
    <2>2. p.code = 0 /\ p.value = Absent /\ p.keys = {}
      BY DEF Response
    <2>3. done \in BOOLEAN /\ (done <=> q.done /\ p.code = 200)
      BY <2>1
    <2>4. reply[s] = q /\ response[s] = p
      BY DEF InitRoutes, Init
    <2> HIDE DEF q, p, done
    <2>5. ClientAnswer(s) = AnswerOf(q, p)
      BY <2>4 DEF ClientAnswer, AnswerOf
    <2>6. ClientAnswer(s) = Promise!Answer(q.op, Nil, p.value, done, p.keys)
      BY <2>1, <2>2, <2>3, <2>5, AnswerFields
    <2>7. ClientAnswer(s) = Promise!Answer("none", Nil, Absent, done, {})
      BY <2>1, <2>2, <2>6
    <2> QED
      BY <2>7 DEF done
  <1> QED
    BY <1>1, <1>2, <1>3 DEF Promise!Init, Fresh

LEMMA StepImplements == RoutesInv /\ [RoutesNext]_routeVars => [Promise!Next]_Promise!vars
PROOF
  <1> SUFFICES ASSUME RoutesInv, [RoutesNext]_routeVars
               PROVE  Promise!Next \/ UNCHANGED Promise!vars
    OBVIOUS
  <1>1. CASE UNCHANGED routeVars
    BY <1>1, QuietImplements DEF routeVars, vars, engineVars
  <1>2. ASSUME NEW s \in Server, NodeStep(s), UNCHANGED response PROVE UNCHANGED Promise!vars
    <2>1. UNCHANGED <<store, reply>>
      BY <1>2 DEF NodeStep
    <2>2. UNCHANGED log
      BY <1>2 DEF NodeStep, Engine!Start, Engine!Stop, Engine!TimerStep, Engine!StartElection,
             Engine!IgnoreElectionTimeout, Engine!BecomeLeader, Engine!DropVoteTimer, Engine!logVars
    <2> QED
      BY <1>2, <2>1, <2>2, QuietImplements
  <1>3. ASSUME NEW s \in Server, NEW k \in Key, KeyRequest(s, k) PROVE Promise!Next
    <2>1. ASSUME NEW r \in Route, NEW v \in Value, SetKeyValue(r, s, k, v) PROVE Promise!Next
      BY <2>1, SetImplements, StoredIsAValue DEF Promise!Next
    <2>2. ASSUME NEW r \in Route, DeleteKey(r, s, k) PROVE Promise!Next
      BY <2>2, DeleteImplements DEF Promise!Next
    <2>3. ASSUME NEW r \in Route, GetValue(r, s, k) PROVE Promise!Next
      BY <2>3, GetImplements DEF Promise!Next
    <2>4. CASE KeyExists(s, k)
      BY <2>4, ExistsImplements DEF Promise!Next
    <2> QED
      BY <1>3, <2>1, <2>2, <2>3, <2>4 DEF KeyRequest
  <1>4. ASSUME NEW s \in Server, ClearAll(s) PROVE Promise!Next
    BY <1>4, ClearImplements DEF Promise!Next
  <1>5. ASSUME NEW s \in Server, ListKeys(s) PROVE Promise!Next
    BY <1>5, ListImplements DEF Promise!Next
  <1>6. ASSUME NEW s \in Server, NotLeader(s) PROVE Promise!Next
    BY <1>6, RefusalImplements DEF Promise!Next
  <1>7. ASSUME NEW s \in Server, Invalid(s) PROVE Promise!Next
    BY <1>7, InvalidImplements DEF Promise!Next
  <1> QED
    BY <1>1, <1>2, <1>3, <1>4, <1>5, <1>6, <1>7 DEF RoutesNext

\* KeyValueRoutes!ImplementsKeyValueStore: what a client sees of a node is the
\* map of KeyValueStore, with its four weaknesses and no others.
THEOREM RoutesImplementTheStore == RoutesSpec => ImplementsKeyValueStore
PROOF
  BY RoutesInvInit, RoutesInvNext, InitImplements, StepImplements, PTL
  DEF RoutesSpec, ImplementsKeyValueStore, Promise!Spec
=============================================================================
