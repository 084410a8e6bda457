-------------------------- MODULE RaftEngineProofs --------------------------
(* What RaftEngine keeps right, proved for every set of servers, peers,     *)
(* commands and well-formed requests.                                       *)
EXTENDS RaftEngine, SequenceTheorems, TLAPS

-----------------------------------------------------------------------------
(* Facts about the operators the log is built with.                        *)

\* A slice of a sequence of entries is one, and as long as its bounds say.
LEMMA SliceOfLog ==
    ASSUME NEW l \in Seq(Entry), NEW m \in 1..(Len(l) + 1), NEW n \in (m - 1)..Len(l)
    PROVE  /\ SubSeq(l, m, n) \in Seq(Entry)
           /\ Len(SubSeq(l, m, n)) = n - m + 1
           /\ \A i \in 1..(n - m + 1) : SubSeq(l, m, n)[i] = l[m + i - 1]
PROOF
  BY SMT

\* Slices out of range are empty: nothing is applied twice.
LEMMA AnySliceOfLog ==
    ASSUME NEW l \in Seq(Entry), NEW m \in Nat \ {0}, NEW n \in Int, n <= Len(l)
    PROVE  /\ SubSeq(l, m, n) \in Seq(Entry)
           /\ Len(SubSeq(l, m, n)) = IF m <= n THEN n - m + 1 ELSE 0
           /\ \A i \in 1..Len(SubSeq(l, m, n)) : SubSeq(l, m, n)[i] = l[m + i - 1]
PROOF
  BY SMT

\* What a consistent request leaves in the log.
LEMMA LogAfterType ==
    ASSUME TypeOK, NEW s \in Server, NEW r \in AppendRequests, Consistent(s, r)
    PROVE  LogAfter(s, r) \in Seq(Entry)
PROOF
  <1>1. r \in AppendRequest
    BY RequestAssumption
  <1>2. log[s] \in Seq(Entry) /\ r.entries \in Seq(Entry)
    BY <1>1 DEF TypeOK, AppendRequest
  <1>3. CASE r.entries = <<>>
    BY <1>2, <1>3 DEF LogAfter
  <1>4. CASE r.entries # <<>>
    <2>1. r.prevLogIndex + 1 \in 0..Len(log[s])
      BY <1>1, <1>2 DEF AppendRequest, Consistent
    <2>2. SubSeq(log[s], 1, r.prevLogIndex + 1) \in Seq(Entry)
      BY <1>2, <2>1, SliceOfLog
    <2> QED
      BY <1>2, <1>4, <2>2 DEF LogAfter
  <1> QED
    BY <1>3, <1>4

\* What applying leaves, when the commit index lies in the log it is given.
LEMMA ApplyType ==
    ASSUME TypeOK, NEW s \in Server, NEW l \in Seq(Entry), NEW c \in Nat \cup {-1},
           c < Len(l), ApplyCommittedEntries(s, l, c)
    PROVE  /\ commitIndex' \in [Server -> Nat \cup {-1}]
           /\ lastApplied' \in [Server -> Nat]
           /\ applied' \in [Server -> Seq(Entry)]
PROOF
  <1>1. Smaller(c + 1, Len(l)) \in Int /\ Smaller(c + 1, Len(l)) <= Len(l)
    BY DEF Smaller
  <1>2. lastApplied[s] + 2 \in Nat \ {0}
    BY DEF TypeOK
  <1>3. SubSeq(l, lastApplied[s] + 2, Smaller(c + 1, Len(l))) \in Seq(Entry)
    BY <1>1, <1>2, AnySliceOfLog
  <1>4. applied[s] \o SubSeq(l, lastApplied[s] + 2, Smaller(c + 1, Len(l))) \in Seq(Entry)
    BY <1>3 DEF TypeOK
  <1> QED
    BY <1>4 DEF TypeOK, ApplyCommittedEntries, Larger

-----------------------------------------------------------------------------
(* Type correctness.                                                       *)

LEMMA TypeInit == Init => TypeOK
PROOF
  BY IdAssumption DEF Init, TypeOK

LEMMA TypeLocal ==
    ASSUME TypeOK, NEW s \in Server, LocalStep(s)
    PROVE  TypeOK'
PROOF
  <1>1. CASE Start(s)
    BY <1>1 DEF TypeOK, Start, termVars, roleVars, logVars
  <1>2. CASE Stop(s)
    BY <1>2 DEF TypeOK, Stop, termVars, roleVars, logVars
  <1>3. CASE StartElection(s)
    BY <1>3 DEF TypeOK, StartElection, logVars
  <1>4. CASE IgnoreElectionTimeout(s)
    BY <1>4 DEF TypeOK, IgnoreElectionTimeout, termVars, roleVars, logVars
  <1>5. CASE BecomeLeader(s)
    BY <1>5 DEF TypeOK, BecomeLeader, termVars, logVars
  <1>6. CASE DropVoteTimer(s)
    BY <1>6 DEF TypeOK, DropVoteTimer, termVars, roleVars, logVars
  <1>7. CASE \E c \in Command : AppendCommand(s, c)
    <2> DEFINE entry(c) == [term |-> currentTerm[s], index |-> Len(log[s]), command |-> c]
    <2>1. PICK c \in Command : AppendCommand(s, c)
      BY <1>7
    <2>2. log[s] \in Seq(Entry) /\ entry(c) \in Entry
      <3>1. log[s] \in Seq(Entry) /\ currentTerm[s] \in Nat
        BY DEF TypeOK
      <3>2. Len(log[s]) \in Nat
        BY <3>1
      <3> QED
        BY <3>1, <3>2 DEF Entry
    <2>3. Append(log[s], entry(c)) \in Seq(Entry) /\ Len(Append(log[s], entry(c))) = Len(log[s]) + 1
      BY <2>2
    <2>4. ApplyCommittedEntries(s, Append(log[s], entry(c)), Len(log[s]))
      BY <2>1 DEF AppendCommand
    <2>5. Len(log[s]) \in Nat \cup {-1} /\ Len(log[s]) < Len(Append(log[s], entry(c)))
      BY <2>2, <2>3
    <2> HIDE DEF entry
    <2>6. /\ commitIndex' \in [Server -> Nat \cup {-1}]
          /\ lastApplied' \in [Server -> Nat]
          /\ applied' \in [Server -> Seq(Entry)]
      BY <2>3, <2>4, <2>5, ApplyType
    <2>7. log' = [log EXCEPT ![s] = Append(log[s], entry(c))]
      BY <2>1 DEF AppendCommand, entry
    <2>8. log' \in [Server -> Seq(Entry)]
      BY <2>3, <2>7 DEF TypeOK
    <2>9. UNCHANGED <<termVars, roleVars, timerVars, phase>>
      BY <2>1 DEF AppendCommand
    <2> QED
      BY <2>6, <2>8, <2>9 DEF TypeOK, termVars, roleVars, timerVars
  <1> QED
    BY <1>1, <1>2, <1>3, <1>4, <1>5, <1>6, <1>7 DEF LocalStep, TimerStep

\* StepDown keeps the types of all it assigns.
LEMMA StepDownType ==
    ASSUME TypeOK, NEW s \in Server, NEW term \in Nat, NEW leader \in Peer \cup {Nil},
           StepDown(s, term, leader)
    PROVE  /\ currentTerm' \in [Server -> Nat]
           /\ status' \in [Server -> {"follower", "candidate", "leader"}]
           /\ leaderId' \in [Server -> Server \cup Peer \cup {Nil}]
           /\ heartbeatTimer' \in [Server -> BOOLEAN]
           /\ electionTimer' \in [Server -> BOOLEAN]
PROOF
  BY DEF TypeOK, StepDown, Larger

LEMMA TypeAppendEntries ==
    ASSUME TypeOK, NEW s \in Server, NEW r \in AppendRequests, HandleAppendEntries(s, r)
    PROVE  TypeOK'
PROOF
  <1>1. r \in AppendRequest
    BY RequestAssumption
  <1>2. r.term \in Nat /\ r.leaderId \in Peer \cup {Nil} /\ r.leaderCommit \in Nat
    BY <1>1 DEF AppendRequest
  <1>3. /\ currentTerm' \in [Server -> Nat]
        /\ status' \in [Server -> {"follower", "candidate", "leader"}]
        /\ leaderId' \in [Server -> Server \cup Peer \cup {Nil}]
        /\ heartbeatTimer' \in [Server -> BOOLEAN]
        /\ electionTimer' \in [Server -> BOOLEAN]
    BY <1>2, StepDownType DEF HandleAppendEntries
  <1>4. /\ votedFor' \in [Server -> Server \cup Peer \cup {Nil}]
        /\ voteTimers' \in [Server -> Nat]
        /\ phase' \in [Server -> {"created", "running", "stopped"}]
    BY DEF TypeOK, HandleAppendEntries, VoteAfter
  <1>5. /\ log' \in [Server -> Seq(Entry)]
        /\ commitIndex' \in [Server -> Nat \cup {-1}]
        /\ lastApplied' \in [Server -> Nat]
        /\ applied' \in [Server -> Seq(Entry)]
    <2>1. CASE RejectEntries(s, r)
      BY <2>1 DEF TypeOK, RejectEntries, logVars
    <2>2. CASE StoreEntries(s, r)
      <3> DEFINE l == LogAfter(s, r)
                 c == Smaller(r.leaderCommit, Len(l) - 1)
      <3>1. l \in Seq(Entry)
        BY <2>2, LogAfterType DEF StoreEntries
      <3>2. log' \in [Server -> Seq(Entry)]
        BY <2>2, <3>1 DEF TypeOK, StoreEntries
      <3>3. c \in Nat \cup {-1} /\ c < Len(l)
        <4> HIDE DEF l
        <4> QED
          BY <1>2, <3>1 DEF Smaller
      <3>4. ApplyCommittedEntries(s, l, c) \/ UNCHANGED <<commitIndex, lastApplied, applied>>
        BY <2>2 DEF StoreEntries
      <3> HIDE DEF l, c
      <3> QED
        BY <3>1, <3>2, <3>3, <3>4, ApplyType DEF TypeOK
    <2> QED
      BY <2>1, <2>2 DEF HandleAppendEntries
  <1> QED
    BY <1>3, <1>4, <1>5 DEF TypeOK

LEMMA TypeRequestVote ==
    ASSUME TypeOK, NEW s \in Server, NEW r \in VoteRequests, HandleRequestVote(s, r)
    PROVE  TypeOK'
PROOF
  <1>1. r \in VoteRequest
    BY RequestAssumption
  <1>2. r.term \in Nat /\ r.candidateId \in Peer
    BY <1>1 DEF VoteRequest
  <1>3. StepDown(s, r.term, Nil)
    BY DEF HandleRequestVote
  <1>4. votedFor' \in [Server -> Server \cup Peer \cup {Nil}]
    BY <1>2 DEF TypeOK, HandleRequestVote, VoteAfter
  <1>5. UNCHANGED <<logVars, voteTimers, phase>>
    BY DEF HandleRequestVote
  <1> QED
    BY <1>2, <1>3, <1>4, <1>5, StepDownType DEF TypeOK, logVars

LEMMA TypeNext == TypeOK /\ [Next]_vars => TypeOK'
PROOF
  <1> SUFFICES ASSUME TypeOK, [Next]_vars
               PROVE  TypeOK'
    OBVIOUS
  <1>1. CASE UNCHANGED vars
    BY <1>1 DEF TypeOK, vars, termVars, roleVars, logVars, timerVars
  <1>2. ASSUME NEW s \in Server, LocalStep(s)
        PROVE  TypeOK'
    BY <1>2, TypeLocal
  <1>3. ASSUME NEW s \in Server, RpcStep(s)
        PROVE  TypeOK'
    BY <1>3, TypeAppendEntries, TypeRequestVote DEF RpcStep
  <1> QED
    BY <1>1, <1>2, <1>3 DEF Next

\* Every reachable state of the engine is well typed, whatever arrives.
THEOREM TypeCorrect == Spec => []TypeOK
PROOF
  BY TypeInit, TypeNext, PTL DEF Spec

-----------------------------------------------------------------------------
(* Roles, votes and timers.  RoleMatchesVote and AlwaysWaitingForATimer are *)
(* inductive relative to TypeOK.                                            *)

RoleInv == TypeOK /\ AlwaysWaitingForATimer /\ RoleMatchesVote

LEMMA RoleInit == Init => RoleInv
PROOF
  <1> SUFFICES ASSUME Init PROVE RoleInv
    OBVIOUS
  <1>1. AlwaysWaitingForATimer
    BY DEF Init, AlwaysWaitingForATimer
  <1>2. RoleMatchesVote
    BY IdAssumption DEF Init, RoleMatchesVote
  <1> QED
    BY <1>1, <1>2, TypeInit DEF RoleInv

LEMMA RoleLocal ==
    ASSUME RoleInv, NEW s \in Server, LocalStep(s)
    PROVE  AlwaysWaitingForATimer' /\ RoleMatchesVote'
PROOF
  <1> USE DEF RoleInv, TypeOK, AlwaysWaitingForATimer, RoleMatchesVote
  <1>1. CASE Start(s)
    BY <1>1 DEF Start, termVars, roleVars
  <1>2. CASE Stop(s)
    BY <1>2 DEF Stop, termVars, roleVars
  <1>3. CASE StartElection(s)
    BY <1>3 DEF StartElection
  <1>4. CASE IgnoreElectionTimeout(s)
    BY <1>4 DEF IgnoreElectionTimeout, termVars, roleVars
  <1>5. CASE BecomeLeader(s)
    BY <1>5 DEF BecomeLeader, termVars
  <1>6. CASE DropVoteTimer(s)
    BY <1>6 DEF DropVoteTimer, termVars, roleVars
  <1>7. CASE \E c \in Command : AppendCommand(s, c)
    BY <1>7 DEF AppendCommand, termVars, roleVars, timerVars
  <1> QED
    BY <1>1, <1>2, <1>3, <1>4, <1>5, <1>6, <1>7 DEF LocalStep, TimerStep

\* Both handlers step down with the same five assignments; v is the vote the
\* handler leaves: the old one, none after a newer term, or a peer's.
LEMMA RoleStepDown ==
    ASSUME RoleInv, NEW s \in Server, NEW term \in Nat, NEW leader \in Peer \cup {Nil},
           NEW v, phase[s] # "created", term >= currentTerm[s], StepDown(s, term, leader),
           votedFor' = [votedFor EXCEPT ![s] = v],
           v = VoteAfter(s, term) \/ (v \in Peer /\ VoteAfter(s, term) \in {Nil, v}),
           UNCHANGED <<voteTimers, phase>>
    PROVE  AlwaysWaitingForATimer' /\ RoleMatchesVote'
PROOF
  <1> USE DEF RoleInv, TypeOK
  <1>1. s # Nil /\ s \notin Peer
    BY IdAssumption
  <1>2. AlwaysWaitingForATimer'
    BY DEF StepDown, AlwaysWaitingForATimer
  <1>3. RoleMatchesVote'
    <2>1. \A t \in Server : t # s => /\ votedFor'[t] = votedFor[t]
                                     /\ status'[t] = status[t]
                                     /\ leaderId'[t] = leaderId[t]
      BY DEF StepDown
    <2>2. CASE term > currentTerm[s]
      <3>1. votedFor'[s] # s
        BY <1>1, <2>2 DEF VoteAfter
      <3>2. status'[s] = "follower" /\ leaderId'[s] = leader
        BY <2>2 DEF StepDown
      <3> QED
        BY <1>1, <2>1, <3>1, <3>2 DEF RoleMatchesVote
    <2>3. CASE ~(term > currentTerm[s])
      <3>1. votedFor'[s] = v /\ (v = votedFor[s] \/ (v \in Peer /\ votedFor[s] \in {Nil, v}))
        BY <2>3 DEF VoteAfter
      <3>2. status'[s] = status[s]
        BY <2>3 DEF StepDown
      <3>3. \/ leaderId'[s] = leaderId[s]
            \/ leaderId'[s] = leader /\ status[s] = "follower"
        BY <2>3 DEF StepDown
      <3> QED
        BY <1>1, <2>1, <3>1, <3>2, <3>3 DEF RoleMatchesVote
    <2> QED
      BY <2>2, <2>3
  <1> QED
    BY <1>2, <1>3

LEMMA RoleRpc ==
    ASSUME RoleInv, NEW s \in Server, RpcStep(s)
    PROVE  AlwaysWaitingForATimer' /\ RoleMatchesVote'
PROOF
  <1>1. CASE \E r \in AppendRequests : HandleAppendEntries(s, r)
    <2>1. PICK r \in AppendRequests : HandleAppendEntries(s, r)
      BY <1>1
    <2>2. r.term \in Nat /\ r.leaderId \in Peer \cup {Nil}
      BY RequestAssumption DEF AppendRequest
    <2> QED
      BY <2>1, <2>2, RoleStepDown DEF HandleAppendEntries
  <1>2. CASE \E r \in VoteRequests : HandleRequestVote(s, r)
    <2>1. PICK r \in VoteRequests : HandleRequestVote(s, r)
      BY <1>2
    <2>2. r.term \in Nat /\ r.candidateId \in Peer
      BY RequestAssumption DEF VoteRequest
    <2> DEFINE v == IF CanGrant(s, r) THEN r.candidateId ELSE VoteAfter(s, r.term)
    <2>3. v = VoteAfter(s, r.term) \/ (v \in Peer /\ VoteAfter(s, r.term) \in {Nil, v})
      BY <2>2 DEF CanGrant
    <2>4. r.term >= currentTerm[s]
      BY <2>1, <2>2 DEF HandleRequestVote, CanGrant, RoleInv, TypeOK
    <2>5. /\ StepDown(s, r.term, Nil)
          /\ votedFor' = [votedFor EXCEPT ![s] = v]
          /\ UNCHANGED <<voteTimers, phase>>
          /\ phase[s] # "created"
      BY <2>1 DEF HandleRequestVote
    <2> HIDE DEF v
    <2> QED
      BY <2>2, <2>3, <2>4, <2>5, RoleStepDown
  <1> QED
    BY <1>1, <1>2 DEF RpcStep

LEMMA RoleNext == RoleInv /\ [Next]_vars => RoleInv'
PROOF
  <1> SUFFICES ASSUME RoleInv, [Next]_vars
               PROVE  RoleInv'
    OBVIOUS
  <1>1. TypeOK'
    BY TypeNext DEF RoleInv
  <1>2. CASE UNCHANGED vars
    BY <1>1, <1>2 DEF RoleInv, AlwaysWaitingForATimer, RoleMatchesVote,
                      vars, termVars, roleVars, timerVars
  <1>3. CASE \E s \in Server : LocalStep(s)
    BY <1>1, <1>3, RoleLocal DEF RoleInv
  <1>4. CASE \E s \in Server : RpcStep(s)
    BY <1>1, <1>4, RoleRpc DEF RoleInv
  <1> QED
    BY <1>2, <1>3, <1>4 DEF Next

\* Whatever order timers, requests, start and stop come in, a running engine
\* has a timer that will move it on.
THEOREM NeverStuck == Spec => []AlwaysWaitingForATimer
PROOF
  <1>1. RoleInv => AlwaysWaitingForATimer
    BY DEF RoleInv
  <1> QED
    BY <1>1, RoleInit, RoleNext, PTL DEF Spec

\* A node that leads or stands for election has voted for itself, and only a
\* leader reports itself as the leader.
THEOREM RolesAgree == Spec => []RoleMatchesVote
PROOF
  <1>1. RoleInv => RoleMatchesVote
    BY DEF RoleInv
  <1> QED
    BY <1>1, RoleInit, RoleNext, PTL DEF Spec

LEMMA OneVoteOneRoleStep ==
    ASSUME RoleInv, [Next]_vars, NEW s \in Server
    PROVE  /\ currentTerm'[s] >= currentTerm[s]
           /\ currentTerm'[s] = currentTerm[s] =>
                 /\ votedFor[s] # Nil => votedFor'[s] = votedFor[s]
                 /\ Rank(status'[s]) >= Rank(status[s])
PROOF
  <1> USE DEF RoleInv, TypeOK, Rank
  <1>1. CASE UNCHANGED <<termVars, roleVars>>
    BY <1>1 DEF termVars, roleVars
  <1>2. ASSUME NEW t \in Server, StartElection(t)
        PROVE  /\ currentTerm'[t] = currentTerm[t] + 1
               /\ t # s => UNCHANGED <<currentTerm[s], votedFor[s], status[s]>>
    BY <1>2 DEF StartElection
  <1>3. ASSUME NEW t \in Server, BecomeLeader(t)
        PROVE  /\ UNCHANGED <<currentTerm, votedFor>>
               /\ status'[s] \in {status[s], "leader"}
    BY <1>3 DEF BecomeLeader, termVars
  <1>4. ASSUME NEW t \in Server, LocalStep(t), ~StartElection(t), ~BecomeLeader(t)
        PROVE  UNCHANGED <<termVars, roleVars>>
    BY <1>4 DEF LocalStep, TimerStep, Start, Stop, IgnoreElectionTimeout, DropVoteTimer, AppendCommand
  <1>5. ASSUME NEW t \in Server, NEW term \in Nat, NEW leader, StepDown(t, term, leader),
               term >= currentTerm[t]
        PROVE  /\ currentTerm'[s] >= currentTerm[s]
               /\ currentTerm'[s] = currentTerm[s] => status'[s] = status[s]
               /\ t = s /\ currentTerm'[s] = currentTerm[s] => term = currentTerm[s]
    BY <1>5 DEF StepDown, Larger
  <1>6. ASSUME NEW t \in Server, NEW r \in AppendRequests, HandleAppendEntries(t, r)
        PROVE  /\ currentTerm'[s] >= currentTerm[s]
               /\ currentTerm'[s] = currentTerm[s] =>
                     votedFor'[s] = votedFor[s] /\ status'[s] = status[s]
    <2>1. r.term \in Nat /\ r.term >= currentTerm[t] /\ StepDown(t, r.term, r.leaderId)
      BY <1>6, RequestAssumption DEF AppendRequest, HandleAppendEntries
    <2>2. votedFor' = [votedFor EXCEPT ![t] = VoteAfter(t, r.term)]
      BY <1>6 DEF HandleAppendEntries
    <2> QED
      BY <1>5, <2>1, <2>2 DEF VoteAfter
  <1>7. ASSUME NEW t \in Server, NEW r \in VoteRequests, HandleRequestVote(t, r)
        PROVE  /\ currentTerm'[s] >= currentTerm[s]
               /\ currentTerm'[s] = currentTerm[s] =>
                     /\ votedFor[s] # Nil => votedFor'[s] = votedFor[s]
                     /\ status'[s] = status[s]
    <2>1. r.term \in Nat /\ StepDown(t, r.term, Nil)
      BY <1>7, RequestAssumption DEF VoteRequest, HandleRequestVote
    <2>2. r.term >= currentTerm[t]
      BY <1>7, <2>1 DEF HandleRequestVote, CanGrant
    <2>3. votedFor' = [votedFor EXCEPT ![t] =
              IF CanGrant(t, r) THEN r.candidateId ELSE VoteAfter(t, r.term)]
      BY <1>7 DEF HandleRequestVote
    <2> QED
      BY <1>5, <2>1, <2>2, <2>3 DEF VoteAfter, CanGrant
  <1>8. CASE \E t \in Server : LocalStep(t)
    <2>1. PICK t \in Server : LocalStep(t)
      BY <1>8
    <2>2. CASE StartElection(t)
      <3>1. CASE t = s
        BY <1>2, <2>2, <3>1
      <3>2. CASE t # s
        BY <1>2, <2>2, <3>2
      <3> QED
        BY <3>1, <3>2
    <2>3. CASE BecomeLeader(t)
      BY <1>3, <2>3
    <2> QED
      BY <1>1, <1>4, <2>1, <2>2, <2>3
  <1>9. CASE \E t \in Server : RpcStep(t)
    BY <1>6, <1>7, <1>9 DEF RpcStep
  <1>10. CASE UNCHANGED vars
    BY <1>1, <1>10 DEF vars
  <1> QED
    BY <1>8, <1>9, <1>10 DEF Next

\* Terms only grow; within a term a node votes once and its role only rises.
THEOREM VoteSafety == Spec => OneVoteOneRolePerTerm
PROOF
  <1>1. RoleInv /\ [Next]_vars =>
            [\A s \in Server :
                /\ currentTerm'[s] >= currentTerm[s]
                /\ currentTerm'[s] = currentTerm[s] =>
                      /\ votedFor[s] # Nil => votedFor'[s] = votedFor[s]
                      /\ Rank(status'[s]) >= Rank(status[s])]_vars
    BY OneVoteOneRoleStep
  <1> QED
    BY <1>1, RoleInit, RoleNext, PTL DEF Spec, OneVoteOneRolePerTerm

-----------------------------------------------------------------------------
(* The log and what is applied from it.                                    *)

LogInv == TypeOK /\ LogOrdered /\ AppliedInOrder

\* One server's log, as LogOrdered asks of it, at a given term.
Ordered(l, term) ==
    \A i \in 1..Len(l) :
        /\ l[i].index = i - 1
        /\ l[i].term <= term
        /\ \A j \in 1..i : l[j].term <= l[i].term

\* Appending keeps a log ordered, if the entry is numbered and not older.
LEMMA AppendOrdered ==
    ASSUME NEW l \in Seq(Entry), NEW term \in Nat, Ordered(l, term),
           NEW e \in Entry, e.index = Len(l), e.term = term
    PROVE  Ordered(Append(l, e), term)
PROOF
  <1> DEFINE m == Append(l, e)
  <1>1. Len(m) = Len(l) + 1 /\ Len(l) \in Nat
    OBVIOUS
  <1>2. \A i \in 1..Len(l) : m[i] = l[i]
    OBVIOUS
  <1>3. m[Len(l) + 1] = e
    OBVIOUS
  <1> HIDE DEF m
  <1>4. \A i \in 1..Len(m) : i \in 1..Len(l) \/ i = Len(l) + 1
    BY <1>1
  <1>5. ASSUME NEW i \in 1..Len(m)
        PROVE  /\ m[i].index = i - 1
               /\ m[i].term <= term
    <2>1. CASE i \in 1..Len(l)
      BY <1>2, <2>1 DEF Ordered
    <2>2. CASE i = Len(l) + 1
      <3>1. m[i] = e
        BY <1>3, <2>2
      <3>2. e.index = i - 1 /\ e.term <= term
        BY <1>1, <2>2
      <3> QED
        BY <3>1, <3>2
    <2> QED
      BY <1>4, <2>1, <2>2
  <1>6. ASSUME NEW i \in 1..Len(m), NEW j \in 1..i
        PROVE  m[j].term <= m[i].term
    <2>1. CASE i = Len(l) + 1
      BY <1>1, <1>3, <1>5, <2>1
    <2>2. CASE i \in 1..Len(l)
      <3>1. j \in 1..Len(l) /\ m[j] = l[j] /\ m[i] = l[i]
        BY <1>1, <1>2, <2>2
      <3>2. l[j].term <= l[i].term
        BY <2>2 DEF Ordered
      <3> QED
        BY <3>1, <3>2
    <2> QED
      BY <1>4, <2>1, <2>2
  <1> QED
    BY <1>5, <1>6 DEF Ordered, m

\* The elements of a concatenation.
LEMMA ConcatElements ==
    ASSUME NEW a \in Seq(Entry), NEW b \in Seq(Entry)
    PROVE  /\ a \o b \in Seq(Entry)
           /\ Len(a) \in Nat /\ Len(b) \in Nat
           /\ Len(a \o b) = Len(a) + Len(b)
           /\ \A i \in 1..Len(a) : (a \o b)[i] = a[i]
           /\ \A i \in 1..Len(b) : (a \o b)[Len(a) + i] = b[i]
PROOF
  <1>1. Len(a) \in Nat /\ Len(b) \in Nat
    OBVIOUS
  <1>2. /\ a \o b \in Seq(Entry)
        /\ Len(a \o b) = Len(a) + Len(b)
        /\ \A i \in 1..(Len(a) + Len(b)) :
              (a \o b)[i] = IF i <= Len(a) THEN a[i] ELSE b[i - Len(a)]
    BY ConcatProperties
  <1>3. ASSUME NEW i \in 1..Len(b)
        PROVE  (a \o b)[Len(a) + i] = b[i]
    <2>1. Len(a) + i \in 1..(Len(a) + Len(b)) /\ ~(Len(a) + i <= Len(a)) /\ Len(a) + i - Len(a) = i
      BY <1>1
    <2> QED
      BY <1>2, <2>1
  <1>4. ASSUME NEW i \in 1..Len(a)
        PROVE  (a \o b)[i] = a[i]
    <2>1. i \in 1..(Len(a) + Len(b)) /\ i <= Len(a)
      BY <1>1
    <2> QED
      BY <1>2, <2>1
  <1> QED
    BY <1>1, <1>2, <1>3, <1>4

\* Two ordered logs that fit end to end make an ordered log.
LEMMA ConcatOrdered ==
    ASSUME NEW a \in Seq(Entry), NEW b \in Seq(Entry), NEW term \in Nat, Ordered(a, term),
           \A i \in 1..Len(b) :
               /\ b[i].index = Len(a) + i - 1
               /\ b[i].term <= term
               /\ Len(a) > 0 => a[Len(a)].term <= b[i].term
               /\ \A j \in 1..i : b[j].term <= b[i].term
    PROVE  Ordered(a \o b, term)
PROOF
  <1> DEFINE l == a \o b
             n == Len(a)
  <1>1. /\ n \in Nat /\ Len(b) \in Nat /\ Len(l) = n + Len(b)
        /\ \A i \in 1..n : l[i] = a[i]
        /\ \A i \in 1..Len(b) : l[n + i] = b[i]
    BY ConcatElements
  <1>2. \A i \in 1..n : a[i] \in Entry
    OBVIOUS
  <1>3. \A i \in 1..Len(b) : b[i] \in Entry
    OBVIOUS
  <1> HIDE DEF l, n
  <1>4. ASSUME NEW i \in 1..Len(l), ~(i \in 1..n)
        PROVE  i - n \in 1..Len(b) /\ n + (i - n) = i
    BY <1>1, <1>4
  <1>5. ASSUME NEW i \in 1..n
        PROVE  l[i].index = i - 1 /\ l[i].term <= term /\ \A j \in 1..i : l[j].term <= l[i].term
    <2>1. \A j \in 1..i : j \in 1..n
      BY <1>1
    <2> QED
      BY <1>1, <2>1 DEF Ordered, n
  <1>6. ASSUME NEW i \in 1..Len(b)
        PROVE  /\ l[n + i].index = n + i - 1 /\ l[n + i].term <= term
               /\ n > 0 => l[n].term <= l[n + i].term
               /\ \A j \in 1..i : l[n + j].term <= l[n + i].term
    <2>1. \A j \in 1..i : j \in 1..Len(b)
      BY <1>1
    <2>2. n > 0 => n \in 1..n
      BY <1>1
    <2>3. /\ b[i].index = n + i - 1
          /\ b[i].term <= term
          /\ n > 0 => a[n].term <= b[i].term
          /\ \A j \in 1..i : b[j].term <= b[i].term
      BY DEF n
    <2> QED
      BY <1>1, <2>1, <2>2, <2>3
  <1>7. ASSUME NEW i \in 1..Len(l)
        PROVE  l[i].index = i - 1 /\ l[i].term <= term
    <2>1. CASE i \in 1..n
      BY <1>5, <2>1
    <2>2. CASE ~(i \in 1..n)
      <3>1. i - n \in 1..Len(b) /\ n + (i - n) = i
        BY <1>4, <2>2
      <3>2. l[n + (i - n)].index = n + (i - n) - 1 /\ l[n + (i - n)].term <= term
        BY <1>6, <3>1
      <3> QED
        BY <1>1, <3>1, <3>2
    <2> QED
      BY <2>1, <2>2
  <1>8. ASSUME NEW i \in 1..Len(l), NEW j \in 1..i
        PROVE  l[j].term <= l[i].term
    <2>1. CASE i \in 1..n
      BY <1>5, <2>1
    <2>2. CASE ~(i \in 1..n) /\ ~(j \in 1..n)
      <3>1. j \in 1..Len(l)
        BY <1>1
      <3>2. i - n \in 1..Len(b) /\ n + (i - n) = i /\ j - n \in 1..Len(b) /\ n + (j - n) = j
        BY <1>4, <2>2, <3>1
      <3>3. j - n \in 1..(i - n)
        BY <1>1, <3>2
      <3> QED
        BY <1>6, <3>2, <3>3
    <2>3. CASE ~(i \in 1..n) /\ j \in 1..n
      <3>1. i - n \in 1..Len(b) /\ n + (i - n) = i
        BY <1>4, <2>3
      <3>2. n > 0 /\ n \in 1..n /\ j \in 1..n
        BY <1>1, <2>3
      <3>3. l[j].term <= l[n].term
        BY <1>5, <3>2
      <3>4. l[n].term <= l[i].term
        BY <1>6, <3>1, <3>2
      <3>5. l[j].term \in Nat /\ l[n].term \in Nat /\ l[i].term \in Nat
        BY <1>1, <1>2, <1>3, <3>1, <3>2 DEF Entry
      <3> QED
        BY <3>3, <3>4, <3>5
    <2> QED
      BY <2>1, <2>2, <2>3
  <1> QED
    BY <1>7, <1>8 DEF Ordered, l

\* A front slice of an ordered log is ordered, at any later term.
LEMMA SliceOrdered ==
    ASSUME NEW l \in Seq(Entry), NEW t \in Nat, NEW u \in Nat, Ordered(l, t), t <= u,
           NEW n \in 0..Len(l)
    PROVE  /\ SubSeq(l, 1, n) \in Seq(Entry)
           /\ Len(SubSeq(l, 1, n)) = n
           /\ n > 0 => SubSeq(l, 1, n)[n] = l[n]
           /\ Ordered(SubSeq(l, 1, n), u)
PROOF
  <1> DEFINE m == SubSeq(l, 1, n)
  <1>1. m \in Seq(Entry) /\ Len(m) = n /\ \A i \in 1..n : m[i] = l[i]
    BY SMT
  <1>2. \A i \in 1..n : i \in 1..Len(l) /\ l[i] \in Entry
    OBVIOUS
  <1> HIDE DEF m
  <1>3. ASSUME NEW i \in 1..n
        PROVE  /\ m[i].index = i - 1
               /\ m[i].term <= u
               /\ \A j \in 1..i : m[j].term <= m[i].term
    <2>1. l[i].term \in Nat /\ l[i].term <= t
      BY <1>2 DEF Ordered, Entry
    <2>2. \A j \in 1..i : j \in 1..n
      OBVIOUS
    <2>3. l[i].index = i - 1 /\ \A j \in 1..i : l[j].term <= l[i].term
      BY <1>2 DEF Ordered
    <2>4. m[i] = l[i] /\ \A j \in 1..i : m[j] = l[j]
      BY <1>1, <2>2
    <2>5. l[i].term <= u
      BY <2>1
    <2> QED
      BY <2>3, <2>4, <2>5
  <1> QED
    BY <1>1, <1>3 DEF Ordered, m

\* So replacing the suffix of a log by a well-formed request's entries keeps
\* it ordered.
LEMMA LogAfterOrdered ==
    ASSUME TypeOK, NEW s \in Server, NEW r \in AppendRequests, Consistent(s, r),
           Ordered(log[s], currentTerm[s]), r.term >= currentTerm[s]
    PROVE  Ordered(LogAfter(s, r), r.term)
PROOF
  <1>1. r \in AppendRequest /\ WellFormed(r)
    BY RequestAssumption
  <1>2. /\ log[s] \in Seq(Entry) /\ r.entries \in Seq(Entry)
        /\ r.term \in Nat /\ r.prevLogIndex \in Nat \cup {-1}
        /\ currentTerm[s] \in Nat /\ Len(log[s]) \in Nat
    BY <1>1 DEF TypeOK, AppendRequest
  <1>3. CASE r.entries = <<>>
    <2>1. \A i \in 1..Len(log[s]) : log[s][i] \in Entry
      BY <1>2
    <2>2. \A i \in 1..Len(log[s]) : log[s][i].term <= r.term
      BY <1>2, <2>1 DEF Ordered, Entry
    <2> QED
      BY <1>3, <2>2 DEF LogAfter, Ordered
  <1>4. CASE r.entries # <<>>
    <2> DEFINE n == r.prevLogIndex + 1
               front == SubSeq(log[s], 1, n)
    <2>1. n \in 0..Len(log[s]) /\ (n > 0 => log[s][n].term = r.prevLogTerm)
      BY <1>2 DEF Consistent
    <2>2. /\ front \in Seq(Entry) /\ Len(front) = n
          /\ n > 0 => front[n] = log[s][n]
          /\ Ordered(front, r.term)
      <3> HIDE DEF n
      <3> QED
        BY <1>2, <2>1, SliceOrdered
    <2>3. n > 0 => r.prevLogIndex >= 0
      BY <1>2
    <2>4. \A i \in 1..Len(r.entries) : n + i - 1 = r.prevLogIndex + i
      BY <1>2
    <2> HIDE DEF n
    <2>5. \A i \in 1..Len(r.entries) :
             /\ r.entries[i].index = n + i - 1
             /\ r.entries[i].term <= r.term
             /\ n > 0 => front[n].term <= r.entries[i].term
             /\ \A j \in 1..i : r.entries[j].term <= r.entries[i].term
      BY <1>1, <2>1, <2>2, <2>3, <2>4 DEF WellFormed
    <2> HIDE DEF front
    <2>6. Ordered(front \o r.entries, r.term)
      BY <1>2, <2>2, <2>5, ConcatOrdered
    <2> QED
      BY <1>4, <2>6 DEF LogAfter, front, n
  <1> QED
    BY <1>3, <1>4

\* Applying hands over exactly the entries between lastApplied and the new
\* commit index, so the entry applied i-th keeps index i.
LEMMA ApplyInOrder ==
    ASSUME TypeOK, AppliedInOrder, NEW s \in Server, NEW l \in Seq(Entry), NEW term,
           Ordered(l, term), NEW c \in Nat \cup {-1}, c < Len(l), ApplyCommittedEntries(s, l, c)
    PROVE  AppliedInOrder'
PROOF
  <1> DEFINE k == lastApplied[s]
             d == SubSeq(l, k + 2, c + 1)
             old == applied[s]
             new == old \o d
  <1>1. /\ k \in Nat /\ old \in Seq(Entry) /\ Len(old) = k /\ Len(l) \in Nat
        /\ \A i \in 1..k : old[i].index = i
    <2>1. lastApplied[s] \in Nat /\ applied[s] \in Seq(Entry)
      BY DEF TypeOK
    <2>2. /\ Len(applied[s]) = lastApplied[s]
          /\ \A i \in 1..Len(applied[s]) : applied[s][i].index = i
      BY DEF AppliedInOrder
    <2>3. Len(l) \in Nat
      OBVIOUS
    <2> QED
      BY <2>1, <2>2, <2>3
  <1>2. Smaller(c + 1, Len(l)) = c + 1
    BY <1>1 DEF Smaller
  <1>3. /\ applied' = [applied EXCEPT ![s] = new]
        /\ lastApplied' = [lastApplied EXCEPT ![s] = Larger(k, c)]
    BY <1>2 DEF ApplyCommittedEntries
  <1>4. /\ d \in Seq(Entry)
        /\ Len(d) = IF k + 2 <= c + 1 THEN c + 1 - (k + 2) + 1 ELSE 0
        /\ \A i \in 1..Len(d) : d[i] = l[k + 2 + i - 1]
    <2>1. k + 2 \in Nat \ {0} /\ c + 1 \in Int /\ c + 1 <= Len(l)
      BY <1>1
    <2> HIDE DEF k
    <2> QED
      BY <2>1, AnySliceOfLog
  <1> HIDE DEF k, d, old
  <1>5. /\ Len(new) = k + Len(d) /\ Len(d) \in Nat
        /\ \A i \in 1..k : new[i] = old[i]
        /\ \A i \in 1..Len(d) : new[k + i] = d[i]
    BY <1>1, <1>4, ConcatElements
  <1> HIDE DEF new
  <1>6. Len(new) = Larger(k, c)
    BY <1>1, <1>4, <1>5 DEF Larger
  <1>7. ASSUME NEW i \in 1..Len(d)
        PROVE  new[k + i].index = k + i
    <2> DEFINE j == k + 2 + i - 1
    <2>1. j \in 1..Len(l) /\ j - 1 = k + i
      BY <1>1, <1>4
    <2>2. new[k + i] = l[j]
      BY <1>4, <1>5
    <2> HIDE DEF j
    <2>3. l[j].index = j - 1
      BY <2>1 DEF Ordered
    <2> QED
      BY <2>1, <2>2, <2>3
  <1>8. ASSUME NEW i \in 1..Len(new)
        PROVE  new[i].index = i
    <2>1. CASE i \in 1..k
      BY <1>1, <1>5, <2>1
    <2>2. CASE ~(i \in 1..k)
      <3>1. i - k \in 1..Len(d) /\ k + (i - k) = i
        BY <1>1, <1>5, <2>2
      <3> QED
        BY <1>7, <3>1
    <2> QED
      BY <2>1, <2>2
  <1>9. /\ applied'[s] = new
        /\ lastApplied'[s] = Larger(k, c)
        /\ \A t \in Server : t # s => applied'[t] = applied[t] /\ lastApplied'[t] = lastApplied[t]
    BY <1>3 DEF TypeOK
  <1> QED
    BY <1>6, <1>8, <1>9 DEF AppliedInOrder

LEMMA LogInit == Init => LogInv
PROOF
  <1> SUFFICES ASSUME Init PROVE LogInv
    OBVIOUS
  <1>1. \A s \in Server : log[s] = <<>> /\ applied[s] = <<>> /\ lastApplied[s] = 0
    BY DEF Init
  <1> QED
    BY <1>1, TypeInit DEF LogInv, LogOrdered, AppliedInOrder

\* LogOrdered, server by server, and how it survives a change of one server's
\* log while no term goes back.
LEMMA LogOrderedUpdate ==
    ASSUME TypeOK, TypeOK', LogOrdered, NEW s \in Server,
           Ordered(log'[s], currentTerm'[s]),
           \A t \in Server : t # s => log'[t] = log[t] /\ currentTerm'[t] = currentTerm[t]
    PROVE  LogOrdered'
PROOF
  BY DEF LogOrdered, Ordered

LEMMA LogAppendCommand ==
    ASSUME LogInv, TypeOK', NEW s \in Server, NEW c \in Command, AppendCommand(s, c)
    PROVE  LogOrdered' /\ AppliedInOrder'
PROOF
  <1> DEFINE e == [term |-> currentTerm[s], index |-> Len(log[s]), command |-> c]
             l == Append(log[s], e)
  <1>1. /\ log[s] \in Seq(Entry) /\ Len(log[s]) \in Nat /\ currentTerm[s] \in Nat
        /\ Ordered(log[s], currentTerm[s])
    <2>1. log[s] \in Seq(Entry) /\ currentTerm[s] \in Nat
      BY DEF LogInv, TypeOK
    <2>2. Ordered(log[s], currentTerm[s])
      BY DEF LogInv, LogOrdered, Ordered
    <2> QED
      BY <2>1, <2>2
  <1>2. e \in Entry /\ e.index = Len(log[s]) /\ e.term = currentTerm[s]
    BY <1>1 DEF Entry
  <1>3. /\ log' = [log EXCEPT ![s] = l]
        /\ ApplyCommittedEntries(s, l, Len(log[s]))
        /\ currentTerm' = currentTerm
    BY DEF AppendCommand, termVars
  <1> HIDE DEF e
  <1>4. l \in Seq(Entry) /\ Len(l) = Len(log[s]) + 1
    BY <1>1, <1>2
  <1>5. Ordered(l, currentTerm[s])
    BY <1>1, <1>2, AppendOrdered
  <1> HIDE DEF l
  <1>6. Len(log[s]) \in Nat \cup {-1} /\ Len(log[s]) < Len(l)
    BY <1>1, <1>4
  <1>7. AppliedInOrder'
    BY <1>3, <1>4, <1>5, <1>6, ApplyInOrder DEF LogInv
  <1>8. log'[s] = l /\ \A t \in Server : t # s => log'[t] = log[t]
    BY <1>3 DEF LogInv, TypeOK
  <1> QED
    BY <1>3, <1>5, <1>7, <1>8, LogOrderedUpdate DEF LogInv

LEMMA LogAppendEntries ==
    ASSUME LogInv, TypeOK', NEW s \in Server, NEW r \in AppendRequests, HandleAppendEntries(s, r)
    PROVE  LogOrdered' /\ AppliedInOrder'
PROOF
  <1>1. r.term \in Nat /\ r.leaderCommit \in Nat
    BY RequestAssumption DEF AppendRequest
  <1>2. /\ r.term >= currentTerm[s]
        /\ currentTerm' = [currentTerm EXCEPT ![s] = Larger(currentTerm[s], r.term)]
    BY DEF HandleAppendEntries, StepDown
  <1>3. /\ currentTerm[s] \in Nat /\ currentTerm'[s] = r.term
        /\ \A t \in Server : t # s => currentTerm'[t] = currentTerm[t]
    BY <1>1, <1>2 DEF LogInv, TypeOK, Larger
  <1>4. log[s] \in Seq(Entry) /\ Ordered(log[s], currentTerm[s])
    BY DEF LogInv, TypeOK, LogOrdered, Ordered
  <1>5. CASE RejectEntries(s, r)
    <2>1. UNCHANGED <<log, lastApplied, applied>>
      BY <1>5 DEF RejectEntries, logVars
    <2>2. Ordered(log[s], r.term)
      <3>1. \A i \in 1..Len(log[s]) : log[s][i] \in Entry
        BY <1>4
      <3>2. \A i \in 1..Len(log[s]) : log[s][i].term <= r.term
        BY <1>1, <1>2, <1>3, <1>4, <3>1 DEF Ordered, Entry
      <3> QED
        BY <1>4, <3>2 DEF Ordered
    <2>3. LogOrdered'
      BY <1>3, <2>1, <2>2, LogOrderedUpdate DEF LogInv
    <2> QED
      BY <2>1, <2>3 DEF LogInv, AppliedInOrder
  <1>6. CASE StoreEntries(s, r)
    <2> DEFINE l == LogAfter(s, r)
               c == Smaller(r.leaderCommit, Len(l) - 1)
    <2>1. Consistent(s, r) /\ log' = [log EXCEPT ![s] = l]
      BY <1>6 DEF StoreEntries
    <2>2. l \in Seq(Entry) /\ Ordered(l, r.term)
      BY <1>2, <1>4, <2>1, LogAfterType, LogAfterOrdered DEF LogInv
    <2>3. ApplyCommittedEntries(s, l, c) \/ UNCHANGED <<commitIndex, lastApplied, applied>>
      BY <1>6 DEF StoreEntries
    <2> HIDE DEF l
    <2>4. c \in Nat \cup {-1} /\ c < Len(l)
      BY <1>1, <2>2 DEF Smaller
    <2> HIDE DEF c
    <2>5. AppliedInOrder'
      <3>1. CASE ApplyCommittedEntries(s, l, c)
        BY <2>2, <2>4, <3>1, ApplyInOrder DEF LogInv
      <3>2. CASE UNCHANGED <<commitIndex, lastApplied, applied>>
        BY <3>2 DEF LogInv, AppliedInOrder
      <3> QED
        BY <2>3, <3>1, <3>2
    <2>6. log'[s] = l /\ \A t \in Server : t # s => log'[t] = log[t]
      BY <2>1 DEF LogInv, TypeOK
    <2> QED
      BY <1>3, <2>2, <2>5, <2>6, LogOrderedUpdate DEF LogInv
  <1> QED
    BY <1>5, <1>6 DEF HandleAppendEntries

LEMMA LogKept ==
    ASSUME LogInv, TypeOK', UNCHANGED logVars,
           \A s \in Server : currentTerm'[s] >= currentTerm[s]
    PROVE  LogOrdered' /\ AppliedInOrder'
PROOF
  <1>1. \A s \in Server : log[s] \in Seq(Entry) /\ currentTerm[s] \in Nat /\ currentTerm'[s] \in Nat
    BY DEF LogInv, TypeOK
  <1>2. \A s \in Server : \A i \in 1..Len(log[s]) : log[s][i] \in Entry
    BY <1>1
  <1>3. \A s \in Server : \A i \in 1..Len(log[s]) : log[s][i].term <= currentTerm'[s]
    BY <1>1, <1>2 DEF LogInv, LogOrdered, Entry
  <1> QED
    BY <1>3 DEF LogInv, LogOrdered, AppliedInOrder, logVars

LEMMA LogNext == LogInv /\ [Next]_vars => LogInv'
PROOF
  <1> SUFFICES ASSUME LogInv, [Next]_vars
               PROVE  LogInv'
    OBVIOUS
  <1>1. TypeOK'
    BY TypeNext DEF LogInv
  <1>2. SUFFICES LogOrdered' /\ AppliedInOrder'
    BY <1>1 DEF LogInv
  <1>3. CASE UNCHANGED vars
    BY <1>3 DEF LogInv, LogOrdered, AppliedInOrder, vars, termVars, logVars
  <1>4. ASSUME NEW s \in Server, LocalStep(s), ~(\E c \in Command : AppendCommand(s, c))
        PROVE  UNCHANGED logVars /\ \A t \in Server : currentTerm'[t] >= currentTerm[t]
    <2>1. CASE StartElection(s)
      BY <2>1 DEF StartElection, LogInv, TypeOK
    <2>2. CASE ~StartElection(s)
      <3>1. UNCHANGED <<logVars, currentTerm>>
        BY <1>4, <2>2 DEF LocalStep, TimerStep, Start, Stop, IgnoreElectionTimeout, BecomeLeader,
                          DropVoteTimer, termVars
      <3> QED
        BY <3>1 DEF LogInv, TypeOK
    <2> QED
      BY <2>1, <2>2
  <1>5. ASSUME NEW s \in Server, NEW r \in VoteRequests, HandleRequestVote(s, r)
        PROVE  UNCHANGED logVars /\ \A t \in Server : currentTerm'[t] >= currentTerm[t]
    <2>1. r.term \in Nat
      BY RequestAssumption DEF VoteRequest
    <2> QED
      BY <1>5, <2>1 DEF HandleRequestVote, StepDown, Larger, LogInv, TypeOK
  <1>6. CASE \E s \in Server : LocalStep(s)
    BY <1>1, <1>4, <1>6, LogKept, LogAppendCommand
  <1>7. CASE \E s \in Server : RpcStep(s)
    BY <1>1, <1>5, <1>7, LogKept, LogAppendEntries DEF RpcStep
  <1> QED
    BY <1>3, <1>6, <1>7 DEF Next

\* The log of a node keeps its indices and the order of its terms under every
\* append and every replaced suffix.
THEOREM LogsStayOrdered == Spec => []LogOrdered
PROOF
  <1>1. LogInv => LogOrdered
    BY DEF LogInv
  <1> QED
    BY <1>1, LogInit, LogNext, PTL DEF Spec

\* The state machine receives the entries of index 1, 2, ... in order and none
\* twice, even when leaders replace what was already applied.
THEOREM AppliesInOrder == Spec => []AppliedInOrder
PROOF
  <1>1. LogInv => AppliedInOrder
    BY DEF LogInv
  <1> QED
    BY <1>1, LogInit, LogNext, PTL DEF Spec
=============================================================================
