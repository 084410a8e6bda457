----------------------------- MODULE RaftEngine -----------------------------
(***************************************************************************)
(* The consensus engine of a NodeNomad node, one copy per server.           *)
(*                                                                         *)
(* The engine owns a term, a vote, a log of commands and three kinds of    *)
(* timer.  It has no transport: requestVotes builds a request nobody       *)
(* receives and promotes the candidate 100 ms later, and the two RPC       *)
(* handlers are public methods that other nodes would call.  DeployedSpec  *)
(* is the engine as raft-server.ts runs it, with no RPC at all; Spec also  *)
(* delivers, in any order and any number of times, the requests of         *)
(* external, well-behaved peers (AppendRequests and VoteRequests).         *)
(*                                                                         *)
(* Log indices are the source's: the entry of index i is log[s][i + 1].    *)
(***************************************************************************)
EXTENDS Integers, Sequences

CONSTANTS
    Server,          \* the nodes whose engine is modelled
    Peer,            \* the other nodes, known only through their requests
    Command,         \* what a client asks to append
    Nil,             \* the source's null
    AppendRequests,  \* the AppendEntries requests that may arrive
    VoteRequests,    \* the RequestVote requests that may arrive
    MaxTerm,         \* bound: no election starts at this term
    MaxLog           \* bound: no command is appended to a log this long

Larger(a, b)  == IF a < b THEN b ELSE a
Smaller(a, b) == IF a < b THEN a ELSE b

Entry == [term : Nat, index : Nat, command : Command]

AppendRequest == [term : Nat, leaderId : Peer, prevLogIndex : Nat \cup {-1},
                  prevLogTerm : Nat, entries : Seq(Entry), leaderCommit : Nat]

VoteRequest == [term : Nat, candidateId : Peer,
                lastLogIndex : Nat \cup {-1}, lastLogTerm : Nat]

\* A peer numbers the entries it sends on from prevLogIndex, in the order of
\* their terms, none of them newer than its own term.
WellFormed(r) ==
    \A i \in 1..Len(r.entries) :
        /\ r.entries[i].index = r.prevLogIndex + i
        /\ r.entries[i].term <= r.term
        /\ r.prevLogIndex >= 0 => r.prevLogTerm <= r.entries[i].term
        /\ \A j \in 1..i : r.entries[j].term <= r.entries[i].term

ASSUME IdAssumption == Nil \notin Server \cup Peer /\ Server \cap Peer = {}
ASSUME RequestAssumption ==
    /\ AppendRequests \subseteq AppendRequest
    /\ \A r \in AppendRequests : WellFormed(r)
    /\ VoteRequests \subseteq VoteRequest
ASSUME BoundAssumption == MaxTerm \in Nat /\ MaxLog \in Nat

VARIABLES
    currentTerm, votedFor, log, commitIndex, lastApplied,
    status,          \* "follower", "candidate" or "leader"
    leaderId,
    electionTimer,   \* the election timeout is armed
    voteTimers,      \* pending "become leader" callbacks of requestVotes
    heartbeatTimer,  \* the heartbeat interval is armed
    phase,           \* "created", "running" after start, "stopped" after stop
    applied          \* history: the entries handed to onLogCommit, in order

termVars  == <<currentTerm, votedFor>>
roleVars  == <<status, leaderId>>
logVars   == <<log, commitIndex, lastApplied, applied>>
timerVars == <<electionTimer, voteTimers, heartbeatTimer>>
vars == <<termVars, roleVars, logVars, timerVars, phase>>

Init ==
    /\ currentTerm    = [s \in Server |-> 0]
    /\ votedFor       = [s \in Server |-> Nil]
    /\ log            = [s \in Server |-> <<>>]
    /\ commitIndex    = [s \in Server |-> 0]
    /\ lastApplied    = [s \in Server |-> 0]
    /\ status         = [s \in Server |-> "follower"]
    /\ leaderId       = [s \in Server |-> Nil]
    /\ electionTimer  = [s \in Server |-> FALSE]
    /\ voteTimers     = [s \in Server |-> 0]
    /\ heartbeatTimer = [s \in Server |-> FALSE]
    /\ phase          = [s \in Server |-> "created"]
    /\ applied        = [s \in Server |-> <<>>]

-----------------------------------------------------------------------------
(* Lifecycle and timers.  A node starts and stops its engine once.          *)

\* Mutant: start forgets to arm the election timer.
StartUnarmed(s) ==
    /\ phase[s] = "created"
    /\ phase' = [phase EXCEPT ![s] = "running"]
    /\ UNCHANGED <<termVars, roleVars, logVars, timerVars>>

Start(s) ==
    /\ phase[s] = "created"
    /\ phase' = [phase EXCEPT ![s] = "running"]
    /\ electionTimer' = [electionTimer EXCEPT ![s] = TRUE]
    /\ UNCHANGED <<termVars, roleVars, logVars, voteTimers, heartbeatTimer>>

\* Mutant: a stopped leader forgets that it leads.
StopAsFollower(s) ==
    /\ phase[s] = "running"
    /\ phase' = [phase EXCEPT ![s] = "stopped"]
    /\ status' = [status EXCEPT ![s] = "follower"]
    /\ electionTimer' = [electionTimer EXCEPT ![s] = FALSE]
    /\ heartbeatTimer' = [heartbeatTimer EXCEPT ![s] = FALSE]
    /\ UNCHANGED <<termVars, leaderId, logVars, voteTimers>>

\* Mutant: stop clears the heartbeat only.
StopKeepingElectionTimer(s) ==
    /\ phase[s] = "running"
    /\ phase' = [phase EXCEPT ![s] = "stopped"]
    /\ heartbeatTimer' = [heartbeatTimer EXCEPT ![s] = FALSE]
    /\ UNCHANGED <<termVars, roleVars, logVars, electionTimer, voteTimers>>

\* stop clears the two timers it knows; a vote callback is not one of them.
Stop(s) ==
    /\ phase[s] = "running"
    /\ phase' = [phase EXCEPT ![s] = "stopped"]
    /\ electionTimer' = [electionTimer EXCEPT ![s] = FALSE]
    /\ heartbeatTimer' = [heartbeatTimer EXCEPT ![s] = FALSE]
    /\ UNCHANGED <<termVars, roleVars, logVars, voteTimers>>

\* The election timeout fires on a follower or a candidate.
StartElection(s) ==
    /\ electionTimer[s]
    /\ status[s] # "leader"
    /\ currentTerm[s] < MaxTerm
    /\ electionTimer' = [electionTimer EXCEPT ![s] = FALSE]
    /\ currentTerm' = [currentTerm EXCEPT ![s] = @ + 1]
    /\ status' = [status EXCEPT ![s] = "candidate"]
    /\ votedFor' = [votedFor EXCEPT ![s] = s]
    /\ voteTimers' = [voteTimers EXCEPT ![s] = @ + 1]
    /\ UNCHANGED <<leaderId, logVars, heartbeatTimer, phase>>

\* The election timeout fires on a leader, which ignores it.
IgnoreElectionTimeout(s) ==
    /\ electionTimer[s]
    /\ status[s] = "leader"
    /\ electionTimer' = [electionTimer EXCEPT ![s] = FALSE]
    /\ UNCHANGED <<termVars, roleVars, logVars, voteTimers, heartbeatTimer, phase>>

\* The callback of requestVotes finds a candidate: it becomes leader.
BecomeLeader(s) ==
    /\ voteTimers[s] > 0
    /\ status[s] = "candidate"
    /\ voteTimers' = [voteTimers EXCEPT ![s] = @ - 1]
    /\ status' = [status EXCEPT ![s] = "leader"]
    /\ leaderId' = [leaderId EXCEPT ![s] = s]
    /\ heartbeatTimer' = [heartbeatTimer EXCEPT ![s] = TRUE]
    /\ UNCHANGED <<termVars, logVars, electionTimer, phase>>

\* The callback of requestVotes finds that the candidacy is over.
DropVoteTimer(s) ==
    /\ voteTimers[s] > 0
    /\ status[s] # "candidate"
    /\ voteTimers' = [voteTimers EXCEPT ![s] = @ - 1]
    /\ UNCHANGED <<termVars, roleVars, logVars, electionTimer, heartbeatTimer, phase>>

-----------------------------------------------------------------------------
(* The log.                                                                *)

\* Mutant: the loop starts at lastApplied instead of after it.
ApplyFromLastApplied(s, newLog, newCommit) ==
    /\ commitIndex' = [commitIndex EXCEPT ![s] = newCommit]
    /\ lastApplied' = [lastApplied EXCEPT ![s] = Larger(@, newCommit)]
    /\ applied' = [applied EXCEPT ![s] =
           @ \o SubSeq(newLog, lastApplied[s] + 1, Smaller(newCommit + 1, Len(newLog)))]

\* Sets the commit index and hands the entries after lastApplied, as far as
\* the log has them, to onLogCommit.
ApplyCommittedEntries(s, newLog, newCommit) ==
    /\ commitIndex' = [commitIndex EXCEPT ![s] = newCommit]
    /\ lastApplied' = [lastApplied EXCEPT ![s] = Larger(@, newCommit)]
    /\ applied' = [applied EXCEPT ![s] =
           @ \o SubSeq(newLog, lastApplied[s] + 2, Smaller(newCommit + 1, Len(newLog)))]

AppendCommand(s, c) ==
    LET entry == [term |-> currentTerm[s], index |-> Len(log[s]), command |-> c]
    IN  /\ status[s] = "leader"
        /\ Len(log[s]) < MaxLog
        /\ log' = [log EXCEPT ![s] = Append(@, entry)]
        /\ ApplyCommittedEntries(s, Append(log[s], entry), entry.index)
        /\ UNCHANGED <<termVars, roleVars, timerVars, phase>>

-----------------------------------------------------------------------------
(* The RPC handlers.  A request of an older term, and a vote that is       *)
(* refused, change nothing.                                                *)

\* Mutant: stepping down leaves the election timer as it is.
StepDownUntimed(s, term, leader) ==
    LET newer == term > currentTerm[s]
    IN  /\ currentTerm' = [currentTerm EXCEPT ![s] = Larger(@, term)]
        /\ status' = [status EXCEPT ![s] = IF newer THEN "follower" ELSE @]
        /\ leaderId' = [leaderId EXCEPT ![s] =
               IF newer THEN leader
               ELSE IF leader # Nil /\ status[s] = "follower" THEN leader ELSE @]
        /\ heartbeatTimer' = [heartbeatTimer EXCEPT ![s] =
               IF newer /\ status[s] = "leader" THEN FALSE ELSE @]
        /\ UNCHANGED electionTimer

\* updateTerm and becomeFollower, when the request's term is newer.  The
\* vote the node has left is VoteAfter.
StepDown(s, term, leader) ==
    LET newer == term > currentTerm[s]
    IN  /\ currentTerm' = [currentTerm EXCEPT ![s] = Larger(@, term)]
        /\ status' = [status EXCEPT ![s] = IF newer THEN "follower" ELSE @]
        /\ leaderId' = [leaderId EXCEPT ![s] =
               IF newer THEN leader
               ELSE IF leader # Nil /\ status[s] = "follower" THEN leader ELSE @]
        /\ heartbeatTimer' = [heartbeatTimer EXCEPT ![s] =
               IF newer /\ status[s] = "leader" THEN FALSE ELSE @]
        /\ electionTimer' = [electionTimer EXCEPT ![s] = TRUE]

\* Mutant: updateTerm keeps the vote of the older term.
VoteKept(s, term) == votedFor[s]

VoteAfter(s, term) == IF term > currentTerm[s] THEN Nil ELSE votedFor[s]

Consistent(s, r) ==
    r.prevLogIndex >= 0 =>
        /\ r.prevLogIndex < Len(log[s])
        /\ log[s][r.prevLogIndex + 1].term = r.prevLogTerm

\* Mutant: the request's entries are pushed without cutting the log.
LogWithoutCut(s, r) == log[s] \o r.entries

\* The entries after prevLogIndex are replaced by the request's, if it has any.
LogAfter(s, r) ==
    IF r.entries = <<>> THEN log[s]
    ELSE SubSeq(log[s], 1, r.prevLogIndex + 1) \o r.entries

RejectEntries(s, r) == ~Consistent(s, r) /\ UNCHANGED logVars

\* Mutant: the commit index is capped one short of the last entry.
StoreEntriesShort(s, r) ==
    /\ Consistent(s, r)
    /\ log' = [log EXCEPT ![s] = LogAfter(s, r)]
    /\ IF r.leaderCommit > commitIndex[s]
       THEN ApplyCommittedEntries(s, LogAfter(s, r),
                Smaller(r.leaderCommit, Len(LogAfter(s, r)) - 2))
       ELSE UNCHANGED <<commitIndex, lastApplied, applied>>

StoreEntries(s, r) ==
    /\ Consistent(s, r)
    /\ log' = [log EXCEPT ![s] = LogAfter(s, r)]
    /\ IF r.leaderCommit > commitIndex[s]
       THEN ApplyCommittedEntries(s, LogAfter(s, r),
                Smaller(r.leaderCommit, Len(LogAfter(s, r)) - 1))
       ELSE UNCHANGED <<commitIndex, lastApplied, applied>>

HandleAppendEntries(s, r) ==
    /\ phase[s] # "created"
    /\ r.term >= currentTerm[s]
    /\ StepDown(s, r.term, r.leaderId)
    /\ votedFor' = [votedFor EXCEPT ![s] = VoteAfter(s, r.term)]
    /\ RejectEntries(s, r) \/ StoreEntries(s, r)
    /\ UNCHANGED <<voteTimers, phase>>

IsCandidateUpToDate(s, r) ==
    log[s] # <<>> =>
        LET last == log[s][Len(log[s])]
        IN  \/ r.lastLogTerm > last.term
            \/ r.lastLogTerm = last.term /\ r.lastLogIndex >= last.index

\* Mutant: a vote is granted although another one was cast in this term.
CanGrantAgain(s, r) == r.term >= currentTerm[s] /\ IsCandidateUpToDate(s, r)

CanGrant(s, r) ==
    /\ r.term >= currentTerm[s]
    /\ VoteAfter(s, r.term) \in {Nil, r.candidateId}
    /\ IsCandidateUpToDate(s, r)

HandleRequestVote(s, r) ==
    /\ phase[s] # "created"
    /\ r.term > currentTerm[s] \/ CanGrant(s, r)
    /\ StepDown(s, r.term, Nil)
    /\ votedFor' = [votedFor EXCEPT ![s] =
           IF CanGrant(s, r) THEN r.candidateId ELSE VoteAfter(s, r.term)]
    /\ UNCHANGED <<logVars, voteTimers, phase>>

-----------------------------------------------------------------------------
TimerStep(s) ==
    \/ StartElection(s) \/ IgnoreElectionTimeout(s)
    \/ BecomeLeader(s) \/ DropVoteTimer(s)

LocalStep(s) ==
    \/ Start(s) \/ Stop(s) \/ TimerStep(s)
    \/ \E c \in Command : AppendCommand(s, c)

RpcStep(s) ==
    \/ \E r \in AppendRequests : HandleAppendEntries(s, r)
    \/ \E r \in VoteRequests : HandleRequestVote(s, r)

DeployedNext == \E s \in Server : LocalStep(s)
Next == \E s \in Server : LocalStep(s) \/ RpcStep(s)

\* Node's event loop runs every timer that is armed and not cleared.
TimersFire ==
    \A s \in Server : /\ WF_vars(StartElection(s))
                      /\ WF_vars(BecomeLeader(s))

Spec == Init /\ [][Next]_vars
DeployedSpec == Init /\ [][DeployedNext]_vars /\ TimersFire
-----------------------------------------------------------------------------
(* What the engine keeps right.                                            *)

\* Every variable has its type.  commitIndex may be -1: a heartbeat with a
\* positive leaderCommit makes it so on an empty log.
TypeOK ==
    /\ currentTerm \in [Server -> Nat]
    /\ votedFor \in [Server -> Server \cup Peer \cup {Nil}]
    /\ log \in [Server -> Seq(Entry)]
    /\ commitIndex \in [Server -> Nat \cup {-1}]
    /\ lastApplied \in [Server -> Nat]
    /\ status \in [Server -> {"follower", "candidate", "leader"}]
    /\ leaderId \in [Server -> Server \cup Peer \cup {Nil}]
    /\ electionTimer \in [Server -> BOOLEAN]
    /\ voteTimers \in [Server -> Nat]
    /\ heartbeatTimer \in [Server -> BOOLEAN]
    /\ phase \in [Server -> {"created", "running", "stopped"}]
    /\ applied \in [Server -> Seq(Entry)]

\* No running engine is stuck: whatever timers were reset, cleared or left
\* over from older candidacies, a follower has an election timeout to wait
\* for, a candidate a vote callback and a leader its heartbeat; only a leader
\* ever beats, and nothing runs before start.
AlwaysWaitingForATimer ==
    \A s \in Server :
        /\ phase[s] = "created" => status[s] = "follower" /\ ~electionTimer[s]
        /\ phase[s] = "running" /\ status[s] = "follower" => electionTimer[s]
        /\ phase[s] = "running" /\ status[s] = "leader" => heartbeatTimer[s]
        /\ status[s] = "candidate" => voteTimers[s] > 0
        /\ heartbeatTimer[s] => status[s] = "leader"

\* The vote, the role and the leader a node reports agree: a node voted for
\* itself exactly when it is a candidate or leader, and names itself as the
\* leader exactly when it leads.
RoleMatchesVote ==
    \A s \in Server :
        /\ votedFor[s] = s <=> status[s] # "follower"
        /\ leaderId[s] = s <=> status[s] = "leader"

\* onLogCommit receives the entries of index 1, 2, ..., lastApplied, each
\* once and in order, however the log was cut and refilled in between.
AppliedInOrder ==
    \A s \in Server :
        /\ Len(applied[s]) = lastApplied[s]
        /\ \A i \in 1..Len(applied[s]) : applied[s][i].index = i

\* The log keeps its shape under local appends and replaced suffixes:
\* consecutive indices, and terms in order, none from the future.
LogOrdered ==
    \A s \in Server : \A i \in 1..Len(log[s]) :
        /\ log[s][i].index = i - 1
        /\ log[s][i].term <= currentTerm[s]
        /\ \A j \in 1..i : log[s][j].term <= log[s][i].term

Rank(role) == CASE role = "follower" -> 0 [] role = "candidate" -> 1 [] role = "leader" -> 2

\* Terms never go back, and within one term a node casts one vote and never
\* falls back in role: a deposed leader or candidate saw a newer term.
OneVoteOneRolePerTerm ==
    [][\A s \in Server :
          /\ currentTerm'[s] >= currentTerm[s]
          /\ currentTerm'[s] = currentTerm[s] =>
                /\ votedFor[s] # Nil => votedFor'[s] = votedFor[s]
                /\ Rank(status'[s]) >= Rank(status[s])]_vars

-----------------------------------------------------------------------------
(* What documents, comments and tests of the repository say, and the code  *)
(* does not do.                                                            *)

\* The comment in appendCommand, "immediately commit the entry": what is
\* committed has reached the state machine.
CommittedIsApplied ==
    \A s \in Server : \A i \in 1..Len(log[s]) :
        i - 1 <= commitIndex[s] =>
            \E j \in 1..Len(applied[s]) : applied[s][j] = log[s][i]
=============================================================================
