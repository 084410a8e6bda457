---------------------------- MODULE MCRaftEngine ----------------------------
(* Instances of RaftEngine: the logs of well-behaved peers and every request *)
(* such a peer may send.                                                     *)
EXTENDS RaftEngine

CONSTANTS p1, p2, c1, c2

E(term, index, c) == [term |-> term, index |-> index, command |-> c]

\* The log of the leader p1 of term 1, and of p2, elected in term 2 with the
\* first entry of p1 only.
LogOfTerm1 == <<E(1, 0, c1), E(1, 1, c1), E(1, 2, c1)>>
LogOfTerm2 == <<E(1, 0, c1), E(2, 1, c2)>>

\* Every AppendEntries a leader with this log may send, now or late.
RequestsOf(leader, term, entries) ==
    LET lengths == 0..Len(entries)
    IN  {[term |-> term, leaderId |-> leader,
          prevLogIndex |-> n[1] - 1,
          prevLogTerm |-> IF n[1] = 0 THEN 0 ELSE entries[n[1]].term,
          entries |-> SubSeq(entries, n[1] + 1, n[2]),
          leaderCommit |-> c]
          : n \in {m \in lengths \X lengths : m[1] <= m[2]}, c \in 0..(Len(entries) - 1)}

OneLeader  == RequestsOf(p1, 1, LogOfTerm1)
TwoLeaders == OneLeader \cup RequestsOf(p2, 2, LogOfTerm2)

Candidacies ==
    [term : 1..3, candidateId : {p1, p2}, lastLogIndex : {-1, 1}, lastLogTerm : {0, 2}]

None == {}
=============================================================================
