----------------------------- MODULE NodeServer -----------------------------
(***************************************************************************)
(* A NodeNomad node as its clients see it: the key-value routes of         *)
(* raft-server.ts, over RaftClusterManager, over one RaftEngine and the    *)
(* memory of one storage engine.                                           *)
(*                                                                         *)
(* Every handler runs to its reply without giving up the event loop where  *)
(* state is concerned: appendCommand, its commit callback and the memory   *)
(* updates of the storage engine happen before the first await.  So each   *)
(* request is one action here.  What becomes of the data file, and entries *)
(* that expire, are the matter of StorageEngine; a life of the process     *)
(* starts from whatever that engine loaded.                                *)
(***************************************************************************)
EXTENDS Integers, Sequences

CONSTANTS Server, Key, Value,
          Nil,      \* the source's null
          Absent,   \* "no entry", in a map and in a reply
          MaxTerm,  \* bound: no election starts at this term
          MaxLog    \* bound: no command is appended to a log this long

ASSUME NodeAssumption ==
    /\ Absent \notin Value /\ Nil \notin Server
    /\ MaxTerm \in Nat /\ MaxLog \in Nat

SetCommand(k, v) == [type |-> "set", key |-> k, value |-> v]
DeleteCommand(k) == [type |-> "delete", key |-> k, value |-> Absent]
Commands == {SetCommand(k, v) : k \in Key, v \in Value} \cup {DeleteCommand(k) : k \in Key}

VARIABLES
    currentTerm, votedFor, log, commitIndex, lastApplied, status, leaderId,
    electionTimer, voteTimers, heartbeatTimer, phase, applied,
    store,  \* the data map of the node's storage engine
    reply,  \* the last reply the node sent
    told    \* history: the map that the acknowledged requests describe

Engine == INSTANCE RaftEngine WITH
    Command <- Commands, Peer <- {}, AppendRequests <- {}, VoteRequests <- {}

engineVars == <<currentTerm, votedFor, log, commitIndex, lastApplied, status,
                leaderId, electionTimer, voteTimers, heartbeatTimer, phase, applied>>
vars == <<engineVars, store, reply, told>>

Maps == [Key -> Value \cup {Absent}]

Reply(op, k, v, done) == [op |-> op, key |-> k, value |-> v, done |-> done]
NoReply == Reply("none", Nil, Absent, FALSE)

Init ==
    /\ Engine!Init
    /\ store \in [Server -> Maps]
    /\ reply = [s \in Server |-> NoReply]
    /\ told = store

-----------------------------------------------------------------------------
(* The engine starts, stops and runs its timers.  A stopped node still     *)
(* answers the connections it has, until its process exits.                *)

NodeStep(s) ==
    /\ Engine!Start(s) \/ Engine!Stop(s) \/ Engine!TimerStep(s)
    /\ UNCHANGED <<store, reply, told>>

-----------------------------------------------------------------------------
(* Requests.                                                               *)

Serving(s)  == phase[s] # "created"
IsLeader(s) == status[s] = "leader"

\* The entries that this step hands to onLogCommit.
Committed(s) == SubSeq(applied'[s], Len(applied[s]) + 1, Len(applied'[s]))

\* Mutant: the command is stored in place of its value.
AfterStoringCommands(m, entries) ==
    [k \in Key |->
        LET hits == {i \in 1..Len(entries) : entries[i].command.key = k}
        IN  IF hits = {} THEN m[k]
            ELSE entries[CHOOSE i \in hits : \A j \in hits : j <= i].command]

\* applyLogEntry for each of the entries, in order: the last one of a key wins.
AfterApplying(m, entries) ==
    [k \in Key |->
        LET hits == {i \in 1..Len(entries) : entries[i].command.key = k}
        IN  IF hits = {} THEN m[k]
            ELSE entries[CHOOSE i \in hits : \A j \in hits : j <= i].command.value]

Set(s, k, v) ==
    /\ Serving(s) /\ IsLeader(s)
    /\ Engine!AppendCommand(s, SetCommand(k, v))
    /\ store' = [store EXCEPT ![s] = AfterApplying(@, Committed(s))]
    /\ reply' = [reply EXCEPT ![s] = Reply("set", k, v, TRUE)]
    /\ told' = [told EXCEPT ![s][k] = v]

\* delete appends the command, whose commit deletes the key, and then deletes
\* it from storage again: the reply is what this second delete found.
Delete(s, k) ==
    /\ Serving(s) /\ IsLeader(s)
    /\ Engine!AppendCommand(s, DeleteCommand(k))
    /\ LET map == AfterApplying(store[s], Committed(s))
       IN  /\ store' = [store EXCEPT ![s] = [map EXCEPT ![k] = Absent]]
           /\ reply' = [reply EXCEPT ![s] = Reply("delete", k, Absent, map[k] # Absent)]
    /\ told' = [told EXCEPT ![s][k] = Absent]

\* clearAll empties the storage without a command in the log.
Clear(s) ==
    /\ Serving(s) /\ IsLeader(s)
    /\ store' = [store EXCEPT ![s] = [k \in Key |-> Absent]]
    /\ reply' = [reply EXCEPT ![s] = Reply("clear", Nil, Absent, TRUE)]
    /\ told' = [told EXCEPT ![s] = [k \in Key |-> Absent]]
    /\ UNCHANGED engineVars

\* Any node reads from its own storage.
Get(s, k) ==
    /\ Serving(s)
    /\ reply' = [reply EXCEPT ![s] = Reply("get", k, store[s][k], store[s][k] # Absent)]
    /\ UNCHANGED <<engineVars, store, told>>

Has(s, k) ==
    /\ Serving(s)
    /\ reply' = [reply EXCEPT ![s] = Reply("exists", k, Absent, store[s][k] # Absent)]
    /\ UNCHANGED <<engineVars, store, told>>

\* Which keys it lists is left to KeyValueRoutes.
GetAllKeys(s) ==
    /\ Serving(s)
    /\ reply' = [reply EXCEPT ![s] = Reply("keys", Nil, Absent, TRUE)]
    /\ UNCHANGED <<engineVars, store, told>>

Read(s) == GetAllKeys(s) \/ \E k \in Key : Get(s, k) \/ Has(s, k)

\* A write to a node that does not lead: 503.
Refuse(s) ==
    /\ Serving(s) /\ ~IsLeader(s)
    /\ reply' = [reply EXCEPT ![s] = Reply("refused", leaderId[s], Absent, FALSE)]
    /\ UNCHANGED <<engineVars, store, told>>

Request(s) ==
    \/ \E k \in Key : Delete(s, k) \/ \E v \in Value : Set(s, k, v)
    \/ Clear(s) \/ Read(s) \/ Refuse(s)

Next == \E s \in Server : NodeStep(s) \/ Request(s)

\* Node's event loop runs every timer that is armed and not cleared.
ElectionTimeout(s) == Engine!StartElection(s) /\ UNCHANGED <<store, reply, told>>
VoteCallback(s)    == Engine!BecomeLeader(s) /\ UNCHANGED <<store, reply, told>>

Spec == Init /\ [][Next]_vars
FairSpec == Spec /\ \A s \in Server : WF_vars(ElectionTimeout(s)) /\ WF_vars(VoteCallback(s))
-----------------------------------------------------------------------------

TypeOK ==
    /\ Engine!TypeOK
    /\ store \in [Server -> Maps]
    /\ told \in [Server -> Maps]
    /\ reply \in [Server -> [op : {"none", "set", "delete", "get", "exists", "keys", "clear", "refused"},
                             key : Key \cup Server \cup {Nil},
                             value : Value \cup {Absent}, done : BOOLEAN]]

\* The storage of a node is what its clients were told, through the log, its
\* commit callback, the second delete and the clear that bypasses the log,
\* but for one command: the first set of a process's life, which the engine
\* never applies.  Its key keeps the older value until the next write of it.
OnlyTheFirstSetIsLost ==
    \A s \in Server : \A k \in Key :
        store[s][k] # told[s][k] =>
            /\ log[s] # <<>>
            /\ log[s][1].command = SetCommand(k, told[s][k])
            /\ \A i \in 2..Len(log[s]) : log[s][i].command.key # k

\* The step in which node s answers a delete.
AnswersDelete(s) ==
    /\ Len(log'[s]) > Len(log[s])
    /\ log'[s][Len(log'[s])].command.type = "delete"

\* "deleted: true" is never said of a key that was not there, or that is
\* still there, although the delete goes through log and storage both.
DeletedIsHonest ==
    [][\A s \in Server :
          AnswersDelete(s) /\ reply'[s].done =>
              /\ store[s][reply'[s].key] # Absent
              /\ store'[s][reply'[s].key] = Absent]_vars

\* Every node that starts ends up accepting writes, as the leader of a cluster
\* of its own, unless it is stopped first; requests cannot keep it from it.
EveryStartedNodeLeads ==
    \A s \in Server : phase[s] = "running" ~> IsLeader(s) \/ phase[s] = "stopped"

\* docs/api/README.md, Delete Data: "deleted": true, and the integration test
\* that expects it after a set: the reply says whether there was a key.
DeletedSaysIfThereWasAKey ==
    [][\A s \in Server :
          AnswersDelete(s) => reply'[s].done = (store[s][reply'[s].key] # Absent)]_vars
=============================================================================
