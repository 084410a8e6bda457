---------------------------- MODULE KeyValueStore ----------------------------
(***************************************************************************)
(* What the key-value API of a node promises its clients, and what not.    *)
(*                                                                         *)
(* Every request works on the one map of the node it is sent to, at once.  *)
(* Four promises are weaker than a client would expect, each for a reason  *)
(* the modules below this one give: the first set of a node's life may   *)
(* be lost though it is acknowledged; a delete may deny that there was a   *)
(* key; a value that reads as nothing may be shown as nothing; and maps of *)
(* different nodes have nothing to do with each other.                     *)
(***************************************************************************)
EXTENDS Integers

CONSTANTS Server, Key, Value,
          Hollow,  \* the values that a reader may be shown as nothing
          Nil,     \* no key
          Absent   \* no value

VARIABLES
    map,    \* what each node stores
    fresh,  \* the node has not accepted a set or a delete yet
    answer  \* its last answer

vars == <<map, fresh, answer>>

Maps == [Key -> Value \cup {Absent}]

Answer(op, k, v, done, keys) ==
    [op |-> op, key |-> k, value |-> v, done |-> done, keys |-> keys]

Tell(s, a) == answer' = [answer EXCEPT ![s] = a]

Init ==
    /\ map \in [Server -> Maps]
    /\ fresh = [s \in Server |-> TRUE]
    /\ answer = [s \in Server |-> Answer("none", Nil, Absent, FALSE, {})]

-----------------------------------------------------------------------------
\* A set that is acknowledged is done, unless it is the first command.
Put(s, k, v) ==
    /\ Tell(s, Answer("set", k, Absent, TRUE, {}))
    /\ fresh' = [fresh EXCEPT ![s] = FALSE]
    /\ \/ map' = [map EXCEPT ![s][k] = v]
       \/ fresh[s] /\ UNCHANGED map

\* The key is gone; where the answer says that it was there, it was.
Remove(s, k) ==
    /\ \E done \in BOOLEAN :
        /\ done => map[s][k] # Absent
        /\ Tell(s, Answer("delete", k, Absent, done, {}))
    /\ map' = [map EXCEPT ![s][k] = Absent]
    /\ fresh' = [fresh EXCEPT ![s] = FALSE]

RemoveAll(s) ==
    /\ Tell(s, Answer("clear", Nil, Absent, TRUE, {}))
    /\ map' = [map EXCEPT ![s] = [k \in Key |-> Absent]]
    /\ UNCHANGED fresh

\* The value that is there, or nothing for nothing or a hollow value.
Look(s, k) ==
    /\ \/ Tell(s, Answer("get", k, map[s][k], map[s][k] # Absent, {}))
       \/ /\ map[s][k] \in Hollow
          /\ \E done \in BOOLEAN : Tell(s, Answer("get", k, Absent, done, {}))
    /\ UNCHANGED <<map, fresh>>

LookFor(s, k) ==
    /\ Tell(s, Answer("exists", k, Absent, map[s][k] # Absent, {}))
    /\ UNCHANGED <<map, fresh>>

List(s) ==
    /\ Tell(s, Answer("keys", Nil, Absent, TRUE, {k \in Key : map[s][k] # Absent}))
    /\ UNCHANGED <<map, fresh>>

\* A node that has accepted one write accepts every later one.
Refuse(s) ==
    /\ fresh[s]
    /\ Tell(s, Answer("refused", Nil, Absent, FALSE, {}))
    /\ UNCHANGED <<map, fresh>>

\* A request that is not understood.
Reject(s) ==
    /\ Tell(s, Answer("rejected", Nil, Absent, FALSE, {}))
    /\ UNCHANGED <<map, fresh>>

Next ==
    \E s \in Server :
        \/ \E k \in Key :
            \/ \E v \in Value : Put(s, k, v)
            \/ Remove(s, k) \/ Look(s, k) \/ LookFor(s, k)
        \/ RemoveAll(s) \/ List(s) \/ Refuse(s) \/ Reject(s)

Spec == Init /\ [][Next]_vars
=============================================================================
