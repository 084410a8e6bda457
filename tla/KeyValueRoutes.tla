--------------------------- MODULE KeyValueRoutes ---------------------------
(***************************************************************************)
(* The HTTP interface of a NodeNomad node: the key-value routes that       *)
(* raft-server.ts answers itself ("api") and the ones of KeyValueRoutes    *)
(* below /api/v1/kv ("kv").  Both call the same methods of the cluster     *)
(* manager, the actions of NodeServer, and differ in what they accept and  *)
(* in how they put the result.                                             *)
(*                                                                         *)
(* The interface implements KeyValueStore.                                 *)
(***************************************************************************)
EXTENDS NodeServer

CONSTANTS
    Null,        \* the JSON value null
    Falsy,       \* the other values JavaScript takes for false: 0, false, ""
    EmptyText,   \* ""
    EmptyBuffer  \* a buffer without bytes, which counts as true

\* What counts as true: texts and buffers, which both sets of routes accept.
Truthy == Value \ (Falsy \cup {Null})

ASSUME RouteAssumption ==
    /\ Null \in Value \ Falsy /\ Falsy \subseteq Value
    /\ EmptyText \in Falsy /\ EmptyBuffer \in Truthy

VARIABLE response  \* the last HTTP response of each node

routeVars == <<vars, response>>

Route == {"api", "kv"}

Response(code, v, keys) == [code |-> code, value |-> v, keys |-> keys]

Respond(s, code) == response' = [response EXCEPT ![s] = Response(code, Absent, {})]

InitRoutes == Init /\ response = [s \in Server |-> Response(0, Absent, {})]

-----------------------------------------------------------------------------
(* Writes.                                                                 *)

\* What the routes let through to set: neither looks at the other's rule.  The
\* schema of the kv routes takes a text or what makes a buffer.
Accepts(r, v) == r = "kv" => v \in Truthy \cup {EmptyText}

\* "" is no valid text to that schema, but it makes an empty buffer.
Stored(r, v) == IF r = "kv" /\ v = EmptyText THEN EmptyBuffer ELSE v

SetKeyValue(r, s, k, v) ==
    /\ Accepts(r, v)
    /\ Set(s, k, Stored(r, v))
    /\ Respond(s, 200)

\* A body without a key or a value, or a value that the schema refuses, is
\* refused before anything else is looked at.
Invalid(s) ==
    /\ Serving(s)
    /\ Respond(s, 400)
    /\ UNCHANGED vars

\* The kv route takes "it was not there" for an error.
DeleteCode(r, existed) == IF r = "kv" /\ ~existed THEN 404 ELSE 200

DeleteKey(r, s, k) ==
    /\ Delete(s, k)
    /\ Respond(s, DeleteCode(r, reply'[s].done))

ClearAll(s) ==
    /\ Clear(s)
    /\ Respond(s, 200)

NotLeader(s) ==
    /\ Refuse(s)
    /\ Respond(s, 503)

-----------------------------------------------------------------------------
(* Reads.                                                                  *)

\* The storage engine's get says null for no entry.
ReadNode(s, k) == IF store[s][k] = Absent THEN Null ELSE store[s][k]

\* Mutant: whatever JavaScript takes for false is "not found".
GetResponseTruthy(r, v) ==
    IF v = Null \/ v \in Falsy THEN Response(404, Absent, {}) ELSE Response(200, v, {})

\* Both routes answer null with 404.  The kv route sends the data only where
\* the value counts as true, and 200 even so.
GetResponse(r, v) ==
    IF v = Null THEN Response(404, Absent, {})
    ELSE IF r = "kv" /\ v \in Falsy THEN Response(200, Absent, {})
    ELSE Response(200, v, {})

GetValue(r, s, k) ==
    /\ Get(s, k)
    /\ response' = [response EXCEPT ![s] = GetResponse(r, ReadNode(s, k))]

KeyExists(s, k) ==
    /\ Has(s, k)
    /\ Respond(s, 200)

\* Mutant: a key whose value reads as null is not listed.
KeysWithValue(s) == {k \in Key : ReadNode(s, k) # Null}

Keys(s) == {k \in Key : store[s][k] # Absent}

ListKeys(s) ==
    /\ GetAllKeys(s)
    /\ response' = [response EXCEPT ![s] = Response(200, Absent, Keys(s))]

-----------------------------------------------------------------------------
KeyRequest(s, k) ==
    \/ \E r \in Route :
        \/ \E v \in Value : SetKeyValue(r, s, k, v)
        \/ DeleteKey(r, s, k) \/ GetValue(r, s, k)
    \/ KeyExists(s, k)

RoutesNext ==
    \E s \in Server :
        \/ NodeStep(s) /\ UNCHANGED response
        \/ \E k \in Key : KeyRequest(s, k)
        \/ ClearAll(s) \/ ListKeys(s) \/ NotLeader(s) \/ Invalid(s)

RoutesSpec == InitRoutes /\ [][RoutesNext]_routeVars
FairRoutesSpec ==
    /\ RoutesSpec
    /\ \A s \in Server : WF_vars(ElectionTimeout(s)) /\ WF_vars(VoteCallback(s))

-----------------------------------------------------------------------------
(* The promise.                                                            *)

Hollow == Falsy \cup {Null}

ClientAnswer(s) ==
    IF response[s].code = 400 THEN
        [op |-> "rejected", key |-> Nil, value |-> Absent, done |-> FALSE, keys |-> {}]
    ELSE
        [op    |-> reply[s].op,
         key   |-> IF reply[s].op = "refused" THEN Nil ELSE reply[s].key,
         value |-> response[s].value,
         done  |-> reply[s].done /\ response[s].code = 200,
         keys  |-> response[s].keys]

Promise == INSTANCE KeyValueStore WITH
    map    <- store,
    fresh  <- [s \in Server |-> log[s] = <<>>],
    answer <- [s \in Server |-> ClientAnswer(s)]

\* Through log, commit callback, second delete and two sets of routes, what
\* the clients of a node see is the map of KeyValueStore, with its four
\* weaknesses and no others.
ImplementsKeyValueStore == Promise!Spec

\* The key's last acknowledged write was the first command of the node's life.
LostFirstSet(s, k) ==
    /\ log[s] # <<>>
    /\ log[s][1].command.type = "set" /\ log[s][1].command.key = k
    /\ \A i \in 2..Len(log[s]) : log[s][i].command.key # k

\* What a node acknowledged (told: what the route passed on, the buffer for "")
\* is what it shows, by any route: the exceptions are a first set, null, which
\* only exists and keys admit to, and the values that the kv route shows as no
\* data.
ReadsShowTheAcknowledged ==
    \A s \in Server, k \in Key :
        LET v == told[s][k] IN
        ~LostFirstSet(s, k) =>
            /\ GetResponse("api", ReadNode(s, k)) =
                   IF v \in {Absent, Null} THEN Response(404, Absent, {}) ELSE Response(200, v, {})
            /\ GetResponse("kv", ReadNode(s, k)) =
                   IF v \in {Absent, Null} THEN Response(404, Absent, {})
                   ELSE Response(200, IF v \in Truthy THEN v ELSE Absent, {})
            /\ k \in Keys(s) <=> v # Absent

\* A node that refuses a write never accepted one, and names no leader to go
\* to; once it accepts, it never refuses again, as nobody ever outvotes it.
RefusalsAreEarlyAndBlind ==
    \A s \in Server : ~IsLeader(s) => log[s] = <<>> /\ leaderId[s] = Nil
=============================================================================
