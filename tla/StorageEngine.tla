---------------------------- MODULE StorageEngine ----------------------------
(***************************************************************************)
(* The storage engine of a node: a map in memory and one JSON file.        *)
(*                                                                         *)
(* Every mutation changes the map at once and starts persistData, which    *)
(* nobody awaits: it serialises the whole map and calls fs.writeFile, that  *)
(* is, it opens the file truncating it and then writes.  Several such      *)
(* writers may be in flight, and the thread pool may open and write them   *)
(* in any order.  Only close awaits the writer it starts itself.           *)
(*                                                                         *)
(* A second engine may open the same file after close, in the same process *)
(* (as the tests do, old writers still in flight) or after the process     *)
(* exited (they are gone).  The write-ahead log is not modelled here: no   *)
(* code calls appendToWAL, so replayWAL finds no file.                     *)
(***************************************************************************)
EXTENDS Integers

CONSTANTS
    Key, Value,
    Ttl,        \* the times to live clients ask for; 0 is none
    Writer,     \* bound: at most this many persistData calls are in flight
    Missing,    \* no entry
    MaxClock    \* bound: the clock stops here

ASSUME TtlAssumption == Ttl \subseteq Nat
ASSUME ClockAssumption == MaxClock \in Nat

VARIABLES
    memory,     \* the map this.data
    clock,      \* Date.now()
    phase,      \* "down", "loading", "ready", "closing", "closed" or "failed"
    dataFile,   \* what a reader of the file finds
    writer,     \* the persistData calls in flight
    closer,     \* the writers close is waiting for (one, or none)
    acked,      \* history: the data as the engine last acknowledged it
    clean       \* history: the last writer to finish had the file to itself

vars == <<memory, clock, phase, dataFile, writer, closer, acked, clean>>

StorageEntry == [value : Value, timestamp : Nat, ttl : Ttl]
Snapshot == [Key -> StorageEntry \cup {Missing}]
NoData == [k \in Key |-> Missing]

\* An entry expires when its time to live has passed; a ttl of 0 is falsy.
Expired(e) == e # Missing /\ e.ttl # 0 /\ clock > e.timestamp + e.ttl
Live(m) == [k \in Key |-> IF Expired(m[k]) THEN Missing ELSE m[k]]

NoWriter == [state |-> "idle", snap |-> NoData, alone |-> FALSE]
InFlight(w) == writer[w].state # "idle"
Quiet == \A w \in Writer : ~InFlight(w)

File(kind, m) == [kind |-> kind, data |-> m]

Init ==
    /\ memory = NoData
    /\ clock = 0
    /\ phase = "down"
    /\ dataFile = File("absent", NoData)
    /\ writer = [w \in Writer |-> NoWriter]
    /\ closer = {}
    /\ acked = NoData
    /\ clean = TRUE

-----------------------------------------------------------------------------
(* initialize: loadData, then replayWAL (which finds no file).             *)

\* Mutant: loadData keeps the entries that have expired.
LoadWithExpired ==
    /\ phase \in {"down", "closed"}
    /\ IF dataFile.kind \in {"absent", "json"}
       THEN phase' = "loading" /\ memory' = dataFile.data /\ acked' = dataFile.data
       ELSE phase' = "failed" /\ UNCHANGED <<memory, acked>>
    /\ UNCHANGED <<clock, dataFile, writer, closer, clean>>

\* An absent file is an empty one; anything but the text of a snapshot makes
\* JSON.parse throw, and initialize with it.
Load ==
    /\ phase \in {"down", "closed"}
    /\ IF dataFile.kind \in {"absent", "json"}
       THEN /\ phase' = "loading"
            /\ memory' = Live(dataFile.data)
            /\ acked' = Live(dataFile.data)
       ELSE phase' = "failed" /\ UNCHANGED <<memory, acked>>
    /\ UNCHANGED <<clock, dataFile, writer, closer, clean>>

FinishInitialize ==
    /\ phase = "loading"
    /\ phase' = "ready"
    /\ UNCHANGED <<memory, clock, dataFile, writer, closer, acked, clean>>

-----------------------------------------------------------------------------
(* Operations on the map.  isInitialized holds until close has finished.   *)

IsInitialized == phase \in {"ready", "closing"}

\* persistData takes its snapshot at once; the file is touched later.
PersistData(w, m) ==
    /\ ~InFlight(w)
    /\ writer' = [x \in Writer |->
           IF x = w THEN [state |-> "queued", snap |-> m, alone |-> Quiet]
           ELSE IF InFlight(x) THEN [writer[x] EXCEPT !.alone = FALSE]
           ELSE writer[x]]

\* A mutation leaves m in memory and persists it, unawaited.
Mutate(w, m) ==
    /\ memory' = m
    /\ acked' = m
    /\ PersistData(w, m)
    /\ UNCHANGED <<clock, phase, dataFile, closer, clean>>

\* Mutant: the ttl is converted from seconds to milliseconds.
SetSeconds(w, k, v, t) ==
    /\ IsInitialized
    /\ Mutate(w, [memory EXCEPT ![k] = [value |-> v, timestamp |-> clock, ttl |-> 1000 * t]])

Set(w, k, v, t) ==
    /\ IsInitialized
    /\ Mutate(w, [memory EXCEPT ![k] = [value |-> v, timestamp |-> clock, ttl |-> t]])

\* Mutant: delete does not persist.
DeleteInMemory(w, k) ==
    /\ IsInitialized
    /\ memory[k] # Missing
    /\ memory' = [memory EXCEPT ![k] = Missing]
    /\ acked' = memory'
    /\ UNCHANGED <<clock, phase, dataFile, writer, closer, clean>>

Delete(w, k) ==
    /\ IsInitialized
    /\ memory[k] # Missing
    /\ Mutate(w, [memory EXCEPT ![k] = Missing])

Clear(w) == IsInitialized /\ Mutate(w, NoData)

\* get and has drop the entry they find expired, in memory only.
ReadKey(k) ==
    /\ IsInitialized
    /\ Expired(memory[k])
    /\ memory' = [memory EXCEPT ![k] = Missing]
    /\ UNCHANGED <<clock, phase, dataFile, writer, closer, acked, clean>>

\* Mutant: entries with a ttl are dropped before it has passed.
ReadAllTooEager ==
    /\ IsInitialized
    /\ memory' = [k \in Key |->
           IF memory[k] # Missing /\ memory[k].ttl # 0 THEN Missing ELSE memory[k]]
    /\ UNCHANGED <<clock, phase, dataFile, writer, closer, acked, clean>>

\* keys, size and getShardData drop every expired entry.
ReadAll ==
    /\ IsInitialized
    /\ memory' = Live(memory)
    /\ UNCHANGED <<clock, phase, dataFile, writer, closer, acked, clean>>

\* close persists and waits for that writer alone.
Close(w) ==
    /\ phase = "ready"
    /\ phase' = "closing"
    /\ PersistData(w, memory)
    /\ closer' = {w}
    /\ UNCHANGED <<memory, clock, dataFile, acked, clean>>

-----------------------------------------------------------------------------
(* fs.writeFile, as the thread pool runs it.                               *)

OpenFile(w) ==
    /\ writer[w].state = "queued"
    /\ writer' = [writer EXCEPT ![w].state = "opened"]
    /\ dataFile' = File("empty", NoData)
    /\ UNCHANGED <<memory, clock, phase, closer, acked, clean>>

\* The text goes over what other writers left since the file was truncated:
\* a longer text of theirs shows behind it, which is no JSON.
Overlay(m) ==
    IF dataFile \in {File("empty", NoData), File("json", m)}
    THEN {File("json", m)}
    ELSE {File("json", m), File("garbled", NoData)}

\* When the writer is close's, the map is cleared and the engine is closed.
WriteFile(w) ==
    /\ writer[w].state = "opened"
    /\ dataFile' \in Overlay(writer[w].snap)
    /\ writer' = [writer EXCEPT ![w] = NoWriter]
    /\ clean' = writer[w].alone
    /\ closer' = closer \ {w}
    /\ IF w \in closer
       THEN phase' = "closed" /\ memory' = NoData
       ELSE UNCHANGED <<phase, memory>>
    /\ UNCHANGED <<clock, acked>>

\* Mutant: the failure of close's writer is swallowed.
WriteFailsSilently(w) ==
    /\ InFlight(w)
    /\ writer' = [writer EXCEPT ![w] = NoWriter]
    /\ clean' = FALSE
    /\ closer' = closer \ {w}
    /\ UNCHANGED <<memory, clock, phase, dataFile, acked>>

\* open or write fails: a mutation only logs it, close throws and the engine
\* stays initialized.
WriteFails(w) ==
    /\ InFlight(w)
    /\ writer' = [writer EXCEPT ![w] = NoWriter]
    /\ clean' = FALSE
    /\ closer' = closer \ {w}
    /\ phase' = IF w \in closer THEN "ready" ELSE phase
    /\ UNCHANGED <<memory, clock, dataFile, acked>>

-----------------------------------------------------------------------------
(* The process and the clock.                                              *)

\* The writers in flight die with the process, an opened file stays empty.
Kill ==
    /\ phase' = "down"
    /\ memory' = NoData
    /\ writer' = [w \in Writer |-> NoWriter]
    /\ closer' = {}
    /\ clean' = (clean /\ Quiet)
    /\ UNCHANGED <<clock, dataFile, acked>>

Exit  == phase \in {"closed", "failed"} /\ Kill
Crash == phase \in {"loading", "ready", "closing"} /\ Kill

Tick ==
    /\ clock < MaxClock
    /\ clock' = clock + 1
    /\ UNCHANGED <<memory, phase, dataFile, writer, closer, acked, clean>>

Request(w) ==
    \/ \E k \in Key, v \in Value, t \in Ttl : Set(w, k, v, t)
    \/ \E k \in Key : Delete(w, k)
    \/ Clear(w)
    \/ Close(w)

EngineStep ==
    \/ Load \/ FinishInitialize
    \/ \E w \in Writer : OpenFile(w) \/ WriteFile(w)
    \/ \E k \in Key : ReadKey(k)
    \/ ReadAll
    \/ Exit
    \/ Tick

Next ==
    \/ EngineStep
    \/ \E w \in Writer : Request(w) \/ WriteFails(w)
    \/ Crash

\* The use the tests make of an engine: no request once close was called, no
\* write that fails, no crash.
GracefulNext == EngineStep \/ (phase = "ready" /\ \E w \in Writer : Request(w))

\* The thread pool completes what it was given.
FilesAreWritten == \A w \in Writer : WF_vars(OpenFile(w)) /\ WF_vars(WriteFile(w))

Spec == Init /\ [][Next]_vars
FairSpec == Spec /\ FilesAreWritten
GracefulSpec == Init /\ [][GracefulNext]_vars

-----------------------------------------------------------------------------
TypeOK ==
    /\ memory \in Snapshot
    /\ clock \in Nat
    /\ phase \in {"down", "loading", "ready", "closing", "closed", "failed"}
    /\ dataFile \in [kind : {"absent", "empty", "garbled", "json"}, data : Snapshot]
    /\ writer \in [Writer -> [state : {"idle", "queued", "opened"},
                              snap : Snapshot, alone : BOOLEAN]]
    /\ closer \in SUBSET Writer
    /\ acked \in Snapshot
    /\ clean \in BOOLEAN

\* Once every writer has finished, the last of them alone, the file holds
\* what was acknowledged and has not expired since, through whatever lazy
\* deletes, failed writes, restarts and overlapping writes went before.
SettledDiskIsCurrent ==
    clean /\ Quiet =>
        /\ dataFile.kind \in {"absent", "json"}
        /\ Live(dataFile.data) = Live(acked)

\* While the engine serves, what it serves is what it acknowledged.
MemoryIsAcknowledged == IsInitialized => Live(memory) = Live(acked)

\* An initialize that has read the file, and one that found m in it.
Initializing == ~(phase \in {"loading", "failed"}) /\ phase' \in {"loading", "failed"}
InitializesWith(m) == phase' = "loading" /\ memory' = m

\* A node that starts on such a file starts, with all of its data.
SettledDataSurvivesRestart ==
    [][clean /\ Quiet /\ Initializing => InitializesWith(Live(acked))]_vars

\* Why the settled file is current: a writer that has the file to itself
\* carries the acknowledged data, finds the file as it truncated it, and its
\* engine is still open; close waits for one writer, in flight.
SoloWriterOwnsFile ==
    /\ \A w \in Writer : InFlight(w) /\ writer[w].alone =>
          /\ \A x \in Writer : InFlight(x) => x = w
          /\ Live(writer[w].snap) = Live(acked)
          /\ writer[w].state = "opened" => dataFile = File("empty", NoData)
          /\ IsInitialized
    /\ \A w \in closer : InFlight(w) /\ closer = {w} /\ phase = "closing"

\* close does not hang, however many writers and requests there are.
CloseEnds == phase = "closing" ~> phase # "closing"

-----------------------------------------------------------------------------
(* What the repository says, and the code does not do.                     *)

\* The next engine on this file starts, with the data of the last one.
RestartKeepsData ==
    [][Initializing => InitializesWith(Live(acked))]_vars
=============================================================================
