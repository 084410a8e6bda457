---------------------------- MODULE WriteAheadLog ----------------------------
(***************************************************************************)
(* The write-ahead log of the storage engine: a text file, one JSON entry  *)
(* to a line, that appendToWAL extends, truncateWAL rewrites and replayWAL *)
(* reads when an engine starts.                                            *)
(*                                                                         *)
(* Each caller awaits its own calls; nothing orders the calls of different *)
(* callers.  An append is one write at the end of the file.  A truncation  *)
(* reads the file, opens it truncating it, and writes what it keeps at the *)
(* beginning: three steps.  A write that is cut off, by an error or because *)
(* the process dies, is a step of its own, before anybody hears of it.     *)
(* Lines are counted from 0, as in the code: line i is lines[i + 1].       *)
(***************************************************************************)
EXTENDS Integers, SequencesExt

CONSTANTS
    Caller,
    Key, Value,
    Missing,    \* no entry of a map; the value of a delete
    MaxEntries, \* bound: how many entries are handed to appendToWAL
    MaxFailures, MaxCuts  \* bounds: failures and truncations

ASSUME LogAssumption == Missing \notin Value /\ {MaxEntries, MaxFailures, MaxCuts} \subseteq Nat

\* The id tells two entries of one command apart.
LogEntry == [id : 1..MaxEntries, key : Key, value : Value \cup {Missing}]

\* What JSON.parse rejects: a cut line, or pieces of two.
Garbage == [id |-> 0]

VARIABLES
    exists,    \* the file is there
    lines,     \* its lines
    torn,      \* its last line has no end: the next append continues it
    call,      \* the call each caller waits for
    entries,   \* how many entries were handed to appendToWAL
    acked,     \* history: the entries whose append was acknowledged
    due,       \* history: those of them that the log has to hold
    failures,  \* history: how many calls were cut off or failed
    cuts       \* history: how many truncations were called

file == <<exists, lines, torn>>
history == <<acked, due, failures, cuts>>
vars == <<file, call, entries, history>>

Idle == [op |-> "idle"]
Broken == [op |-> "broken"]   \* it was cut off and has not been rejected yet
Appending(e) == [op |-> "append", entry |-> e]
Truncation(stage, n, keep) == [op |-> "truncate", stage |-> stage, from |-> n, keep |-> keep]

Truncating(stages) == {c \in Caller : call[c].op = "truncate" /\ call[c].stage \in stages}

Init ==
    /\ exists = FALSE
    /\ lines = <<>>
    /\ torn = FALSE
    /\ call = [c \in Caller |-> Idle]
    /\ entries = 0
    /\ acked = {}
    /\ due = {}
    /\ failures = 0
    /\ cuts = 0

-----------------------------------------------------------------------------
(* Reading.                                                                *)

\* A line that cannot be parsed is passed over.
ParseLine(read, l) == IF l = Garbage THEN read ELSE Append(read, l)

Parsed(text) == FoldLeft(ParseLine, <<>>, text)

\* Mutant: the line toIndex is included.
GetWALEntriesThrough(from, to) ==
    Parsed(SubSeq(lines, from + 1, IF to = 0 \/ to >= Len(lines) THEN Len(lines) ELSE to + 1))

\* The entries of the lines from .. to - 1; a toIndex of 0, like none at all,
\* means the end of the file.
GetWALEntries(from, to) ==
    Parsed(SubSeq(lines, from + 1, IF to = 0 \/ to > Len(lines) THEN Len(lines) ELSE to))

\* Mutant: a delete in the log is passed over.
ApplyOnlySets(map, e) ==
    IF e.value = Missing THEN map
    ELSE [map EXCEPT ![e.key] = [value |-> e.value, mortal |-> FALSE]]

\* A set restores the value without its time to live.
ApplyLogEntry(map, e) ==
    [map EXCEPT ![e.key] =
        IF e.value = Missing THEN Missing ELSE [value |-> e.value, mortal |-> FALSE]]

\* What initialize leaves in memory when loadData has put map there.
ReplayWAL(map) == FoldLeft(ApplyLogEntry, map, Parsed(lines))

-----------------------------------------------------------------------------
(* appendToWAL.                                                            *)

AppendToWAL(c, k, v) ==
    /\ call[c] = Idle
    /\ entries < MaxEntries
    /\ entries' = entries + 1
    /\ call' = [call EXCEPT ![c] = Appending([id |-> entries + 1, key |-> k, value |-> v])]
    /\ UNCHANGED <<file, history>>

\* The lines with a text behind them: what follows a line without an end
\* becomes a part of it.
Extended(text) ==
    IF torn THEN [lines EXCEPT ![Len(lines)] = Garbage] ELSE Append(lines, text)

\* Mutant: the entry is written without the end of its line.
AppendLineUnended(c) ==
    /\ call[c].op = "append"
    /\ exists' = TRUE
    /\ lines' = Extended(call[c].entry)
    /\ torn' = TRUE
    /\ acked' = acked \cup {call[c].entry}
    /\ due' = due \cup {call[c].entry}
    /\ call' = [call EXCEPT ![c] = Idle]
    /\ UNCHANGED <<entries, failures, cuts>>

AppendLine(c) ==
    /\ call[c].op = "append"
    /\ exists' = TRUE
    /\ lines' = Extended(call[c].entry)
    /\ torn' = FALSE
    /\ acked' = acked \cup {call[c].entry}
    /\ due' = IF torn \/ Truncating({"read", "opened"}) # {} THEN due
              ELSE due \cup {call[c].entry}
    /\ call' = [call EXCEPT ![c] = Idle]
    /\ UNCHANGED <<entries, failures, cuts>>

\* What an append leaves that is cut off: nothing, an empty file, a piece of
\* the line, all of it but its end, or the line, of which nobody hears.
CutOff(e) ==
    \/ UNCHANGED file
    \/ exists' = TRUE /\ UNCHANGED <<lines, torn>>
    \/ exists' = TRUE /\ torn' = TRUE /\ lines' \in {Extended(Garbage), Extended(e)}
    \/ exists' = TRUE /\ torn' = FALSE /\ lines' = Extended(e)

AppendFails(c) ==
    /\ call[c].op = "append"
    /\ failures < MaxFailures
    /\ CutOff(call[c].entry)
    /\ failures' = failures + 1
    /\ call' = [call EXCEPT ![c] = Broken]
    /\ UNCHANGED <<entries, acked, due, cuts>>

-----------------------------------------------------------------------------
(* truncateWAL.                                                            *)

TruncateWAL(c, n) ==
    /\ call[c] = Idle
    /\ cuts < MaxCuts
    /\ cuts' = cuts + 1
    /\ call' = [call EXCEPT ![c] = Truncation("called", n, <<>>)]
    /\ UNCHANGED <<file, entries, acked, due, failures>>

\* split makes one line of an empty text.
LineCount == IF lines = <<>> THEN 1 ELSE Len(lines)

\* Mutant: one line too many goes.
KeepFewer(n) == SubSeq(lines, 1, n - 1)

Keep(n) == SubSeq(lines, 1, n)

\* There is nothing to truncate, or the call remembers the lines it keeps.
\* An absent file makes it throw.  A truncation that overlaps another one may
\* read half of what there is.
ReadLog(c) ==
    /\ call[c].op = "truncate" /\ call[c].stage = "called"
    /\ LET n == call[c].from IN
       IF exists /\ n < LineCount
       THEN /\ call' = [call EXCEPT ![c] = Truncation("read", n, Keep(n))]
            /\ due' = IF Truncating({"read", "opened"}) # {} THEN {}
                      ELSE due \ {lines[i] : i \in (n + 1)..Len(lines)}
       ELSE /\ call' = [call EXCEPT ![c] = Idle]
            /\ UNCHANGED due
    /\ UNCHANGED <<file, entries, acked, failures, cuts>>

\* Mutant: the next append is still thought to continue a line.
OpenLogTorn(c) ==
    /\ call[c].op = "truncate" /\ call[c].stage = "read"
    /\ lines' = <<>>
    /\ call' = [call EXCEPT ![c].stage = "opened"]
    /\ UNCHANGED <<exists, torn, entries, history>>

OpenLog(c) ==
    /\ call[c].op = "truncate" /\ call[c].stage = "read"
    /\ lines' = <<>>
    /\ torn' = FALSE
    /\ call' = [call EXCEPT ![c].stage = "opened"]
    /\ UNCHANGED <<exists, entries, history>>

\* Where the text of keep goes over the lines that others have written since
\* the file was truncated, what is longer shows behind it, and begins inside
\* of a line unless the texts agree up to there.
Overlay(keep) ==
    IF keep = <<>> \/ IsPrefix(keep, lines) THEN {lines}
    ELSE IF IsPrefix(lines, keep) THEN {keep}
    ELSE {keep} \cup {keep \o SubSeq(lines, i, Len(lines)) : i \in 2..Len(lines)}
                \cup {keep \o <<Garbage>> \o SubSeq(lines, i + 1, Len(lines)) : i \in 1..Len(lines)}

WriteLog(c) ==
    /\ call[c].op = "truncate" /\ call[c].stage = "opened"
    /\ lines' \in Overlay(call[c].keep)
    /\ torn' = (torn /\ lines' # call[c].keep)
    /\ call' = [call EXCEPT ![c] = Idle]
    /\ UNCHANGED <<exists, entries, history>>

\* What a write of keep leaves that is cut off: nothing, or some of the lines
\* and then nothing or a piece of the next one.  The piece is the end of the
\* file, or is glued to what others have written since the file was truncated.
CutWrite(keep) ==
    \/ UNCHANGED file
    \/ \E k \in 1..Len(keep) :
        LET whole == SubSeq(keep, 1, k)
            before == SubSeq(keep, 1, k - 1)
        IN  /\ UNCHANGED exists
            /\ \/ lines' \in Overlay(whole) /\ torn' = (torn /\ lines' # whole)
               \/ /\ ~IsPrefix(whole, lines)
                  /\ torn' = TRUE
                  /\ lines' \in {Append(before, piece) : piece \in {Garbage, keep[k]}}
               \/ /\ ~IsPrefix(whole, lines)
                  /\ torn' = torn
                  /\ \E i \in 1..Len(lines), glued \in {Garbage, keep[k]} \cup ToSet(lines) :
                        lines' = Append(before, glued) \o SubSeq(lines, i + 1, Len(lines))

\* Before the file is opened a failure leaves it alone.
TruncateFails(c) ==
    /\ call[c].op = "truncate"
    /\ failures < MaxFailures
    /\ IF call[c].stage = "opened" THEN CutWrite(call[c].keep) /\ due' = {}
       ELSE UNCHANGED <<file, due>>
    /\ failures' = failures + 1
    /\ call' = [call EXCEPT ![c] = Broken]
    /\ UNCHANGED <<entries, acked, cuts>>

Rejects(c) ==
    /\ call[c] = Broken
    /\ call' = [call EXCEPT ![c] = Idle]
    /\ UNCHANGED <<file, entries, history>>

-----------------------------------------------------------------------------
\* The process dies with its calls.  What their writes have left is in the file:
\* any number of them may have been cut off just before.
Crash ==
    /\ \E c \in Caller : call[c] # Idle
    /\ due' = IF Truncating({"opened"}) # {} THEN {} ELSE due
    /\ call' = [c \in Caller |-> Idle]
    /\ UNCHANGED <<file, entries, acked, failures, cuts>>

Next ==
    \/ \E c \in Caller :
        \/ \E k \in Key, v \in Value \cup {Missing} : AppendToWAL(c, k, v)
        \/ AppendLine(c) \/ AppendFails(c)
        \/ \E n \in 0..MaxEntries : TruncateWAL(c, n)
        \/ ReadLog(c) \/ OpenLog(c) \/ WriteLog(c) \/ TruncateFails(c)
        \/ Rejects(c)
    \/ Crash

Spec == Init /\ [][Next]_vars

-----------------------------------------------------------------------------
(* Properties.                                                             *)

Readable == ToSet(lines) \ {Garbage}

CallType ==
    {Idle, Broken} \cup {Appending(e) : e \in LogEntry}
           \cup [op : {"truncate"}, stage : {"called", "read", "opened"},
                  from : Nat, keep : Seq(LogEntry \cup {Garbage})]

\* The type invariant: an absent file has no lines, and only a line can lack
\* its end.
TypeOK ==
    /\ exists \in BOOLEAN
    /\ lines \in Seq(LogEntry \cup {Garbage})
    /\ torn \in BOOLEAN
    /\ call \in [Caller -> CallType]
    /\ entries \in 0..MaxEntries
    /\ due \subseteq acked /\ acked \subseteq LogEntry
    /\ {failures, cuts} \subseteq Nat
    /\ (lines # <<>> => exists) /\ (torn => lines # <<>>)

DueIsReadable == Truncating({"opened"}) = {} => due \subseteq Readable

\* Two slices are the whole, where the first one is not empty: a toIndex of 0
\* is none.
SlicesMeet ==
    \A from \in 0..Len(lines), to \in 1..Len(lines) :
        from < to => GetWALEntries(from, to) \o GetWALEntries(to, 0) = GetWALEntries(from, 0)

\* Between truncations every acknowledged entry can be read, at once and slice
\* by slice.  The excuses are these: a truncation asked for the entry to go, or
\* rewrote the file while it was appended, or overlapped another truncation, or
\* was cut off, by a failure or by the end of the process, with the file open; or
\* the entry was appended behind the piece of a line that an append or a
\* truncation left when it was cut off.
LostOnlyToARaceOrACrash == DueIsReadable /\ SlicesMeet

\* Without truncations a failure costs one acknowledged entry at the most: the
\* one that the next append glues to the piece of a line.
FailureCostsOneEntry == cuts = 0 => Cardinality(acked \ Readable) <= failures

\* The storage engine at run time, with a time to live.
Executed(map, e) ==
    [map EXCEPT ![e.key] =
        IF e.value = Missing THEN Missing ELSE [value |-> e.value, mortal |-> TRUE]]

\* What replaying has to leave of a key: what its last entry says, and what the
\* file had where there is no entry.
Restored(map, k) ==
    LET log == Parsed(lines)
        of == {i \in 1..Len(log) : log[i].key = k}
    IN  IF of = {} THEN map[k]
        ELSE IF log[Max(of)].value = Missing THEN Missing
        ELSE [value |-> log[Max(of)].value, mortal |-> FALSE]

\* Whatever the data file held, and however much of the log had been executed
\* and persisted when the process died, initialize ends with the same map: the
\* last entry of each key decides, and what would have expired is permanent.
ReplayIsIndependentOfTheFile ==
    \A map \in [Key -> {Missing} \cup [value : Value, mortal : BOOLEAN]] :
    \A n \in 0..Len(Parsed(lines)) :
        LET persisted == FoldLeft(Executed, map, SubSeq(Parsed(lines), 1, n))
        IN  \A k \in Key : ReplayWAL(persisted)[k] = Restored(map, k)
=============================================================================
